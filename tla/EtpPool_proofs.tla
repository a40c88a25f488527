--------------------------- MODULE EtpPool_proofs ---------------------------
(***************************************************************************)
(* Proofs about EtpPool for every value of its constants: its types, the   *)
(* wake-ups, and where the requests are, each in one place, counted as     *)
(* often as it is there, none left behind; and what the caller sees: that  *)
(* it takes requests by priority, cancels what is asked for and no less,   *)
(* and implements the contract of eio.h (EioContract).                     *)
(***************************************************************************)
EXTENDS EtpPool, SequenceTheorems, FunctionTheorems, FiniteSetTheorems, TLAPS

Counts == 0 .. W - 1

\* Unsigned counters stay in their range.
LEMMA CounterRange ==
  ASSUME NEW n \in Counts PROVE Inc(n) \in Counts /\ Dec(n) \in Counts
BY PoolAssumption DEF Inc, Dec, Counts

\* The priority a request is queued under is an index of the lists.
LEMMA ClampRange == ASSUME NEW p \in Int PROVE Clamp(p) \in Pri
<1>1. TopPri \in Nat
  BY PoolAssumption DEF TopPri
<1>2. SChar(p - PriMin) \in Int
  BY PoolAssumption DEF SChar
<1> QED
  BY <1>1, <1>2 DEF Clamp, Pri

LEMMA TopPriIsPri == TopPri \in Pri
BY PoolAssumption DEF TopPri, Pri

LEMMA EmptyQType == ASSUME NEW S PROVE Bounded(EmptyQ, S)
BY DEF Bounded, EmptyQ

\* reqq_push and reqq_shift keep a queue of S a queue of S.
LEMMA PushType ==
  ASSUME NEW S, NEW q, Bounded(q, S), NEW x \in S, NEW p \in Pri
  PROVE  Bounded(Push(q, x, p), S)
BY DEF Bounded, Push

LEMMA PopType ==
  ASSUME NEW S, NEW q, Bounded(q, S), NEW p \in Pri, IsTop(q, p), q.size # 0
  PROVE  Bounded(Pop(q, p), S) /\ Head(q.qs[p]) \in S
BY DEF Bounded, Pop, IsTop


LEMMA QueuesFrame == QueuesOK /\ UNCHANGED <<reqq, resq, tokens>> => QueuesOK'
BY DEF QueuesOK, Bounded

LEMMA CountsFrame ==
  CountsOK /\ UNCHANGED <<started, idle, confVars, nreqs, nready, npending>> => CountsOK'
BY DEF CountsOK, confVars

LEMMA WorkersFrame == WorkersOK /\ UNCHANGED workVars => WorkersOK'
BY DEF WorkersOK, workVars

LEMMA MainFrame == MainOK /\ UNCHANGED mainVars => MainOK'
BY DEF MainOK, mainVars

LEMMA RequestsFrame == RequestsOK /\ UNCHANGED reqVars => RequestsOK'
BY DEF RequestsOK, reqVars

-----------------------------------------------------------------------------
(* Type correctness.                                                       *)

LEMMA TypeInit == Init => TypeOK
<1> SUFFICES ASSUME Init PROVE TypeOK
  OBVIOUS
<1>1. QueuesOK
  BY EmptyQType DEF Init, QueuesOK
<1>2. 0 \in Pri /\ {0, InitWanted, InitMaxIdle} \subseteq 0 .. W - 1
  BY PoolAssumption DEF Pri, TopPri
<1>3. CountsOK /\ MainOK
  BY <1>2, PoolAssumption DEF Init, CountsOK, MainOK
<1>4. WorkersOK
  BY DEF Init, WorkersOK, Places
<1>5. RequestsOK
  BY <1>2 DEF Init, RequestsOK
<1> QED
  BY <1>1, <1>3, <1>4, <1>5 DEF TypeOK

\* A worker's step: by action, and the parts of the type invariant it changes.
LEMMA TypeWorker ==
  ASSUME TypeOK, NEW w \in Workers, Worker(w) \/ Clock(w)
  PROVE  TypeOK'
<1> USE DEF poolVars, confVars, workVars, mainVars, reqVars, Counts
<1>a. /\ Inc(idle) \in Counts /\ Dec(idle) \in Counts /\ Inc(Dec(idle)) \in Counts
      /\ Dec(started) \in Counts /\ Dec(nready) \in Counts /\ Inc(npending) \in Counts
  BY CounterRange DEF TypeOK, CountsOK
<1>b. ASSUME Acquire(w) PROVE idle' \in Counts
  BY <1>a, <1>b DEF Acquire, TypeOK, CountsOK
<1>1. CASE Take(w)
  <2>1. MainOK' /\ RequestsOK'
    BY <1>1, MainFrame, RequestsFrame DEF TypeOK, Take
  <2>2. CountsOK'
    BY <1>1, <1>a, <1>b DEF Take, TypeOK, CountsOK
  <2>3. QueuesOK' /\ WorkersOK'
    <3>1. PICK p \in Pri :
            /\ IsTop(reqq, p)
            /\ reqq' = Pop(reqq, p)
            /\ LET item == Head(reqq.qs[p]) IN
                 IF item = Quit
                 THEN /\ wpc' = [wpc EXCEPT ![w] = "free"]
                      /\ cur' = [cur EXCEPT ![w] = None]
                 ELSE /\ wpc' = [wpc EXCEPT ![w] = "exec"]
                      /\ cur' = [cur EXCEPT ![w] = item]
      BY <1>1 DEF Take
    <3>2. reqq.size # 0 /\ Bounded(reqq, Items)
      BY <1>1 DEF Take, Takes, TypeOK, QueuesOK
    <3>3. Bounded(reqq', Items) /\ Head(reqq.qs[p]) \in Items
      BY <3>1, <3>2, PopType
    <3>4. QueuesOK'
      BY <1>1, <3>3 DEF Take, TypeOK, QueuesOK, Bounded
    <3>5. timedOut' \in [Workers -> BOOLEAN]
      BY <1>1 DEF Take, TypeOK, WorkersOK
    <3>6. CASE Head(reqq.qs[p]) = Quit
      BY <3>1, <3>4, <3>5, <3>6 DEF TypeOK, WorkersOK, Places
    <3>7. CASE Head(reqq.qs[p]) # Quit
      BY <3>1, <3>3, <3>4, <3>5, <3>7 DEF TypeOK, WorkersOK, Places, Items
    <3> QED
      BY <3>6, <3>7
  <2> QED
    BY <2>1, <2>2, <2>3 DEF TypeOK
<1>2. CASE GiveUp(w)
  <2>1. QueuesOK' /\ MainOK' /\ RequestsOK'
    BY <1>2, QueuesFrame, MainFrame, RequestsFrame DEF TypeOK, GiveUp
  <2>2. CountsOK'
    BY <1>2, <1>b DEF GiveUp, TypeOK, CountsOK
  <2>3. WorkersOK'
    BY <1>2 DEF GiveUp, TypeOK, WorkersOK, Places
  <2> QED
    BY <2>1, <2>2, <2>3 DEF TypeOK
<1>3. CASE Wait(w)
  <2>1. QueuesOK' /\ MainOK' /\ RequestsOK'
    BY <1>3, QueuesFrame, MainFrame, RequestsFrame DEF TypeOK, Wait
  <2>2. CountsOK'
    BY <1>3, <1>a DEF Wait, TypeOK, CountsOK
  <2>3. WorkersOK'
    BY <1>3 DEF Wait, TypeOK, WorkersOK, Places
  <2> QED
    BY <2>1, <2>2, <2>3 DEF TypeOK
<1>4. CASE Retire(w)
  <2>1. QueuesOK' /\ MainOK' /\ RequestsOK'
    BY <1>4, QueuesFrame, MainFrame, RequestsFrame DEF TypeOK, Retire
  <2>2. CountsOK'
    BY <1>4, <1>a DEF Retire, Uncounted, TypeOK, CountsOK
  <2>3. WorkersOK'
    BY <1>4 DEF Retire, TypeOK, WorkersOK, Places
  <2> QED
    BY <2>1, <2>2, <2>3 DEF TypeOK
<1>5. CASE Free(w)
  <2>1. QueuesOK' /\ CountsOK' /\ MainOK' /\ RequestsOK'
    BY <1>5, QueuesFrame, CountsFrame, MainFrame, RequestsFrame DEF TypeOK, Free
  <2>2. WorkersOK'
    BY <1>5 DEF Free, TypeOK, WorkersOK, Places
  <2> QED
    BY <2>1, <2>2 DEF TypeOK
<1>6. CASE Execute(w)
  <2>1. QueuesOK' /\ CountsOK' /\ MainOK'
    BY <1>6, QueuesFrame, CountsFrame, MainFrame DEF TypeOK, Execute
  <2>2. WorkersOK'
    BY <1>6 DEF Execute, TypeOK, WorkersOK, Places
  <2>3. RequestsOK'
    <3>1. cur[w] \in Reqs
      BY <1>6 DEF Execute, TypeOK, WorkersOK, Reqs
    <3> QED
      BY <1>6, <3>1 DEF Execute, TypeOK, RequestsOK
  <2> QED
    BY <2>1, <2>2, <2>3 DEF TypeOK
<1>7. CASE Post(w)
  <2>1. MainOK' /\ RequestsOK'
    BY <1>7, MainFrame, RequestsFrame DEF TypeOK, Post
  <2>2. QueuesOK'
    <3>1. cur[w] \in Reqs /\ pri[cur[w]] \in Pri
      BY <1>7 DEF Post, TypeOK, WorkersOK, RequestsOK, Reqs
    <3>2. Bounded(resq', Reqs)
      BY <1>7, <3>1, PushType DEF Post, PushResult, TypeOK, QueuesOK
    <3> QED
      BY <1>7, <3>2 DEF Post, PushResult, WantPoll, TypeOK, QueuesOK, Bounded
  <2>3. CountsOK'
    BY <1>7, <1>a DEF Post, PushResult, TypeOK, CountsOK
  <2>4. WorkersOK'
    BY <1>7 DEF Post, TypeOK, WorkersOK, Places
  <2> QED
    BY <2>1, <2>2, <2>3, <2>4 DEF TypeOK
<1>8. CASE Timeout(w)
  <2>1. QueuesOK' /\ CountsOK' /\ MainOK' /\ RequestsOK'
    BY <1>8, QueuesFrame, CountsFrame, MainFrame, RequestsFrame DEF TypeOK, Timeout
  <2>2. WorkersOK'
    BY <1>8 DEF Timeout, TypeOK, WorkersOK, Places
  <2> QED
    BY <2>1, <2>2 DEF TypeOK
<1>9. CASE Spurious(w)
  <2>1. QueuesOK' /\ CountsOK' /\ MainOK' /\ RequestsOK'
    BY <1>9, QueuesFrame, CountsFrame, MainFrame, RequestsFrame DEF TypeOK, Spurious
  <2>2. WorkersOK'
    BY <1>9 DEF Spurious, TypeOK, WorkersOK, Places
  <2> QED
    BY <2>1, <2>2 DEF TypeOK
<1> QED
  BY <1>1, <1>2, <1>3, <1>4, <1>5, <1>6, <1>7, <1>8, <1>9 DEF Worker, Clock

\* X_COND_SIGNAL changes the place of one worker at most, to "woken".
LEMMA SignalType ==
  ASSUME WorkersOK, Signal, UNCHANGED <<cur, timedOut>>
  PROVE  WorkersOK'
BY DEF Signal, Waiting, WorkersOK, Places

\* A call of the application.
LEMMA TypeUser ==
  ASSUME TypeOK, User
  PROVE  TypeOK'
<1> USE DEF poolVars, confVars, workVars, mainVars, reqVars, Counts
<1>a. /\ Inc(nreqs) \in Counts /\ Inc(nready) \in Counts /\ Inc(npending) \in Counts
  BY CounterRange DEF TypeOK, CountsOK
<1>1. ASSUME NEW r \in Plain, Submit(r) PROVE TypeOK'
  <2>1. WorkersOK'
    BY <1>1, SignalType DEF Submit, TypeOK
  <2>2. CountsOK'
    BY <1>1, <1>a DEF Submit, TypeOK, CountsOK
  <2>3. MainOK'
    BY <1>1 DEF Submit, MaybeStart, New, InUser, TypeOK, MainOK
  <2>4. QueuesOK' /\ RequestsOK'
    <3>1. PICK p \in RawPri : /\ pri' = [pri EXCEPT ![r] = Clamp(p)]
                              /\ reqq' = Push(reqq, r, Clamp(p))
      BY <1>1 DEF Submit
    <3>2. Clamp(p) \in Pri
      BY ClampRange, PoolAssumption
    <3>3. Bounded(reqq', Items)
      BY <3>1, <3>2, PushType DEF Items, TypeOK, QueuesOK
    <3>4. QueuesOK'
      BY <1>1, <3>3 DEF Submit, TypeOK, QueuesOK, Bounded
    <3> QED
      BY <1>1, <3>1, <3>2, <3>4 DEF Submit, New, TypeOK, RequestsOK
  <2> QED
    BY <2>1, <2>2, <2>3, <2>4 DEF TypeOK
<1>2. ASSUME NEW g \in Groups, SubmitGroup(g) PROVE TypeOK'
  <2>1. WorkersOK' /\ MainOK'
    BY <1>2, WorkersFrame, MainFrame DEF TypeOK, SubmitGroup
  <2>2. CountsOK'
    BY <1>2, <1>a DEF SubmitGroup, PushResult, TypeOK, CountsOK
  <2>3. QueuesOK'
    <3>1. Bounded(resq', Reqs)
      BY <1>2, PushType, TopPriIsPri DEF SubmitGroup, PushResult, Reqs, TypeOK, QueuesOK
    <3> QED
      BY <1>2, <3>1 DEF SubmitGroup, PushResult, WantPoll, TypeOK, QueuesOK, Bounded
  <2>4. RequestsOK'
    BY <1>2, TopPriIsPri DEF SubmitGroup, New, TypeOK, RequestsOK
  <2> QED
    BY <2>1, <2>2, <2>3, <2>4 DEF TypeOK
<1>3. ASSUME NEW S, CancelSet(S) PROVE TypeOK'
  <2>1. QueuesOK' /\ CountsOK' /\ WorkersOK' /\ MainOK'
    BY <1>3, QueuesFrame, CountsFrame, WorkersFrame, MainFrame DEF TypeOK, CancelSet
  <2>2. RequestsOK'
    BY <1>3 DEF CancelSet, TypeOK, RequestsOK
  <2> QED
    BY <2>1, <2>2 DEF TypeOK
<1>4. ASSUME NEW g \in Groups, NEW r \in Reqs, GrpAdd(g, r) PROVE TypeOK'
  <2>1. QueuesOK' /\ CountsOK' /\ WorkersOK' /\ MainOK'
    BY <1>4, QueuesFrame, CountsFrame, WorkersFrame, MainFrame DEF TypeOK, GrpAdd
  <2>2. RequestsOK'
    BY <1>4 DEF GrpAdd, TypeOK, RequestsOK
  <2> QED
    BY <2>1, <2>2 DEF TypeOK
<1>5. ASSUME NEW n \in ParallelTo, SetMinParallel(n) \/ SetMaxParallel(n) PROVE TypeOK'
  <2>1. QueuesOK' /\ WorkersOK' /\ RequestsOK'
    BY <1>5, QueuesFrame, WorkersFrame, RequestsFrame DEF TypeOK, SetMinParallel, SetMaxParallel
  <2>2. CountsOK'
    BY <1>5, PoolAssumption DEF SetMinParallel, SetMaxParallel, TypeOK, CountsOK
  <2>3. MainOK'
    BY <1>5 DEF SetMinParallel, SetMaxParallel, InUser, TypeOK, MainOK
  <2> QED
    BY <2>1, <2>2, <2>3 DEF TypeOK
<1>6. ASSUME NEW n \in IdleTo, SetMaxIdle(n) PROVE TypeOK'
  <2>1. QueuesOK' /\ WorkersOK' /\ RequestsOK'
    BY <1>6, QueuesFrame, WorkersFrame, RequestsFrame DEF TypeOK, SetMaxIdle
  <2>2. CountsOK'
    BY <1>6, PoolAssumption DEF SetMaxIdle, TypeOK, CountsOK
  <2>3. MainOK'
    BY <1>6 DEF SetMaxIdle, TypeOK, MainOK
  <2> QED
    BY <2>1, <2>2, <2>3 DEF TypeOK
<1>7. ASSUME NEW n \in PollTo, SetMaxPollReqs(n) PROVE TypeOK'
  <2>1. QueuesOK' /\ WorkersOK' /\ RequestsOK'
    BY <1>7, QueuesFrame, WorkersFrame, RequestsFrame DEF TypeOK, SetMaxPollReqs
  <2>2. CountsOK'
    BY <1>7, PoolAssumption DEF SetMaxPollReqs, TypeOK, CountsOK
  <2>3. MainOK'
    BY <1>7 DEF SetMaxPollReqs, TypeOK, MainOK
  <2> QED
    BY <2>1, <2>2, <2>3 DEF TypeOK
<1> QED
  BY <1>1, <1>2, <1>3, <1>4, <1>5, <1>6, <1>7 DEF User, Cancel, GrpCancel

\* eio_finish of r goes to the callback of r or past it.
LEMMA BeginFinishType ==
  ASSUME TypeOK, NEW r \in Reqs, BeginFinish(r), ctx = "app"
  PROVE  /\ (mpc' = "unlink" /\ ctx' = "app") \/ (mpc' = "user" /\ ctx' = "cb")
         /\ called' \in [Reqs -> Nat]
<1>1. called \in [Reqs -> Nat]
  BY DEF TypeOK, RequestsOK
<1>2. CASE cancelled[r]
  BY <1>1, <1>2 DEF BeginFinish
<1>3. CASE ~cancelled[r]
  BY <1>1, <1>3 DEF BeginFinish
<1> QED
  BY <1>2, <1>3

\* A step of the main thread inside the library, or of its event loop.
LEMMA TypeMain ==
  ASSUME TypeOK, Inside \/ PollBegin \/ CbReturn
  PROVE  TypeOK'
<1> USE DEF poolVars, confVars, workVars, mainVars, reqVars, Counts
<1>a. /\ Inc(started) \in Counts /\ Dec(started) \in Counts /\ Dec(nreqs) \in Counts
      /\ Dec(npending) \in Counts
  BY CounterRange DEF TypeOK, CountsOK
<1>1. CASE MaybeStartEnough
  <2>1. QueuesOK' /\ CountsOK' /\ WorkersOK' /\ RequestsOK'
    BY <1>1, QueuesFrame, CountsFrame, WorkersFrame, RequestsFrame DEF TypeOK, MaybeStartEnough
  <2>2. MainOK'
    BY <1>1 DEF MaybeStartEnough, TypeOK, MainOK
  <2> QED
    BY <2>1, <2>2 DEF TypeOK
<1>2. CASE MaybeStartRead
  <2>1. QueuesOK' /\ CountsOK' /\ WorkersOK' /\ RequestsOK'
    BY <1>2, QueuesFrame, CountsFrame, WorkersFrame, RequestsFrame DEF TypeOK, MaybeStartRead
  <2>2. MainOK'
    BY <1>2 DEF MaybeStartRead, TypeOK, MainOK, CountsOK
  <2> QED
    BY <2>1, <2>2 DEF TypeOK
<1>3. CASE MaybeStartDecide
  <2>1. QueuesOK' /\ CountsOK' /\ WorkersOK' /\ RequestsOK'
    BY <1>3, QueuesFrame, CountsFrame, WorkersFrame, RequestsFrame DEF TypeOK, MaybeStartDecide
  <2>2. MainOK'
    BY <1>3 DEF MaybeStartDecide, TypeOK, MainOK
  <2> QED
    BY <2>1, <2>2 DEF TypeOK
<1>4. CASE StartThread
  <2>1. QueuesOK' /\ RequestsOK'
    BY <1>4, QueuesFrame, RequestsFrame DEF TypeOK, StartThread
  <2>2. CountsOK'
    BY <1>4, <1>a DEF StartThread, TypeOK, CountsOK
  <2>3. MainOK'
    BY <1>4 DEF StartThread, TypeOK, MainOK
  <2>4. WorkersOK'
    BY <1>4 DEF StartThread, TypeOK, WorkersOK, Places
  <2> QED
    BY <2>1, <2>2, <2>3, <2>4 DEF TypeOK
<1>5. CASE StartFails
  <2>1. QueuesOK' /\ CountsOK' /\ WorkersOK' /\ RequestsOK'
    BY <1>5, QueuesFrame, CountsFrame, WorkersFrame, RequestsFrame DEF TypeOK, StartFails
  <2>2. MainOK'
    BY <1>5 DEF StartFails, TypeOK, MainOK
  <2> QED
    BY <2>1, <2>2 DEF TypeOK
<1>6. CASE EndCheck
  <2>1. QueuesOK' /\ CountsOK' /\ WorkersOK' /\ RequestsOK'
    BY <1>6, QueuesFrame, CountsFrame, WorkersFrame, RequestsFrame DEF TypeOK, EndCheck
  <2>2. MainOK'
    BY <1>6 DEF EndCheck, TypeOK, MainOK
  <2> QED
    BY <2>1, <2>2 DEF TypeOK
<1>7. CASE EndPush
  <2>1. CountsOK' /\ RequestsOK'
    BY <1>7, CountsFrame, RequestsFrame DEF TypeOK, EndPush
  <2>2. MainOK'
    BY <1>7 DEF EndPush, TypeOK, MainOK
  <2>3. QueuesOK'
    <3>1. Bounded(reqq', Items)
      BY <1>7, PushType, TopPriIsPri DEF EndPush, Items, TypeOK, QueuesOK
    <3> QED
      BY <1>7, <3>1 DEF EndPush, TypeOK, QueuesOK, Bounded
  <2>4. WorkersOK'
    BY <1>7, SignalType DEF EndPush, TypeOK
  <2> QED
    BY <2>1, <2>2, <2>3, <2>4 DEF TypeOK
<1>8. CASE EndDec
  <2>1. QueuesOK' /\ WorkersOK' /\ RequestsOK'
    BY <1>8, QueuesFrame, WorkersFrame, RequestsFrame DEF TypeOK, EndDec
  <2>2. MainOK'
    BY <1>8 DEF EndDec, TypeOK, MainOK
  <2>3. CountsOK'
    BY <1>8, <1>a DEF EndDec, Uncounted, TypeOK, CountsOK
  <2> QED
    BY <2>1, <2>2, <2>3 DEF TypeOK
<1>9. CASE PollShift
  <2>1. WorkersOK' /\ RequestsOK'
    BY <1>9, WorkersFrame, RequestsFrame DEF TypeOK, PollShift
  <2>2. CountsOK'
    BY <1>9, <1>a DEF PollShift, TypeOK, CountsOK
  <2>3. QueuesOK' /\ MainOK'
    <3>1. PICK p \in Pri : /\ IsTop(resq, p)
                           /\ resq' = Pop(resq, p)
                           /\ chain' = <<Head(resq.qs[p])>>
      BY <1>9 DEF PollShift
    <3>2. Bounded(resq', Reqs) /\ Head(resq.qs[p]) \in Reqs
      BY <1>9, <3>1, PopType DEF PollShift, TypeOK, QueuesOK
    <3>3. chain' \in Seq(Reqs) /\ chain' # <<>>
      BY <3>1, <3>2
    <3>4. MainOK'
      BY <1>9, <3>3 DEF PollShift, TypeOK, MainOK
    <3> QED
      BY <1>9, <3>2, <3>4 DEF PollShift, TypeOK, QueuesOK, Bounded
  <2> QED
    BY <2>1, <2>2, <2>3 DEF TypeOK
<1>10. CASE PollEmpty
  <2>1. QueuesOK' /\ CountsOK' /\ WorkersOK' /\ RequestsOK'
    BY <1>10, QueuesFrame, CountsFrame, WorkersFrame, RequestsFrame DEF TypeOK, PollEmpty
  <2>2. MainOK'
    BY <1>10 DEF PollEmpty, PollReturn, TypeOK, MainOK
  <2> QED
    BY <2>1, <2>2 DEF TypeOK
<1>11. CASE PollHandle
  <2>1. QueuesOK' /\ WorkersOK'
    BY <1>11, QueuesFrame, WorkersFrame DEF TypeOK, PollHandle
  <2>2. CountsOK'
    BY <1>11, <1>a DEF PollHandle, TypeOK, CountsOK
  <2>3. MainOK' /\ RequestsOK'
    <3>1. chain # <<>> /\ chain[1] \in Reqs /\ ctx = "app"
      BY <1>11 DEF PollHandle, TypeOK, MainOK
    <3>2. CASE PutOff(chain[1])
      <4>1. MainOK'
        BY <1>11, <3>2 DEF PollHandle, MaybeStart, TypeOK, MainOK
      <4> QED
        BY <1>11, <3>2, <4>1 DEF PollHandle, PutOff, TypeOK, RequestsOK
    <3>3. CASE ~PutOff(chain[1])
      <4>1. BeginFinish(chain[1]) /\ UNCHANGED <<delayed, chain, mret>>
        BY <1>11, <3>3 DEF PollHandle
      <4>2. /\ (mpc' = "unlink" /\ ctx' = "app") \/ (mpc' = "user" /\ ctx' = "cb")
            /\ called' \in [Reqs -> Nat]
        BY BeginFinishType, <3>1, <4>1
      <4>3. MainOK'
        BY <1>11, <3>1, <4>1, <4>2 DEF PollHandle, TypeOK, MainOK
      <4> QED
        BY <1>11, <4>1, <4>2, <4>3 DEF PollHandle, TypeOK, RequestsOK
    <3> QED
      BY <3>2, <3>3
  <2> QED
    BY <2>1, <2>2, <2>3 DEF TypeOK
<1>12. CASE UnlinkMember
  <2>1. QueuesOK' /\ CountsOK' /\ WorkersOK'
    BY <1>12, QueuesFrame, CountsFrame, WorkersFrame DEF TypeOK, UnlinkMember
  <2>2. MainOK' /\ RequestsOK'
    <3> DEFINE r == chain[Len(chain)]
               g == grp[r]
    <3>1. chain # <<>> /\ r \in Reqs /\ ctx = "app"
      BY <1>12 DEF UnlinkMember, TypeOK, MainOK
    <3>2. g \in Groups /\ g \in Reqs
      BY <1>12, <3>1 DEF UnlinkMember, TypeOK, RequestsOK, Reqs
    <3>3. kids' \in [Groups -> SUBSET Reqs] /\ gsize' \in [Groups -> Int]
      BY <1>12, <3>2 DEF UnlinkMember, Unlinked, TypeOK, RequestsOK
    <3>4. /\ \/ mpc' \in {"unlink", "destroy"} /\ ctx' = "app"
             \/ mpc' = "user" /\ ctx' = "cb"
          /\ called' \in [Reqs -> Nat]
          /\ chain' \in Seq(Reqs) /\ chain' # <<>>
      <4>1. CASE LastOfDelayed(g)
        <5>1. chain' = Append(chain, g) /\ BeginFinish(g)
          BY <1>12, <4>1 DEF UnlinkMember
        <5>2. chain' \in Seq(Reqs) /\ chain' # <<>>
          BY <3>1, <3>2, <5>1 DEF TypeOK, MainOK
        <5> QED
          BY BeginFinishType, <3>1, <3>2, <5>1, <5>2
      <4>2. CASE ~LastOfDelayed(g)
        <5>1. mpc' = "destroy" /\ UNCHANGED <<chain, ctx, called>>
          BY <1>12, <4>2 DEF UnlinkMember
        <5> QED
          BY <3>1, <5>1 DEF TypeOK, MainOK, RequestsOK
      <4> QED
        BY <4>1, <4>2
    <3>5. MainOK'
      BY <1>12, <3>4 DEF UnlinkMember, TypeOK, MainOK
    <3> QED
      BY <1>12, <3>3, <3>4, <3>5 DEF UnlinkMember, TypeOK, RequestsOK
  <2> QED
    BY <2>1, <2>2 DEF TypeOK
<1>13. CASE UnlinkNone
  <2>1. QueuesOK' /\ CountsOK' /\ WorkersOK' /\ RequestsOK'
    BY <1>13, QueuesFrame, CountsFrame, WorkersFrame, RequestsFrame DEF TypeOK, UnlinkNone
  <2>2. MainOK'
    BY <1>13 DEF UnlinkNone, TypeOK, MainOK
  <2> QED
    BY <2>1, <2>2 DEF TypeOK
<1>14. CASE PollNext
  <2>1. QueuesOK' /\ CountsOK' /\ WorkersOK'
    BY <1>14, QueuesFrame, CountsFrame, WorkersFrame DEF TypeOK, PollNext
  <2>2. RequestsOK'
    BY <1>14 DEF PollNext, TypeOK, RequestsOK
  <2>3. MainOK'
    <3>1. /\ mpc' \in {"maybe", "user"} /\ mret' \in {"user", "shift"}
          /\ chain' = <<>>
      BY <1>14 DEF PollNext, PollReturn, MaybeStart, TypeOK, MainOK
    <3>0. pollret' \in Int /\ budget' \in Counts
      <4>1. budget \in Nat /\ budget \in Counts /\ W \in Nat /\ 0 \in Counts
        BY PoolAssumption DEF TypeOK, MainOK
      <4>2. budget # 0 => budget - 1 \in Counts
        BY <4>1
      <4>3. budget' \in {budget, 0, IF budget = 0 THEN 0 ELSE budget - 1}
        BY <1>14 DEF PollNext
      <4>4. pollret' \in {pollret, acc, -1}
        BY <1>14 DEF PollNext, PollReturn
      <4> QED
        BY <4>1, <4>2, <4>3, <4>4 DEF TypeOK, MainOK
    <3>2. ctx' = "app"
      BY <1>14 DEF PollNext, PollReturn, TypeOK, MainOK
    <3> QED
      BY <1>14, <3>0, <3>1, <3>2 DEF PollNext, TypeOK, MainOK
  <2> QED
    BY <2>1, <2>2, <2>3 DEF TypeOK
<1>15. CASE PollBegin
  <2>1. QueuesOK' /\ CountsOK' /\ WorkersOK' /\ RequestsOK'
    BY <1>15, QueuesFrame, CountsFrame, WorkersFrame, RequestsFrame DEF TypeOK, PollBegin
  <2>2. MainOK'
    BY <1>15 DEF PollBegin, InUser, MaybeStart, TypeOK, MainOK, CountsOK
  <2> QED
    BY <2>1, <2>2 DEF TypeOK
<1>16. CASE CbReturn
  <2>1. QueuesOK' /\ CountsOK' /\ WorkersOK' /\ RequestsOK'
    BY <1>16, QueuesFrame, CountsFrame, WorkersFrame, RequestsFrame DEF TypeOK, CbReturn
  <2>2. MainOK'
    BY <1>16, PoolAssumption DEF CbReturn, InUser, TypeOK, MainOK
  <2> QED
    BY <2>1, <2>2 DEF TypeOK
<1> QED
  BY <1>1, <1>2, <1>3, <1>4, <1>5, <1>6, <1>7, <1>8, <1>9, <1>10, <1>11, <1>12,
     <1>13, <1>14, <1>15, <1>16 DEF Inside

LEMMA TypeStep == TypeOK /\ [Next]_vars => TypeOK'
<1> SUFFICES ASSUME TypeOK, [Next]_vars PROVE TypeOK'
  OBVIOUS
<1>1. CASE Next
  BY <1>1, TypeWorker, TypeUser, TypeMain DEF Next
<1>2. CASE UNCHANGED vars
  BY <1>2, QueuesFrame, CountsFrame, WorkersFrame, MainFrame, RequestsFrame
     DEF vars, poolVars, TypeOK
<1> QED
  BY <1>1, <1>2

\* Every variable keeps its type, and a thread that is past taking a request
\* has one in its hand, in every behaviour of the pool.
THEOREM TypeCorrect == Spec => []TypeOK
BY TypeInit, TypeStep, PTL DEF Spec

-----------------------------------------------------------------------------
(* The byte in the pipe.                                                   *)

LEMMA PushToken ==
  ASSUME TypeOK, PollToken, NEW r, NEW p \in Pri, PushResult(r, p)
  PROVE  PollToken'
BY DEF PushResult, Push, WantPoll, PollToken, TypeOK, QueuesOK, Bounded

LEMMA TokenStep == TypeOK /\ PollToken /\ [Next]_vars => PollToken'
<1> SUFFICES ASSUME TypeOK, PollToken, [Next]_vars PROVE PollToken'
  OBVIOUS
<1> USE DEF poolVars
<1>a. ASSUME UNCHANGED <<resq, tokens>> PROVE PollToken'
  BY <1>a DEF PollToken
<1>1. ASSUME NEW w \in Workers, Worker(w) \/ Clock(w) PROVE PollToken'
  <2>1. CASE Post(w)
    <3>1. pri[cur[w]] \in Pri
      BY <2>1 DEF Post, TypeOK, WorkersOK, RequestsOK, Reqs
    <3> QED
      BY <2>1, <3>1, PushToken DEF Post
  <2>2. CASE Take(w) \/ GiveUp(w) \/ Wait(w) \/ Retire(w) \/ Free(w) \/ Execute(w)
    BY <1>a, <2>2 DEF Take, GiveUp, Wait, Retire, Free, Execute
  <2>3. CASE Clock(w)
    BY <1>a, <2>3 DEF Clock, Timeout, Spurious
  <2> QED
    BY <1>1, <2>1, <2>2, <2>3 DEF Worker
<1>2. CASE User
  <2>1. ASSUME NEW g \in Groups, SubmitGroup(g) PROVE PollToken'
    BY <2>1, PushToken, TopPriIsPri DEF SubmitGroup
  <2>2. ASSUME NEW r \in Plain, Submit(r) PROVE PollToken'
    BY <1>a, <2>2 DEF Submit
  <2>3. ASSUME NEW S, CancelSet(S) PROVE PollToken'
    BY <1>a, <2>3 DEF CancelSet
  <2>4. ASSUME NEW g \in Groups, NEW r \in Reqs, GrpAdd(g, r) PROVE PollToken'
    BY <1>a, <2>4 DEF GrpAdd
  <2>5. ASSUME NEW n, SetMinParallel(n) \/ SetMaxParallel(n) \/ SetMaxIdle(n)
                      \/ SetMaxPollReqs(n)
        PROVE  PollToken'
    BY <1>a, <2>5 DEF SetMinParallel, SetMaxParallel, SetMaxIdle, SetMaxPollReqs
  <2> QED
    BY <1>2, <2>1, <2>2, <2>3, <2>4, <2>5 DEF User, Cancel, GrpCancel
<1>3. CASE Inside
  <2>1. CASE PollShift
    <3>1. PICK p \in Pri : IsTop(resq, p) /\ resq' = Pop(resq, p)
      BY <2>1 DEF PollShift
    <3>2. resq.size \in Nat \ {0} /\ resq'.size = resq.size - 1
      BY <2>1, <3>1 DEF PollShift, Pop, TypeOK, QueuesOK, Bounded
    <3>3. tokens = 1 /\ tokens' = IF resq.size = 1 THEN tokens - 1 ELSE tokens
      BY <2>1, <3>2 DEF PollShift, DonePoll, PollToken
    <3> QED
      BY <3>2, <3>3 DEF PollToken
  <2>2. CASE MaybeStartEnough \/ MaybeStartRead \/ MaybeStartDecide \/ StartThread
             \/ StartFails \/ EndCheck \/ EndPush \/ EndDec
    BY <1>a, <2>2 DEF MaybeStartEnough, MaybeStartRead, MaybeStartDecide, StartThread,
                      StartFails, EndCheck, EndPush, EndDec
  <2>3. CASE PollEmpty \/ PollHandle \/ UnlinkMember \/ UnlinkNone \/ PollNext
    BY <1>a, <2>3 DEF PollEmpty, PollHandle, UnlinkMember, UnlinkNone, PollNext
  <2> QED
    BY <1>3, <2>1, <2>2, <2>3 DEF Inside
<1>4. CASE PollBegin \/ CbReturn \/ UNCHANGED vars
  BY <1>a, <1>4 DEF PollBegin, CbReturn, vars
<1> QED
  BY <1>1, <1>2, <1>3, <1>4 DEF Next

\* The pipe between the threads and the event loop holds one byte exactly
\* while res_queue holds results, for any number of threads, requests and
\* groups.
THEOREM PollTokenCorrect == Spec => []PollToken
<1>1. Init => PollToken
  BY DEF Init, PollToken, EmptyQ
<1> QED
  BY <1>1, TypeInit, TypeStep, TokenStep, PTL DEF Spec

-----------------------------------------------------------------------------
(* No lost wake-up.  A step either leaves the sleepers, the awake and the  *)
(* queue no worse; or takes a QUIT request and with it one awake worker;   *)
(* or finds the queue empty; or pushes one request and wakes one sleeper.  *)

LEMMA AwakeFinite == IsFiniteSet(Awake) /\ Cardinality(Awake) \in Nat
<1>1. IsFiniteSet(Awake)
  BY PoolAssumption, FS_Subset DEF Awake
<1> QED
  BY <1>1, FS_CardinalityType

LEMMA NoWorse ==
  ASSUME TypeOK, TypeOK', NoLostWakeup,
         Waiting' \subseteq Waiting, Awake \subseteq Awake',
         reqq'.size <= reqq.size
  PROVE  NoLostWakeup'
<1>1. IsFiniteSet(Awake') /\ Cardinality(Awake) \in Nat /\ Cardinality(Awake') \in Nat
  <2>1. IsFiniteSet(Awake')
    BY PoolAssumption, FS_Subset DEF Awake
  <2> QED
    BY <2>1, AwakeFinite, FS_CardinalityType
<1>2. Cardinality(Awake) <= Cardinality(Awake')
  BY <1>1, FS_Subset
<1>3. reqq.size \in Nat /\ reqq'.size \in Nat
  BY DEF TypeOK, QueuesOK, Bounded
<1> QED
  BY <1>1, <1>2, <1>3 DEF NoLostWakeup

\* A push that signals: a sleeper becomes awake, or nobody sleeps.
LEMMA PushSignals ==
  ASSUME TypeOK, NoLostWakeup, NEW x, NEW p \in Pri, reqq' = Push(reqq, x, p), Signal
  PROVE  NoLostWakeup'
<1>1. reqq.size \in Nat /\ reqq'.size = reqq.size + 1
  BY DEF TypeOK, QueuesOK, Bounded, Push
<1>2. CASE Waiting = {} /\ wpc' = wpc
  BY <1>2 DEF NoLostWakeup, Waiting
<1>3. ASSUME NEW w \in Waiting, wpc' = [wpc EXCEPT ![w] = "woken"] PROVE NoLostWakeup'
  <2>1. w \notin Awake /\ Awake' = Awake \cup {w}
    BY <1>3 DEF Waiting, Awake, TypeOK, WorkersOK
  <2>2. Cardinality(Awake') = Cardinality(Awake) + 1
    BY <2>1, AwakeFinite, FS_AddElement
  <2> QED
    BY <1>1, <1>3, <2>2, AwakeFinite DEF NoLostWakeup
<1> QED
  BY <1>2, <1>3 DEF Signal

LEMMA WakeupStep == TypeOK /\ NoLostWakeup /\ [Next]_vars => NoLostWakeup'
<1> SUFFICES ASSUME TypeOK, NoLostWakeup, [Next]_vars PROVE NoLostWakeup'
  OBVIOUS
<1> USE DEF poolVars, workVars
<1>a. TypeOK'
  BY TypeStep
<1>b. reqq.size \in Nat
  BY DEF TypeOK, QueuesOK, Bounded
<1>c. ASSUME UNCHANGED <<wpc, reqq>> PROVE NoLostWakeup'
  BY <1>c DEF NoLostWakeup, Waiting, Awake
<1>1. ASSUME NEW w \in Workers, Worker(w) \/ Clock(w) PROVE NoLostWakeup'
  <2>1. CASE Take(w)
    <3>1. PICK p \in Pri :
            /\ reqq' = Pop(reqq, p)
            /\ \/ wpc' = [wpc EXCEPT ![w] = "free"]
               \/ wpc' = [wpc EXCEPT ![w] = "exec"]
      BY <2>1 DEF Take
    <3>2. w \in Awake /\ reqq.size # 0 /\ reqq'.size = reqq.size - 1
      BY <2>1, <3>1 DEF Take, Takes, Acquire, Awake, Pop
    <3>3. CASE wpc' = [wpc EXCEPT ![w] = "exec"]
      <4>1. Waiting' \subseteq Waiting /\ Awake \subseteq Awake'
        BY <3>3 DEF Waiting, Awake, TypeOK, WorkersOK
      <4> QED
        BY <1>a, <1>b, <3>2, <4>1, NoWorse
    <3>4. CASE wpc' = [wpc EXCEPT ![w] = "free"]
      <4>1. Waiting' \subseteq Waiting /\ Awake' = Awake \ {w}
        BY <3>4 DEF Waiting, Awake, TypeOK, WorkersOK
      <4>2. Cardinality(Awake') = Cardinality(Awake) - 1
        BY <3>2, <4>1, AwakeFinite, FS_RemoveElement
      <4> QED
        BY <1>b, <3>2, <4>1, <4>2, AwakeFinite DEF NoLostWakeup
    <3> QED
      BY <3>1, <3>3, <3>4
  <2>2. CASE GiveUp(w) \/ Wait(w)
    <3>1. reqq'.size = 0
      BY <2>2 DEF GiveUp, Wait, Takes
    <3>2. IsFiniteSet(Awake') /\ Cardinality(Awake') \in Nat
      <4>1. IsFiniteSet(Awake')
        BY PoolAssumption, FS_Subset DEF Awake
      <4> QED
        BY <4>1, FS_CardinalityType
    <3> QED
      BY <3>1, <3>2 DEF NoLostWakeup
  <2>3. CASE Retire(w) \/ Free(w) \/ Execute(w) \/ Post(w) \/ Clock(w)
    <3>1. reqq' = reqq
      BY <2>3 DEF Retire, Free, Execute, Post, Clock, Timeout, Spurious
    <3>2. Waiting' \subseteq Waiting /\ Awake \subseteq Awake'
      <4>1. CASE Retire(w) \/ Free(w)
        BY <4>1 DEF Retire, Free, Waiting, Awake, TypeOK, WorkersOK
      <4>2. CASE Execute(w) \/ Post(w)
        BY <4>2 DEF Execute, Post, Waiting, Awake, TypeOK, WorkersOK
      <4>3. CASE Clock(w)
        BY <4>3 DEF Clock, Timeout, Spurious, Waiting, Awake, TypeOK, WorkersOK
      <4> QED
        BY <2>3, <4>1, <4>2, <4>3
    <3> QED
      BY <1>a, <1>b, <3>1, <3>2, NoWorse
  <2> QED
    BY <1>1, <2>1, <2>2, <2>3 DEF Worker
<1>2. CASE User
  <2>1. ASSUME NEW r \in Plain, Submit(r) PROVE NoLostWakeup'
    <3>1. PICK p \in RawPri : reqq' = Push(reqq, r, Clamp(p))
      BY <2>1 DEF Submit
    <3>2. Clamp(p) \in Pri
      BY ClampRange, PoolAssumption
    <3> QED
      BY <2>1, <3>1, <3>2, PushSignals DEF Submit
  <2>2. ASSUME NEW g \in Groups, SubmitGroup(g) PROVE NoLostWakeup'
    BY <1>c, <2>2 DEF SubmitGroup
  <2>3. ASSUME NEW S, CancelSet(S) PROVE NoLostWakeup'
    BY <1>c, <2>3 DEF CancelSet
  <2>4. ASSUME NEW g \in Groups, NEW r \in Reqs, GrpAdd(g, r) PROVE NoLostWakeup'
    BY <1>c, <2>4 DEF GrpAdd
  <2>5. ASSUME NEW n, SetMinParallel(n) \/ SetMaxParallel(n) \/ SetMaxIdle(n)
                      \/ SetMaxPollReqs(n)
        PROVE  NoLostWakeup'
    BY <1>c, <2>5 DEF SetMinParallel, SetMaxParallel, SetMaxIdle, SetMaxPollReqs
  <2> QED
    BY <1>2, <2>1, <2>2, <2>3, <2>4, <2>5 DEF User, Cancel, GrpCancel
<1>3. CASE Inside
  <2>1. CASE StartThread
    <3>1. reqq' = reqq
      BY <2>1 DEF StartThread
    <3>2. Waiting' \subseteq Waiting /\ Awake \subseteq Awake'
      BY <2>1 DEF StartThread, Waiting, Awake, TypeOK, WorkersOK
    <3> QED
      BY <1>a, <1>b, <3>1, <3>2, NoWorse
  <2>2. CASE EndPush
    BY <2>2, PushSignals, TopPriIsPri DEF EndPush
  <2>3. CASE MaybeStartEnough \/ MaybeStartRead \/ MaybeStartDecide
             \/ StartFails \/ EndCheck \/ EndDec
    BY <1>c, <2>3 DEF MaybeStartEnough, MaybeStartRead, MaybeStartDecide,
                      StartFails, EndCheck, EndDec
  <2>4. CASE PollShift \/ PollEmpty \/ PollHandle \/ UnlinkMember \/ UnlinkNone \/ PollNext
    BY <1>c, <2>4 DEF PollShift, PollEmpty, PollHandle, UnlinkMember, UnlinkNone, PollNext
  <2> QED
    BY <1>3, <2>1, <2>2, <2>3, <2>4 DEF Inside
<1>4. CASE PollBegin \/ CbReturn \/ UNCHANGED vars
  BY <1>c, <1>4 DEF PollBegin, CbReturn, vars
<1> QED
  BY <1>1, <1>2, <1>3, <1>4 DEF Next

\* While a worker sleeps on reqwait, at least as many others are on their way
\* to req_queue as it holds requests, for any number of threads and requests,
\* with timeouts, spurious wake-ups and QUIT requests.
THEOREM NoLostWakeupCorrect == Spec => []NoLostWakeup
<1>1. Init => NoLostWakeup
  BY DEF Init, NoLostWakeup, Waiting
<1> QED
  BY <1>1, TypeInit, TypeStep, WakeupStep, PTL DEF Spec

-----------------------------------------------------------------------------
(* Arithmetic modulo W.                                                    *)

\* The two sides of the division of an integer by W.
LEMMA Division ==
  ASSUME NEW x \in Int
  PROVE  x \div W \in Int /\ x % W \in Counts /\ x = W * (x \div W) + (x % W)
BY PoolAssumption DEF Counts

\* A remainder modulo W is the only one.
LEMMA Remainder ==
  ASSUME NEW q \in Int, NEW r \in Counts, NEW x \in Int, x = W * q + r
  PROVE  x % W = r
<1> DEFINE a == x \div W
           s == x % W
<1>1. a \in Int /\ s \in 0 .. W - 1 /\ W * a + s = W * q + r /\ W \in Nat
  BY Division, PoolAssumption DEF Counts
<1>2. ASSUME NEW k \in Int, k >= 1 PROVE W * k >= W
  BY <1>1, <1>2
<1> HIDE DEF a, s
<1>3. W * (a - q) = W * a - W * q /\ W * (q - a) = W * q - W * a
  BY <1>1
<1>4. CASE a > q
  BY <1>1, <1>2, <1>3, <1>4 DEF Counts
<1>5. CASE a < q
  BY <1>1, <1>2, <1>3, <1>5 DEF Counts
<1>6. CASE a = q
  BY <1>1, <1>6 DEF Counts
<1> QED
  BY <1>1, <1>4, <1>5, <1>6 DEF s

\* Unsigned arithmetic is arithmetic modulo W.
LEMMA IncIsMod == ASSUME NEW x \in Int PROVE (x + 1) % W = Inc(x % W)
<1> DEFINE r == x % W
           q == x \div W
<1>1. q \in Int /\ r \in 0 .. W - 1 /\ x = W * q + r /\ W \in Nat /\ W > 1
  BY Division, PoolAssumption DEF Counts
<1> HIDE DEF q, r
<1>2. CASE r = W - 1
  <2>1. x + 1 = W * (q + 1) + 0 /\ 0 \in Counts
    BY <1>1, <1>2 DEF Counts
  <2>2. (x + 1) % W = 0
    BY <1>1, <2>1, Remainder
  <2> QED
    BY <1>2, <2>2 DEF Inc, r
<1>3. CASE r # W - 1
  <2>1. x + 1 = W * q + (r + 1) /\ r + 1 \in Counts
    BY <1>1, <1>3 DEF Counts
  <2>2. (x + 1) % W = r + 1
    BY <1>1, <2>1, Remainder
  <2> QED
    BY <1>3, <2>2 DEF Inc, r
<1> QED
  BY <1>2, <1>3

\* The same for a decrement.
LEMMA DecIsMod == ASSUME NEW x \in Int PROVE (x - 1) % W = Dec(x % W)
<1> DEFINE r == x % W
           q == x \div W
<1>1. q \in Int /\ r \in 0 .. W - 1 /\ x = W * q + r /\ W \in Nat /\ W > 1
  BY Division, PoolAssumption DEF Counts
<1> HIDE DEF q, r
<1>2. CASE r = 0
  <2>1. x - 1 = W * (q - 1) + (W - 1) /\ W - 1 \in Counts
    BY <1>1, <1>2 DEF Counts
  <2>2. (x - 1) % W = W - 1
    BY <1>1, <2>1, Remainder
  <2> QED
    BY <1>2, <2>2 DEF Dec, r
<1>3. CASE r # 0
  <2>1. x - 1 = W * q + (r - 1) /\ r - 1 \in Counts
    BY <1>1, <1>3 DEF Counts
  <2>2. (x - 1) % W = r - 1
    BY <1>1, <2>1, Remainder
  <2> QED
    BY <1>3, <2>2 DEF Dec, r
<1> QED
  BY <1>2, <1>3

\* A count below W is counted as it is.
LEMMA SmallMod == ASSUME NEW x \in Counts PROVE x % W = x
<1>1. x \in Int /\ x = W * 0 + x
  BY PoolAssumption DEF Counts
<1> QED
  BY <1>1, Remainder

-----------------------------------------------------------------------------
(* The cells of a queue.                                                   *)

\* The cells of a queue that hold a member of T.
Cells(q, T) ==
  UNION {{<<p, i>> : i \in {j \in DOMAIN q.qs[p] : q.qs[p][j] \in T}} : p \in Pri}

\* A cell is a priority and a position.
LEMMA CellsIn ==
  ASSUME NEW q, NEW T, NEW c
  PROVE  c \in Cells(q, T) <=>
           \E p \in Pri : \E i \in DOMAIN q.qs[p] : q.qs[p][i] \in T /\ c = <<p, i>>
BY DEF Cells

\* The places of an item are the cells that hold it.
LEMMA WhereIsCells == ASSUME NEW q, NEW x PROVE Where(q, x) = Cells(q, {x})
BY DEF Where, Cells

\* reqq_push adds a cell.
LEMMA PushCells ==
  ASSUME NEW S, NEW q, Bounded(q, S), NEW x \in S, NEW p \in Pri, NEW T
  PROVE  LET new == <<p, Len(q.qs[p]) + 1>>
         IN  /\ new \notin Cells(q, T)
             /\ Cells(Push(q, x, p), T) = Cells(q, T) \cup (IF x \in T THEN {new} ELSE {})
<1> DEFINE s == q.qs[p]
           new == <<p, Len(s) + 1>>
           q2 == Push(q, x, p)
<1>1. s \in Seq(S) /\ Len(s) \in Nat /\ DOMAIN s = 1 .. Len(s)
  BY LenProperties DEF Bounded
<1>2. /\ DOMAIN q2.qs[p] = 1 .. Len(s) + 1
      /\ \A i \in 1 .. Len(s) : q2.qs[p][i] = s[i]
      /\ q2.qs[p][Len(s) + 1] = x
  <2>1. q2.qs[p] = Append(s, x)
    BY DEF Push, Bounded
  <2> QED
    BY <1>1, <2>1, AppendProperties
<1>3. \A h \in Pri : h # p => q2.qs[h] = q.qs[h]
  BY DEF Push, Bounded
<1> HIDE DEF q2
<1>4. new \notin Cells(q, T)
  BY <1>1, CellsIn
<1>5. ASSUME NEW c PROVE c \in Cells(q2, T) <=> c \in Cells(q, T) \/ (x \in T /\ c = new)
  <2>1. c \in Cells(q2, T) <=> \/ \E h \in Pri \ {p} : \E i \in DOMAIN q.qs[h] :
                                    q.qs[h][i] \in T /\ c = <<h, i>>
                               \/ \E i \in 1 .. Len(s) : s[i] \in T /\ c = <<p, i>>
                               \/ x \in T /\ c = new
    <3>1. c \in Cells(q2, T) <=> \/ \E h \in Pri \ {p} : \E i \in DOMAIN q2.qs[h] :
                                      q2.qs[h][i] \in T /\ c = <<h, i>>
                                 \/ \E i \in DOMAIN q2.qs[p] : q2.qs[p][i] \in T /\ c = <<p, i>>
      BY CellsIn
    <3>2. \A h \in Pri \ {p} : (\E i \in DOMAIN q2.qs[h] : q2.qs[h][i] \in T /\ c = <<h, i>>)
                               <=> (\E i \in DOMAIN q.qs[h] : q.qs[h][i] \in T /\ c = <<h, i>>)
      BY <1>3
    <3>3. (\E i \in 1 .. Len(s) + 1 : q2.qs[p][i] \in T /\ c = <<p, i>>)
            <=> \/ \E i \in 1 .. Len(s) : s[i] \in T /\ c = <<p, i>>
                \/ x \in T /\ c = new
      <4>1. \A i : i \in 1 .. Len(s) + 1 <=> i \in 1 .. Len(s) \/ i = Len(s) + 1
        BY <1>1
      <4>2. QED BY <1>2, <4>1, Zenon
    <3> QED
      BY <1>2, <3>1, <3>2, <3>3, Zenon
  <2> QED
    BY <1>1, <2>1, CellsIn
<1> QED
  BY <1>4, <1>5 DEF q2

\* reqq_shift takes the first cell of a list and moves up the others.
LEMMA PopCells ==
  ASSUME NEW S, NEW q, Bounded(q, S), NEW p \in Pri, q.qs[p] # <<>>, NEW T
  PROVE  LET head == <<p, 1>>
         IN  /\ head \in Cells(q, T) <=> Head(q.qs[p]) \in T
             /\ ExistsBijection(Cells(q, T) \ {head}, Cells(Pop(q, p), T))
<1> DEFINE s == q.qs[p]
           head == <<p, 1>>
           q2 == Pop(q, p)
           t == Tail(s)
<1>1. /\ s \in Seq(S) /\ Len(s) \in Nat \ {0} /\ DOMAIN s = 1 .. Len(s) /\ Head(s) = s[1]
      /\ Len(t) = Len(s) - 1 /\ DOMAIN t = 1 .. Len(s) - 1
      /\ \A i \in 1 .. Len(s) - 1 : t[i] = s[i + 1]
  <2>1. s \in Seq(S) /\ s # <<>>
    BY DEF Bounded
  <2>2. Len(s) \in Nat \ {0} /\ DOMAIN s = 1 .. Len(s)
    BY <2>1, EmptySeq, LenProperties
  <2>3. t \in Seq(S) /\ Len(t) = Len(s) - 1 /\ \A i \in 1 .. Len(t) : t[i] = s[i + 1]
    BY <2>1, HeadTailProperties
  <2>4. DOMAIN t = 1 .. Len(t)
    BY <2>3, LenProperties
  <2>5. Head(s) = s[1]
    BY <2>1
  <2> QED
    BY <2>1, <2>2, <2>3, <2>4, <2>5
<1>2. q2.qs[p] = t /\ \A h \in Pri : h # p => q2.qs[h] = q.qs[h]
  BY DEF Pop, Bounded
<1> HIDE DEF q2, t
<1>3. head \in Cells(q, T) <=> Head(s) \in T
  BY <1>1, CellsIn
<1> DEFINE A == Cells(q, T) \ {head}
           B == Cells(q2, T)
           f == [c \in A |-> IF c[1] = p THEN <<p, c[2] - 1>> ELSE c]
<1>4. ASSUME NEW c
      PROVE  c \in A <=> \/ \E h \in Pri \ {p} : \E i \in DOMAIN q.qs[h] :
                              q.qs[h][i] \in T /\ c = <<h, i>>
                         \/ \E i \in 1 .. Len(s) - 1 : t[i] \in T /\ c = <<p, i + 1>>
  <2>1. c \in Cells(q, T) <=> \/ \E h \in Pri \ {p} : \E i \in DOMAIN q.qs[h] :
                                   q.qs[h][i] \in T /\ c = <<h, i>>
                              \/ \E i \in 1 .. Len(s) : s[i] \in T /\ c = <<p, i>>
    BY <1>1, CellsIn
  <2>2. (\E i \in 1 .. Len(s) : s[i] \in T /\ c = <<p, i>> /\ c # head)
          <=> \E i \in 1 .. Len(s) - 1 : t[i] \in T /\ c = <<p, i + 1>>
    <3>1. ASSUME NEW i \in 1 .. Len(s), s[i] \in T, c = <<p, i>>, c # head
          PROVE  \E j \in 1 .. Len(s) - 1 : t[j] \in T /\ c = <<p, j + 1>>
      <4>1. i - 1 \in 1 .. Len(s) - 1 /\ (i - 1) + 1 = i
        BY <1>1, <3>1
      <4> QED
        BY <1>1, <3>1, <4>1
    <3>2. ASSUME NEW i \in 1 .. Len(s) - 1, t[i] \in T, c = <<p, i + 1>>
          PROVE  \E j \in 1 .. Len(s) : s[j] \in T /\ c = <<p, j>> /\ c # head
      <4>1. i + 1 \in 1 .. Len(s) /\ i + 1 # 1
        BY <1>1, <3>2
      <4> QED
        BY <1>1, <3>2, <4>1
    <3> QED
      BY <3>1, <3>2
  <2>3. \A h \in Pri \ {p} : \A i : <<h, i>> # head
    OBVIOUS
  <2> QED
    BY <2>1, <2>2, <2>3
<1>5. ASSUME NEW c
      PROVE  c \in B <=> \/ \E h \in Pri \ {p} : \E i \in DOMAIN q.qs[h] :
                              q.qs[h][i] \in T /\ c = <<h, i>>
                         \/ \E i \in 1 .. Len(s) - 1 : t[i] \in T /\ c = <<p, i>>
  BY <1>1, <1>2, CellsIn
<1> HIDE DEF A, B
<1>6. f \in [A -> B]
  <2>1. ASSUME NEW c \in A PROVE f[c] \in B
    <3>1. ASSUME NEW h \in Pri \ {p}, NEW i \in DOMAIN q.qs[h], q.qs[h][i] \in T, c = <<h, i>>
          PROVE  f[c] \in B
      BY <1>5, <3>1
    <3>2. ASSUME NEW i \in 1 .. Len(s) - 1, t[i] \in T, c = <<p, i + 1>>
          PROVE  f[c] \in B
      <4>1. f[c] = <<p, i>>
        BY <1>1, <3>2
      <4> QED
        BY <1>5, <3>2, <4>1
    <3> QED
      BY <1>4, <3>1, <3>2
  <2> QED
    BY <2>1
<1>7. ASSUME NEW b \in B PROVE \E c \in A : f[c] = b
  <2>1. ASSUME NEW h \in Pri \ {p}, NEW i \in DOMAIN q.qs[h], q.qs[h][i] \in T, b = <<h, i>>
        PROVE  b \in A /\ f[b] = b
    BY <1>4, <2>1
  <2>2. ASSUME NEW i \in 1 .. Len(s) - 1, t[i] \in T, b = <<p, i>>
        PROVE  \E c \in A : f[c] = b
    <3>1. <<p, i + 1>> \in A
      BY <1>4, <2>2
    <3>2. f[<<p, i + 1>>] = b
      BY <1>1, <2>2, <3>1
    <3> QED
      BY <3>1, <3>2
  <2> QED
    BY <1>5, <2>1, <2>2
<1>8. ASSUME NEW c \in A, NEW d \in A, f[c] = f[d] PROVE c = d
  <2>1. \E h, i : c = <<h, i>> /\ (h = p => i \in Int)
    BY <1>1, <1>4
  <2>2. \E h, i : d = <<h, i>> /\ (h = p => i \in Int)
    BY <1>1, <1>4
  <2> QED
    BY <1>8, <2>1, <2>2
<1>9. f \in Bijection(A, B)
  BY <1>6, <1>7, <1>8, Fun_IsBij
<1> QED
  BY <1>3, <1>9 DEF ExistsBijection, A, B, q2

\* What a push and a pop do to the number of cells that hold a member of T.
LEMMA PushCount ==
  ASSUME NEW S, NEW q, Bounded(q, S), NEW x \in S, NEW p \in Pri, NEW T,
         IsFiniteSet(Cells(q, T))
  PROVE  /\ IsFiniteSet(Cells(Push(q, x, p), T))
         /\ Cardinality(Cells(Push(q, x, p), T))
              = Cardinality(Cells(q, T)) + (IF x \in T THEN 1 ELSE 0)
         /\ Cardinality(Cells(q, T)) \in Nat
<1> DEFINE new == <<p, Len(q.qs[p]) + 1>>
<1>1. /\ new \notin Cells(q, T)
      /\ Cells(Push(q, x, p), T) = Cells(q, T) \cup (IF x \in T THEN {new} ELSE {})
  BY PushCells
<1> HIDE DEF new
<1>2. Cardinality(Cells(q, T)) \in Nat
  BY FS_CardinalityType
<1>3. CASE x \in T
  <2>1. Cells(Push(q, x, p), T) = Cells(q, T) \cup {new}
    BY <1>1, <1>3
  <2> QED
    BY <1>1, <1>2, <1>3, <2>1, FS_AddElement
<1>4. CASE x \notin T
  <2>1. Cells(Push(q, x, p), T) = Cells(q, T)
    BY <1>1, <1>4
  <2> QED
    BY <1>2, <1>4, <2>1
<1> QED
  BY <1>3, <1>4

\* reqq_shift: one cell less, if the head is in T.
LEMMA PopCount ==
  ASSUME NEW S, NEW q, Bounded(q, S), NEW p \in Pri, q.qs[p] # <<>>, NEW T,
         IsFiniteSet(Cells(q, T))
  PROVE  /\ IsFiniteSet(Cells(Pop(q, p), T))
         /\ Cardinality(Cells(Pop(q, p), T))
              = Cardinality(Cells(q, T)) - (IF Head(q.qs[p]) \in T THEN 1 ELSE 0)
         /\ Cardinality(Cells(q, T)) \in Nat
         /\ Cardinality(Cells(Pop(q, p), T)) \in Nat
<1> DEFINE head == <<p, 1>>
           A == Cells(q, T) \ {head}
           B == Cells(Pop(q, p), T)
<1>1. (head \in Cells(q, T) <=> Head(q.qs[p]) \in T) /\ ExistsBijection(A, B)
  BY PopCells
<1> HIDE DEF head
<1>2. IsFiniteSet(A) /\ Cardinality(Cells(q, T)) \in Nat
  BY FS_Subset, FS_CardinalityType
<1>6. head \in Cells(q, T) => Cardinality(A) = Cardinality(Cells(q, T)) - 1
  BY FS_RemoveElement
<1>7. head \notin Cells(q, T) => A = Cells(q, T)
  OBVIOUS
<1> HIDE DEF A, B
<1>4. IsFiniteSet(B) /\ Cardinality(B) = Cardinality(A)
  BY <1>1, <1>2, FS_Bijection
<1>5. Cardinality(B) \in Nat
  BY <1>4, FS_CardinalityType
<1> QED
  BY <1>1, <1>2, <1>4, <1>5, <1>6, <1>7 DEF B

\* The hands of the workers.
Hands(r) == {w \in Workers : cur[w] = r}

\* Finitely many workers hold a request.
LEMMA HandsFinite == ASSUME NEW r PROVE IsFiniteSet(Hands(r)) /\ Cardinality(Hands(r)) \in Nat
<1>1. IsFiniteSet(Hands(r))
  BY PoolAssumption, FS_Subset DEF Hands
<1> QED
  BY <1>1, FS_CardinalityType

\* A worker takes up what it had not, or lets go of what it had.
LEMMA HandsChange ==
  ASSUME WorkersOK, NEW w \in Workers, NEW x, cur' = [cur EXCEPT ![w] = x], x # cur[w],
         NEW r
  PROVE  /\ IsFiniteSet(Hands(r)')
         /\ Cardinality(Hands(r)') = Cardinality(Hands(r)) + (IF r = x THEN 1 ELSE 0)
                                        - (IF r = cur[w] THEN 1 ELSE 0)
<1>0. IsFiniteSet(Hands(r)) /\ Cardinality(Hands(r)) \in Nat
  BY HandsFinite
<1>1. CASE r = x
  <2>1. w \notin Hands(r) /\ Hands(r)' = Hands(r) \cup {w}
    BY <1>1 DEF Hands, WorkersOK
  <2> QED
    BY <1>0, <1>1, <2>1, FS_AddElement
<1>2. CASE r = cur[w]
  <2>1. w \in Hands(r) /\ Hands(r)' = Hands(r) \ {w}
    BY <1>2 DEF Hands, WorkersOK
  <2> QED
    BY <1>0, <1>2, <2>1, FS_RemoveElement
<1>3. CASE r # x /\ r # cur[w]
  <2>1. Hands(r)' = Hands(r)
    BY <1>3 DEF Hands, WorkersOK
  <2> QED
    BY <1>0, <1>3, <2>1
<1> QED
  BY <1>1, <1>2, <1>3

-----------------------------------------------------------------------------
(* The kinds of steps.                                                     *)

Busy == {"handle", "unlink", "destroy"}
Holding == {"exec", "post"}

\* A step that leaves the queues, the hands and the tree of requests alone,
\* and stays outside eio_finish.
Quiet ==
  /\ UNCHANGED <<reqq, resq, npending, nreqs, cur, ctx, chain, life, pri, grp, kids,
                 gsize, delayed, result, called>>
  /\ mpc' = mpc \/ (mpc \notin Busy /\ mpc' \notin Busy)
  /\ \A w \in Workers : wpc'[w] = wpc[w] \/ (wpc[w] \notin Holding /\ wpc'[w] \notin Holding)
  /\ \A r \in Reqs : cancelled[r] => cancelled'[r]

Noisy ==
  \/ \E w \in Workers : Take(w) \/ Execute(w) \/ Post(w)
  \/ \E r \in Plain : Submit(r)
  \/ \E g \in Groups : SubmitGroup(g)
  \/ \E g \in Groups, r \in Reqs : GrpAdd(g, r)
  \/ EndPush \/ CbReturn
  \/ PollShift \/ PollHandle \/ UnlinkMember \/ UnlinkNone \/ PollNext

\* Every step is quiet, or one of those that move requests.
LEMMA StepKinds == ASSUME TypeOK, [Next]_vars PROVE Quiet \/ Noisy
<1> USE DEF poolVars, confVars, workVars, mainVars, reqVars, Holding, Busy
<1>1. ASSUME NEW w \in Workers, Worker(w) \/ Clock(w) PROVE Quiet \/ Noisy
  <2>1. CASE Take(w) \/ Execute(w) \/ Post(w)
    BY <2>1 DEF Noisy
  <2>2. CASE GiveUp(w)
    BY <2>2 DEF GiveUp, Acquire, Quiet, TypeOK, WorkersOK
  <2>3. CASE Wait(w)
    BY <2>3 DEF Wait, Quiet, TypeOK, WorkersOK
  <2>4. CASE Retire(w) \/ Free(w)
    BY <2>4 DEF Retire, Free, Quiet, TypeOK, WorkersOK
  <2>5. CASE Timeout(w) \/ Spurious(w)
    BY <2>5 DEF Timeout, Spurious, Waiting, Quiet, TypeOK, WorkersOK
  <2> QED
    BY <1>1, <2>1, <2>2, <2>3, <2>4, <2>5 DEF Worker, Clock
<1>2. CASE User
  <2>1. ASSUME NEW S, CancelSet(S) PROVE Quiet
    BY <2>1 DEF CancelSet, Quiet
  <2>2. ASSUME NEW n, SetMinParallel(n) \/ SetMaxIdle(n) \/ SetMaxPollReqs(n) PROVE Quiet
    BY <2>2 DEF SetMinParallel, SetMaxIdle, SetMaxPollReqs, Quiet
  <2>3. ASSUME NEW n, SetMaxParallel(n) PROVE Quiet
    BY <2>3 DEF SetMaxParallel, InUser, Quiet
  <2> QED
    BY <1>2, <2>1, <2>2, <2>3 DEF User, Cancel, GrpCancel, Noisy
<1>3. CASE Inside
  <2>1. CASE MaybeStartEnough \/ MaybeStartDecide
    BY <2>1 DEF MaybeStartEnough, MaybeStartDecide, Quiet, TypeOK, MainOK
  <2>2. CASE MaybeStartRead \/ StartFails
    BY <2>2 DEF MaybeStartRead, StartFails, Quiet, TypeOK, MainOK
  <2>3. CASE StartThread
    BY <2>3 DEF StartThread, Quiet, TypeOK, MainOK, WorkersOK
  <2>4. CASE EndCheck \/ EndDec
    BY <2>4 DEF EndCheck, EndDec, Quiet
  <2>5. CASE PollEmpty
    BY <2>5 DEF PollEmpty, PollReturn, Quiet, TypeOK, MainOK
  <2> QED
    BY <1>3, <2>1, <2>2, <2>3, <2>4, <2>5 DEF Inside, Noisy
<1>4. CASE PollBegin
  BY <1>4 DEF PollBegin, InUser, MaybeStart, Quiet
<1>5. CASE UNCHANGED vars
  BY <1>5 DEF vars, Quiet
<1> QED
  BY <1>1, <1>2, <1>3, <1>4, <1>5 DEF Next, Noisy

-----------------------------------------------------------------------------
(* What holds of the places of requests in every state.                    *)

\* The size of a queue is the number of its cells.
QueueSizes ==
  /\ IsFiniteSet(Cells(reqq, Items)) /\ reqq.size = Cardinality(Cells(reqq, Items))
  /\ IsFiniteSet(Cells(resq, Reqs)) /\ resq.size = Cardinality(Cells(resq, Reqs))
  /\ npending = resq.size % W

\* Only a worker between taking and posting holds a request.
EmptyHands == \A w \in Workers : wpc[w] \notin Holding => cur[w] = None

\* A request eio_finish is past unlinking.
Gone(r) == \E i \in 1 .. Len(chain) : chain[i] = r /\ (i < Len(chain) \/ mpc = "destroy")

\* The frames of eio_finish: each request once, groups only without members.
ChainOK ==
  /\ chain # <<>> <=> (mpc \in Busy \/ ctx = "cb")
  /\ mpc = "handle" => Len(chain) = 1 /\ (chain[1] \in Groups => ~delayed[chain[1]])
  /\ \A i, j \in 1 .. Len(chain) : chain[i] = chain[j] => i = j
  /\ mpc # "handle" => \A g \in Groups : Finishing(g) => kids[g] = {}

\* The list of a group holds the requests added to it that are not destroyed
\* or about to be; a group put off has a member left.
KidsOK == \A g \in Groups, r \in Reqs :
            r \in kids[g] <=> grp[r] = g /\ life[r] = "live" /\ ~Gone(r)
SizeOK == \A g \in Groups : /\ kids[g] # {} => life[g] = "live"
                            /\ IsFiniteSet(kids[g]) /\ gsize[g] = Cardinality(kids[g])
DelayOK == \A g \in Groups :
             delayed[g] => /\ life[g] # "new"
                           /\ life[g] = "live" /\ ~Finishing(g) => kids[g] # {}
TreeOK == KidsOK /\ SizeOK /\ DelayOK /\ \A r \in Reqs : life[r] = "new" => grp[r] = None

PlaceInv == TypeOK /\ QueueSizes /\ EmptyHands /\ ChainOK /\ TreeOK /\ OnePlace

-----------------------------------------------------------------------------
\* The sizes follow every push and every shift.
LEMMA SizesStep == ASSUME TypeOK, QueueSizes, [Next]_vars PROVE QueueSizes'
<1>a. Bounded(reqq, Items) /\ Bounded(resq, Reqs)
  BY DEF TypeOK, QueuesOK
<1>b. ASSUME UNCHANGED <<reqq, resq, npending>> PROVE QueueSizes'
  BY <1>b DEF QueueSizes, Cells
<1>c. ASSUME NEW x \in Reqs, NEW p \in Pri, PushResult(x, p), reqq' = reqq
      PROVE  QueueSizes'
  <2>1. /\ IsFiniteSet(Cells(resq', Reqs))
        /\ Cardinality(Cells(resq', Reqs)) = Cardinality(Cells(resq, Reqs)) + 1
        /\ Cardinality(Cells(resq, Reqs)) \in Nat
    BY <1>a, <1>c, PushCount DEF PushResult, QueueSizes
  <2>2. resq'.size = resq.size + 1 /\ npending' = Inc(npending)
    BY <1>c DEF PushResult, Push
  <2>3. npending' = resq'.size % W
    BY <2>1, <2>2, IncIsMod DEF QueueSizes
  <2> QED
    BY <1>c, <2>1, <2>2, <2>3 DEF QueueSizes
<1>d. ASSUME NEW x \in Items, NEW p \in Pri, reqq' = Push(reqq, x, p),
             UNCHANGED <<resq, npending>>
      PROVE  QueueSizes'
  <2>1. /\ IsFiniteSet(Cells(reqq', Items))
        /\ Cardinality(Cells(reqq', Items)) = Cardinality(Cells(reqq, Items)) + 1
    BY <1>a, <1>d, PushCount DEF QueueSizes
  <2>2. reqq'.size = reqq.size + 1
    BY <1>d DEF Push
  <2> QED
    BY <1>d, <2>1, <2>2 DEF QueueSizes
<1>1. CASE Quiet
  BY <1>b, <1>1 DEF Quiet
<1>2. ASSUME NEW w \in Workers, Take(w) PROVE QueueSizes'
  <2>1. PICK p \in Pri : IsTop(reqq, p) /\ reqq' = Pop(reqq, p)
    BY <1>2 DEF Take
  <2>2. reqq.size # 0 /\ UNCHANGED <<resq, npending>>
    BY <1>2 DEF Take, Takes
  <2>3. Head(reqq.qs[p]) \in Items /\ reqq.qs[p] # <<>>
    BY <1>a, <2>1, <2>2, PopType DEF IsTop
  <2>4. /\ IsFiniteSet(Cells(reqq', Items))
        /\ Cardinality(Cells(reqq', Items)) = Cardinality(Cells(reqq, Items)) - 1
    BY <1>a, <2>1, <2>3, PopCount DEF QueueSizes
  <2>5. reqq'.size = reqq.size - 1
    BY <2>1 DEF Pop
  <2> QED
    BY <2>2, <2>4, <2>5 DEF QueueSizes
<1>3. ASSUME NEW w \in Workers, Execute(w) \/ Post(w) PROVE QueueSizes'
  <2>1. cur[w] \in Reqs /\ (Post(w) => pri[cur[w]] \in Pri)
    BY <1>3 DEF Execute, Post, TypeOK, WorkersOK, RequestsOK, Reqs
  <2>2. CASE Execute(w)
    BY <1>b, <2>2 DEF Execute, poolVars
  <2>3. CASE Post(w)
    BY <1>c, <2>1, <2>3 DEF Post
  <2> QED
    BY <1>3, <2>2, <2>3
<1>4. ASSUME NEW r \in Plain, Submit(r) PROVE QueueSizes'
  <2>1. PICK p \in RawPri : reqq' = Push(reqq, r, Clamp(p))
    BY <1>4 DEF Submit
  <2>2. Clamp(p) \in Pri /\ r \in Items
    BY ClampRange, PoolAssumption DEF Items
  <2> QED
    BY <1>4, <1>d, <2>1, <2>2 DEF Submit
<1>5. ASSUME NEW g \in Groups, SubmitGroup(g) PROVE QueueSizes'
  BY <1>5, <1>c, TopPriIsPri DEF SubmitGroup, Reqs
<1>6. CASE EndPush
  BY <1>6, <1>d, TopPriIsPri DEF EndPush, Items
<1>7. CASE PollShift
  <2>1. PICK p \in Pri : IsTop(resq, p) /\ resq' = Pop(resq, p)
    BY <1>7 DEF PollShift
  <2>2. resq.size # 0 /\ npending' = Dec(npending) /\ UNCHANGED reqq
    BY <1>7 DEF PollShift
  <2>3. Head(resq.qs[p]) \in Reqs /\ resq.qs[p] # <<>>
    BY <1>a, <2>1, <2>2, PopType DEF IsTop
  <2>4. /\ IsFiniteSet(Cells(resq', Reqs))
        /\ Cardinality(Cells(resq', Reqs)) = Cardinality(Cells(resq, Reqs)) - 1
        /\ Cardinality(Cells(resq, Reqs)) \in Nat
    BY <1>a, <2>1, <2>3, PopCount DEF QueueSizes
  <2>5. resq'.size = resq.size - 1
    BY <2>1 DEF Pop
  <2>6. npending' = resq'.size % W
    BY <2>2, <2>4, <2>5, DecIsMod DEF QueueSizes
  <2> QED
    BY <2>2, <2>4, <2>5, <2>6 DEF QueueSizes
<1>8. CASE CbReturn \/ PollHandle \/ UnlinkMember \/ UnlinkNone \/ PollNext
  BY <1>8, <1>b DEF CbReturn, PollHandle, UnlinkMember, UnlinkNone, PollNext, poolVars
<1>9. ASSUME NEW g \in Groups, NEW r \in Reqs, GrpAdd(g, r) PROVE QueueSizes'
  BY <1>9, <1>b DEF GrpAdd, poolVars
<1> QED
  BY StepKinds, <1>1, <1>2, <1>3, <1>4, <1>5, <1>6, <1>7, <1>8, <1>9 DEF Noisy

\* A worker lets go of its request when it posts it.
LEMMA HandsStep == ASSUME TypeOK, EmptyHands, [Next]_vars PROVE EmptyHands'
<1>a. ASSUME UNCHANGED cur,
             \A w \in Workers : wpc'[w] = wpc[w] \/ (wpc[w] \notin Holding /\ wpc'[w] \notin Holding)
      PROVE  EmptyHands'
  BY <1>a DEF EmptyHands
<1>1. CASE Quiet
  BY <1>a, <1>1 DEF Quiet
<1>2. ASSUME NEW w \in Workers, Take(w) PROVE EmptyHands'
  BY <1>2 DEF Take, EmptyHands, Holding, TypeOK, WorkersOK
<1>3. ASSUME NEW w \in Workers, Execute(w) \/ Post(w) PROVE EmptyHands'
  BY <1>3 DEF Execute, Post, EmptyHands, Holding, TypeOK, WorkersOK
<1>4. ASSUME Signal, UNCHANGED cur PROVE EmptyHands'
  BY <1>a, <1>4 DEF Signal, Waiting, Holding, TypeOK, WorkersOK
<1>5. ASSUME NEW r \in Plain, Submit(r) PROVE EmptyHands'
  BY <1>4, <1>5 DEF Submit
<1>6. CASE EndPush
  BY <1>4, <1>6 DEF EndPush
<1>7. ASSUME UNCHANGED workVars PROVE EmptyHands'
  BY <1>a, <1>7 DEF workVars
<1>8. ASSUME NEW g \in Groups, SubmitGroup(g) \/ \E r \in Reqs : GrpAdd(g, r) PROVE EmptyHands'
  BY <1>7, <1>8 DEF GrpAdd, SubmitGroup
<1>9. CASE PollShift \/ CbReturn \/ PollHandle \/ UnlinkMember \/ UnlinkNone \/ PollNext
  BY <1>7, <1>9 DEF PollShift, CbReturn, PollHandle, UnlinkMember, UnlinkNone, PollNext
<1> QED
  BY StepKinds, <1>1, <1>2, <1>3, <1>5, <1>6, <1>8, <1>9 DEF Noisy

\* A quiet step keeps the frames and the tree.
LEMMA QuietStructure == ASSUME ChainOK, TreeOK, Quiet PROVE ChainOK' /\ TreeOK'
<1>1. /\ mpc' \in Busy <=> mpc \in Busy
      /\ mpc' = "handle" <=> mpc = "handle"
      /\ mpc' = "destroy" <=> mpc = "destroy"
  BY DEF Quiet, Busy
<1>2. ASSUME NEW r PROVE Finishing(r)' <=> Finishing(r)
  BY DEF Quiet, Finishing
<1>3. ASSUME NEW r PROVE Gone(r)' <=> Gone(r)
  BY <1>1 DEF Quiet, Gone
<1>4. ChainOK'
  BY <1>1, <1>2 DEF ChainOK, Quiet
<1>5. TreeOK'
  BY <1>2, <1>3 DEF TreeOK, KidsOK, SizeOK, DelayOK, Quiet
<1> QED
  BY <1>4, <1>5

\* A step that keeps the frames of eio_finish.
LEMMA SameChain ==
  ASSUME UNCHANGED chain
  PROVE  /\ \A r : Finishing(r)' <=> Finishing(r)
         /\ ((mpc = "destroy") <=> (mpc' = "destroy")) => \A r : Gone(r)' <=> Gone(r)
BY DEF Finishing, Gone

\* A request has finitely many places.
LEMMA WhereFinite ==
  ASSUME TypeOK, QueueSizes, NEW r
  PROVE  /\ IsFiniteSet(Where(resq, r)) /\ Cardinality(Where(resq, r)) \in Nat
         /\ IsFiniteSet(Where(reqq, r)) /\ Cardinality(Where(reqq, r)) \in Nat
         /\ Cardinality(Hands(r)) \in Nat
<1>1. Where(resq, r) \subseteq Cells(resq, Reqs) /\ Where(reqq, r) \subseteq Cells(reqq, Items)
  <2>1. reqq.qs \in [Pri -> Seq(Items)] /\ resq.qs \in [Pri -> Seq(Reqs)]
    BY DEF TypeOK, QueuesOK, Bounded
  <2>2. \A p \in Pri : \A i \in DOMAIN reqq.qs[p] : reqq.qs[p][i] \in Items
    BY <2>1
  <2>3. \A p \in Pri : \A i \in DOMAIN resq.qs[p] : resq.qs[p][i] \in Reqs
    BY <2>1
  <2> QED
    BY <2>2, <2>3 DEF Cells, Where
<1>2. IsFiniteSet(Where(resq, r)) /\ IsFiniteSet(Where(reqq, r))
  BY <1>1, FS_Subset DEF QueueSizes
<1> QED
  BY <1>2, FS_CardinalityType, HandsFinite

\* OnePlace, with names for what it adds up.
Framed(r) == Finishing(r) \/ (life[r] = "live" /\ PutAside(r))

\* The sum of OnePlace, with these names.
LEMMA PlaceSum ==
  OnePlace <=> \A r \in Reqs :
                 Cardinality(Where(reqq, r)) + Cardinality(Where(resq, r))
                   + Cardinality(Hands(r)) + (IF Framed(r) THEN 1 ELSE 0)
                 = IF life[r] = "live" THEN 1 ELSE 0
BY DEF OnePlace, Hands, Framed

\* What is on top of res_queue is live and in no other place.
LEMMA ResultPlace ==
  ASSUME TypeOK, QueueSizes, OnePlace, NEW p \in Pri, resq.qs[p] # <<>>
  PROVE  LET r == Head(resq.qs[p])
         IN  r \in Reqs /\ life[r] = "live" /\ ~Finishing(r) /\ ~PutAside(r)
<1> DEFINE r == Head(resq.qs[p])
<1>1. resq.qs[p] \in Seq(Reqs)
  BY DEF TypeOK, QueuesOK, Bounded
<1>2. r \in Reqs /\ r = resq.qs[p][1] /\ 1 \in DOMAIN resq.qs[p]
  BY <1>1, HeadTailProperties, EmptySeq, LenProperties
<1>3. <<p, 1>> \in Where(resq, r)
  BY <1>2 DEF Where
<1> HIDE DEF r
<1>4. Cardinality(Where(resq, r)) # 0
  BY <1>3, WhereFinite, FS_EmptySet
<1> QED
  BY <1>2, <1>4, WhereFinite, PlaceSum DEF Framed, r

\* What is in the frames of eio_finish is live, and in no other place.
LEMMA FinishingLive ==
  ASSUME TypeOK, QueueSizes, OnePlace, NEW r \in Reqs, Finishing(r)
  PROVE  life[r] = "live"
BY WhereFinite, PlaceSum DEF Framed

\* The first and the last of n positions, and the next one.
LEMMA Positions ==
  ASSUME NEW n \in Nat \ {0}
  PROVE  /\ 1 \in 1 .. n /\ n \in 1 .. n /\ ~(n < n) /\ n + 1 \in 1 .. n + 1 /\ n + 1 \notin 1 .. n
         /\ \A i \in 1 .. n : (i < n \/ i = n) /\ i < n + 1 /\ i \in 1 .. n + 1
         /\ \A i \in 1 .. n + 1 : i \in 1 .. n \/ i = n + 1
OBVIOUS

\* The request whose eio_finish is being carried out is the last frame.
LEMMA TopFrame ==
  ASSUME TypeOK, chain # <<>>
  PROVE  /\ Len(chain) \in Nat \ {0} /\ DOMAIN chain = 1 .. Len(chain)
         /\ chain[Len(chain)] \in Reqs /\ Finishing(chain[Len(chain)])
         /\ chain[1] \in Reqs /\ Finishing(chain[1])
<1> DEFINE n == Len(chain)
<1>1. chain \in Seq(Reqs)
  BY DEF TypeOK, MainOK
<1>2. n \in Nat \ {0} /\ DOMAIN chain = 1 .. n
  BY <1>1, EmptySeq, LenProperties
<1>3. \A i \in 1 .. n : chain[i] \in Reqs
  BY <1>1
<1>4. \A i \in 1 .. n : Finishing(chain[i])
  BY DEF Finishing
<1> HIDE DEF n
<1> QED
  BY <1>2, <1>3, <1>4, Positions DEF n

\* A group whose turn has come gets a frame on top.
LEMMA PushFrame ==
  ASSUME TypeOK, chain # <<>>, NEW g \in Reqs, chain' = Append(chain, g)
  PROVE  /\ Len(chain') = Len(chain) + 1 /\ chain' # <<>>
         /\ \A i \in 1 .. Len(chain) : chain'[i] = chain[i]
         /\ chain'[Len(chain) + 1] = g
<1>1. chain \in Seq(Reqs)
  BY DEF TypeOK, MainOK
<1> QED
  BY <1>1, AppendProperties

\* The group with a new frame is finishing, and no other is.
LEMMA AppendFinishing ==
  ASSUME TypeOK, chain # <<>>, NEW g \in Reqs, chain' = Append(chain, g)
  PROVE  \A r : Finishing(r)' <=> Finishing(r) \/ r = g
<1> DEFINE n == Len(chain)
<1>1. /\ \A r : Finishing(r) <=> \E i \in 1 .. n : chain[i] = r
      /\ \A r : Finishing(r)' <=> \E i \in 1 .. n + 1 : chain'[i] = r
      /\ \A i \in 1 .. n : chain'[i] = chain[i]
      /\ chain'[n + 1] = g
      /\ n \in Nat \ {0}
  BY PushFrame, TopFrame DEF Finishing
<1> HIDE DEF n
<1>2. /\ n + 1 \in 1 .. n + 1
      /\ \A i \in 1 .. n : i \in 1 .. n + 1
      /\ \A i \in 1 .. n + 1 : i \in 1 .. n \/ i = n + 1
  BY <1>1, Positions
<1> QED
  BY <1>1, <1>2

\* The frames of eio_finish and the lists of the groups keep their shape.
LEMMA StructureStep ==
  ASSUME TypeOK, QueueSizes, ChainOK, TreeOK, OnePlace, [Next]_vars
  PROVE  ChainOK' /\ TreeOK'
<1>a. ASSUME UNCHANGED <<mpc, ctx, chain, life, grp, kids, gsize, delayed>>
      PROVE  ChainOK' /\ TreeOK'
  <2>1. /\ \A r : Finishing(r)' <=> Finishing(r)
        /\ \A r : Gone(r)' <=> Gone(r)
    BY <1>a, SameChain
  <2>2. ChainOK'
    BY <1>a, <2>1 DEF ChainOK
  <2>3. TreeOK'
    BY <1>a, <2>1 DEF TreeOK, KidsOK, SizeOK, DelayOK
  <2> QED
    BY <2>2, <2>3
<1>1. CASE Quiet
  BY <1>1, QuietStructure
<1>2. ASSUME NEW w \in Workers, Take(w) \/ Execute(w) \/ Post(w) PROVE ChainOK' /\ TreeOK'
  BY <1>2, <1>a DEF Take, Execute, Post, mainVars, reqVars
\* A request that was not allocated is not in a group, nor in the frames.
<1>3. ASSUME NEW r \in Reqs, life[r] = "new", life' = [life EXCEPT ![r] = "live"],
             UNCHANGED <<ctx, chain, grp, kids, gsize, delayed>>,
             mpc = "user", mpc' \notin Busy
      PROVE  ChainOK' /\ TreeOK'
  <2>1. /\ \A x : Finishing(x)' <=> Finishing(x)
        /\ \A x : Gone(x)' <=> Gone(x)
    BY <1>3, SameChain DEF Busy
  <2>2. ChainOK'
    BY <1>3, <2>1 DEF ChainOK, Busy
  <2>3. grp[r] = None /\ (r \in Groups => kids[r] = {} /\ ~delayed[r])
    BY <1>3 DEF TreeOK, KidsOK, SizeOK, DelayOK
  <2>4. life \in [Reqs -> {"new", "live", "freed"}]
    BY DEF TypeOK, RequestsOK
  <2>5. None \notin Groups
    BY PoolAssumption
  <2>6. KidsOK'
    BY <1>3, <2>1, <2>3, <2>4, <2>5 DEF TreeOK, KidsOK
  <2>7. SizeOK'
    BY <1>3, <2>1, <2>3, <2>4 DEF TreeOK, SizeOK, Reqs
  <2>8. DelayOK'
    BY <1>3, <2>1, <2>3, <2>4 DEF TreeOK, DelayOK, Reqs
  <2> QED
    BY <1>3, <2>2, <2>4, <2>6, <2>7, <2>8 DEF TreeOK
<1>4. ASSUME NEW r \in Plain, Submit(r) PROVE ChainOK' /\ TreeOK'
  BY <1>3, <1>4 DEF Submit, New, InUser, MaybeStart, Busy, Reqs
<1>5. ASSUME NEW g \in Groups, SubmitGroup(g) PROVE ChainOK' /\ TreeOK'
  BY <1>3, <1>5 DEF SubmitGroup, New, InUser, mainVars, Busy, Reqs
<1>6. ASSUME NEW g \in Groups, NEW r \in Reqs, GrpAdd(g, r) PROVE ChainOK' /\ TreeOK'
  <2>1. /\ UNCHANGED <<mpc, ctx, chain, life, delayed>> /\ mpc = "user"
        /\ life[g] = "live" /\ life[r] = "live" /\ grp[r] = None
        /\ ~Finishing(g) /\ ~Finishing(r)
        /\ grp' = [grp EXCEPT ![r] = g]
        /\ kids' = [kids EXCEPT ![g] = @ \cup {r}]
        /\ gsize' = [gsize EXCEPT ![g] = @ + 1]
    BY <1>6 DEF GrpAdd, InUser, mainVars
  <2>2. /\ \A x : Finishing(x)' <=> Finishing(x)
        /\ \A x : Gone(x)' <=> Gone(x)
    BY <2>1, SameChain
  <2>3. /\ grp \in [Reqs -> Groups \cup {None}] /\ kids \in [Groups -> SUBSET Reqs]
        /\ gsize \in [Groups -> Int]
    BY DEF TypeOK, RequestsOK
  <2>4. ~Gone(r) /\ None \notin Groups /\ r \notin kids[g]
    BY <2>1, PoolAssumption DEF Gone, Finishing, TreeOK, KidsOK
  <2>5. ChainOK'
    BY <2>1, <2>2, <2>3 DEF ChainOK
  <2>6. KidsOK'
    BY <2>1, <2>2, <2>3, <2>4 DEF TreeOK, KidsOK
  <2>7. SizeOK'
    <3>1. IsFiniteSet(kids[g]) /\ gsize[g] = Cardinality(kids[g])
      BY DEF TreeOK, SizeOK
    <3>2. IsFiniteSet(kids[g] \cup {r}) /\ Cardinality(kids[g] \cup {r}) = Cardinality(kids[g]) + 1
      BY <2>4, <3>1, FS_AddElement
    <3> QED
      BY <2>1, <2>3, <3>1, <3>2 DEF TreeOK, SizeOK
  <2>8. DelayOK'
    BY <2>1, <2>2, <2>3 DEF TreeOK, DelayOK
  <2> QED
    BY <2>1, <2>3, <2>5, <2>6, <2>7, <2>8 DEF TreeOK
<1>7. ASSUME UNCHANGED <<chain, life, grp, kids, gsize, delayed>>,
             mpc # "destroy", mpc' # "destroy", mpc' # "handle",
             chain # <<>> <=> (mpc' \in Busy \/ ctx' = "cb"),
             mpc # "handle" \/ \A g \in Groups : Finishing(g) => kids[g] = {}
      PROVE  ChainOK' /\ TreeOK'
  <2>1. /\ \A x : Finishing(x)' <=> Finishing(x)
        /\ \A x : Gone(x)' <=> Gone(x)
    BY <1>7, SameChain
  <2>2. ChainOK'
    BY <1>7, <2>1 DEF ChainOK
  <2>3. TreeOK'
    BY <1>7, <2>1 DEF TreeOK, KidsOK, SizeOK, DelayOK
  <2> QED
    BY <2>2, <2>3
<1>8. CASE EndPush
  BY <1>7, <1>8 DEF EndPush, ChainOK, Busy, reqVars
<1>9. CASE CbReturn
  BY <1>7, <1>9 DEF CbReturn, InUser, ChainOK, Busy, reqVars
<1>10. CASE PollShift
  <2>1. PICK p \in Pri : IsTop(resq, p) /\ chain' = <<Head(resq.qs[p])>>
    BY <1>10 DEF PollShift
  <2> DEFINE r == Head(resq.qs[p])
  <2>2. r \in Reqs /\ life[r] = "live" /\ ~Finishing(r) /\ ~PutAside(r)
    BY <2>1, ResultPlace DEF IsTop
  <2> HIDE DEF r
  <2>3. chain = <<>> /\ mpc' = "handle" /\ ctx = "app" /\ UNCHANGED <<ctx, reqVars>>
    BY <1>10 DEF PollShift, ChainOK, Busy, TypeOK, MainOK
  <2>4. /\ Len(chain') = 1 /\ chain'[1] = r /\ chain' # <<>>
    BY <2>1 DEF r
  <2>5. /\ \A x : ~Gone(x) /\ ~Gone(x)' /\ ~Finishing(x)
        /\ \A x : Finishing(x)' <=> x = r
    BY <2>3, <2>4 DEF Gone, Finishing
  <2>6. ChainOK'
    BY <2>2, <2>3, <2>4, <2>5 DEF ChainOK, Busy, PutAside, reqVars
  <2>7. TreeOK'
    BY <2>3, <2>5 DEF TreeOK, KidsOK, SizeOK, DelayOK, reqVars
  <2> QED
    BY <2>6, <2>7
<1>11. CASE PollHandle
  <2> DEFINE r == chain[1]
  <2>1. Len(chain) = 1 /\ mpc = "handle" /\ ctx = "app" /\ UNCHANGED <<life, grp, kids, gsize>>
    BY <1>11 DEF PollHandle, ChainOK, TypeOK, MainOK
  <2>2. r \in Reqs /\ Finishing(r) /\ life[r] = "live"
    BY <2>1, <1>11, TopFrame, FinishingLive DEF ChainOK, Busy
  <2>3. \A x : Finishing(x) <=> x = r
    BY <2>1 DEF Finishing
  <2>4. \A x : ~Gone(x)
    BY <2>1 DEF Gone
  <2>5. CASE PutOff(r)
    <3>1. /\ delayed' = [delayed EXCEPT ![r] = TRUE] /\ chain' = <<>>
          /\ mpc' = "maybe" /\ UNCHANGED ctx
      BY <1>11, <2>5 DEF PollHandle, MaybeStart
    <3>2. \A x : ~Finishing(x)' /\ ~Gone(x)'
      BY <3>1 DEF Finishing, Gone
    <3>3. ChainOK'
      BY <2>1, <3>1, <3>2 DEF ChainOK, Busy
    <3>4. r \in Groups /\ kids[r] # {}
      BY <2>5, FS_EmptySet DEF PutOff, TreeOK, SizeOK
    <3>5. DelayOK'
      <4>1. delayed \in [Groups -> BOOLEAN]
        BY DEF TypeOK, RequestsOK
      <4> HIDE DEF r
      <4> QED
        BY <2>1, <2>2, <2>3, <3>1, <3>2, <3>4, <4>1 DEF TreeOK, DelayOK
    <3>6. TreeOK'
      BY <2>1, <2>4, <3>2, <3>5 DEF TreeOK, KidsOK, SizeOK
    <3> QED
      BY <3>3, <3>6
  <2>6. CASE ~PutOff(r)
    <3>1. BeginFinish(r) /\ UNCHANGED <<delayed, chain>>
      BY <1>11, <2>6 DEF PollHandle
    <3>2. mpc' = "unlink" \/ (mpc' = "user" /\ ctx' = "cb")
      BY <3>1 DEF BeginFinish
    <3>3. r \in Groups => kids[r] = {}
      BY <2>6, FS_EmptySet DEF PutOff, TreeOK, SizeOK
    <3> QED
      BY <1>7, <2>1, <2>3, <3>1, <3>2, <3>3 DEF ChainOK, Busy
  <2> QED
    BY <2>5, <2>6
<1>12. CASE UnlinkMember
  <2> DEFINE n == Len(chain)
             r == chain[n]
             g == grp[r]
  <2>1. /\ mpc = "unlink" /\ ctx = "app" /\ chain # <<>> /\ UNCHANGED <<life, grp, delayed>>
        /\ g # None
        /\ kids' = [kids EXCEPT ![g] = @ \ {r}]
        /\ gsize' = [gsize EXCEPT ![g] = @ - 1]
        /\ IF LastOfDelayed(g)
           THEN chain' = Append(chain, g) /\ BeginFinish(g)
           ELSE mpc' = "destroy" /\ UNCHANGED <<chain, ctx, called>>
    BY <1>12 DEF UnlinkMember, Unlinked, TypeOK, MainOK
  <2>2. /\ n \in Nat \ {0} /\ DOMAIN chain = 1 .. n
        /\ r \in Reqs /\ Finishing(r)
    BY <2>1, TopFrame
  <2>3. /\ grp \in [Reqs -> Groups \cup {None}] /\ kids \in [Groups -> SUBSET Reqs]
        /\ gsize \in [Groups -> Int] /\ chain \in Seq(Reqs)
    BY DEF TypeOK, RequestsOK, MainOK
  <2>4. life[r] = "live" /\ g \in Groups
    BY <2>1, <2>2, <2>3, FinishingLive
  <2>a. /\ \A x : Finishing(x) <=> \E i \in 1 .. n : chain[i] = x
        /\ \A x : Gone(x) <=> \E i \in 1 .. n : chain[i] = x /\ i < n
        /\ chain[n] = r
    BY <2>1 DEF Finishing, Gone
  <2>b. \A i, j \in 1 .. n : chain[i] = chain[j] => i = j
    BY DEF ChainOK
  <2>c. /\ \A x : Gone(x)' <=> \E i \in 1 .. n : chain[i] = x
        /\ \A x : Finishing(x)' <=> (\E i \in 1 .. n : chain[i] = x) \/ (LastOfDelayed(g) /\ x = g)
    <3>1. CASE LastOfDelayed(g)
      <4>1. chain' = Append(chain, g) /\ (mpc' = "unlink" \/ mpc' = "user") /\ g \in Reqs
        BY <2>1, <2>4, <3>1 DEF BeginFinish, Reqs
      <4>2. /\ Len(chain') = n + 1
            /\ \A i \in 1 .. n : chain'[i] = chain[i]
            /\ chain'[n + 1] = g
        BY <2>1, <4>1, PushFrame
      <4>3. /\ \A x : Gone(x)' <=> \E i \in 1 .. n + 1 : chain'[i] = x /\ i < n + 1
            /\ \A x : Finishing(x)' <=> \E i \in 1 .. n + 1 : chain'[i] = x
        BY <4>1, <4>2 DEF Gone, Finishing
      <4> HIDE DEF n, r, g
      <4>4. /\ ~(n + 1 < n + 1) /\ n + 1 \in 1 .. n + 1
            /\ \A i \in 1 .. n : i < n + 1 /\ i \in 1 .. n + 1
            /\ \A i \in 1 .. n + 1 : i \in 1 .. n \/ i = n + 1
        BY <2>2, Positions
      <4>5. \A x : Gone(x)' <=> \E i \in 1 .. n : chain[i] = x
        BY <4>2, <4>3, <4>4
      <4>6. \A x : Finishing(x)' <=> (\E i \in 1 .. n : chain[i] = x) \/ x = g
        BY <4>2, <4>3, <4>4
      <4> QED
        BY <3>1, <4>5, <4>6
    <3>2. CASE ~LastOfDelayed(g)
      <4>1. chain' = chain /\ mpc' = "destroy"
        BY <2>1, <3>2
      <4> QED
        BY <3>2, <4>1 DEF Gone, Finishing
    <3> QED
      BY <3>1, <3>2
  <2> HIDE DEF n
  <2>p. /\ n \in 1 .. n /\ ~(n < n) /\ n + 1 \in 1 .. n + 1
        /\ \A i \in 1 .. n : i < n \/ i = n
        /\ \A i \in 1 .. n + 1 : i \in 1 .. n \/ i = n + 1
    BY <2>2, Positions
  <2>5. ~Gone(r)
    BY <2>a, <2>b, <2>p
  <2>6. r \in kids[g]
    BY <2>2, <2>4, <2>5 DEF TreeOK, KidsOK
  <2>7. ~Finishing(g) /\ life[g] = "live"
    BY <2>1, <2>4, <2>6 DEF ChainOK, TreeOK, SizeOK
  <2>8. \A x : Gone(x)' <=> Gone(x) \/ x = r
    BY <2>a, <2>c, <2>p
  <2>9. \A x : Finishing(x)' <=> Finishing(x) \/ (LastOfDelayed(g) /\ x = g)
    BY <2>a, <2>c
  <2> HIDE DEF r, g
  <2>10. /\ IsFiniteSet(kids[g]) /\ gsize[g] = Cardinality(kids[g])
         /\ IsFiniteSet(kids[g] \ {r}) /\ gsize[g] - 1 = Cardinality(kids[g] \ {r})
         /\ gsize[g] \in Nat
    <3>1. IsFiniteSet(kids[g]) /\ gsize[g] = Cardinality(kids[g]) /\ gsize[g] \in Nat
      BY <2>4, FS_CardinalityType DEF TreeOK, SizeOK
    <3> QED
      BY <2>6, <3>1, FS_RemoveElement
  <2>11. LastOfDelayed(g) => kids'[g] = {}
    <3>1. kids'[g] = kids[g] \ {r}
      BY <2>1, <2>3, <2>4
    <3>2. LastOfDelayed(g) => Cardinality(kids'[g]) = 0
      BY <2>10, <3>1 DEF LastOfDelayed
    <3> QED
      BY <2>10, <3>1, <3>2, FS_EmptySet
  <2>12. delayed[g] /\ ~LastOfDelayed(g) => kids'[g] # {}
    <3>1. kids'[g] = kids[g] \ {r}
      BY <2>1, <2>3, <2>4
    <3>2. delayed[g] /\ ~LastOfDelayed(g) => Cardinality(kids'[g]) # 0
      BY <2>10, <3>1 DEF LastOfDelayed
    <3> QED
      BY <2>10, <3>1, <3>2, FS_EmptySet
  <2>13. ChainOK'
    <3>1. \A x \in Groups : Finishing(x)' => kids'[x] = {}
      BY <2>1, <2>3, <2>4, <2>7, <2>9, <2>11 DEF ChainOK
    <3>2. chain' # <<>> /\ \A i, j \in 1 .. Len(chain') : chain'[i] = chain'[j] => i = j
      <4>1. CASE LastOfDelayed(g)
        <5>1. chain' = Append(chain, g) /\ g \in Reqs
          BY <2>1, <2>4, <4>1 DEF Reqs
        <5>2. /\ Len(chain') = n + 1 /\ chain' # <<>>
              /\ \A i \in 1 .. n : chain'[i] = chain[i]
              /\ chain'[n + 1] = g
          BY <2>1, <5>1, PushFrame DEF n
        <5>3. \A i \in 1 .. n : chain[i] # g
          BY <2>7, <2>a
        <5> QED
          BY <2>b, <2>p, <5>2, <5>3
      <4>2. CASE ~LastOfDelayed(g)
        BY <2>1, <4>2 DEF ChainOK
      <4> QED
        BY <4>1, <4>2
    <3>3. mpc' \in {"unlink", "destroy"} \/ (mpc' = "user" /\ ctx' = "cb")
      BY <2>1 DEF BeginFinish
    <3> QED
      BY <3>1, <3>2, <3>3 DEF ChainOK, Busy
  <2>14. KidsOK'
    BY <2>1, <2>3, <2>4, <2>8 DEF TreeOK, KidsOK, g
  <2>15. SizeOK'
    BY <2>1, <2>3, <2>4, <2>7, <2>10 DEF TreeOK, SizeOK
  <2>16. DelayOK'
    BY <2>1, <2>3, <2>4, <2>9, <2>12 DEF TreeOK, DelayOK
  <2> QED
    BY <2>1, <2>13, <2>14, <2>15, <2>16 DEF TreeOK
<1>13. CASE UnlinkNone
  <2> DEFINE r == chain[Len(chain)]
  <2>1. /\ mpc = "unlink" /\ chain # <<>> /\ mpc' = "destroy" /\ grp[r] = None
        /\ UNCHANGED <<ctx, chain, life, grp, kids, gsize, delayed>>
    BY <1>13 DEF UnlinkNone, reqVars, TypeOK, MainOK
  <2>2. \A x : Finishing(x)' <=> Finishing(x)
    BY <2>1, SameChain
  <2>3. \A x : Gone(x)' <=> Gone(x) \/ x = r
    <3> DEFINE n == Len(chain)
    <3>1. n \in Nat \ {0}
      BY <2>1, TopFrame
    <3>2. /\ \A x : Gone(x) <=> \E i \in 1 .. n : chain[i] = x /\ i < n
          /\ \A x : Gone(x)' <=> \E i \in 1 .. n : chain[i] = x
          /\ chain[n] = r
      BY <2>1 DEF Gone
    <3> HIDE DEF n
    <3> QED
      BY <3>1, <3>2, Positions
  <2>4. None \notin Groups
    BY PoolAssumption
  <2>5. ChainOK'
    BY <2>1, <2>2 DEF ChainOK, Busy
  <2> HIDE DEF r
  <2>6. KidsOK'
    BY <2>1, <2>3, <2>4 DEF TreeOK, KidsOK, r
  <2>7. SizeOK' /\ DelayOK'
    BY <2>1, <2>2 DEF TreeOK, SizeOK, DelayOK
  <2> QED
    BY <2>1, <2>5, <2>6, <2>7 DEF TreeOK
<1>14. CASE PollNext
  <2>1. /\ mpc = "destroy" /\ chain' = <<>> /\ ctx = "app" /\ ctx' = "app"
        /\ mpc' \in {"user", "maybe"}
        /\ life' = [x \in Reqs |-> IF Finishing(x) THEN "freed" ELSE life[x]]
        /\ UNCHANGED <<grp, kids, gsize, delayed>>
    BY <1>14 DEF PollNext, PollReturn, MaybeStart, TypeOK, MainOK
  <2>2. \A x : ~Finishing(x)' /\ ~Gone(x)'
    BY <2>1 DEF Finishing, Gone
  <2>3. \A x : Gone(x) <=> Finishing(x)
    BY <2>1 DEF Finishing, Gone
  <2>4. ChainOK'
    BY <2>1, <2>2 DEF ChainOK, Busy
  <2>5. KidsOK'
    BY <2>1, <2>2, <2>3 DEF TreeOK, KidsOK
  <2>6. SizeOK'
    BY <2>1 DEF TreeOK, SizeOK, ChainOK, Reqs
  <2>7. DelayOK'
    BY <2>1, <2>2 DEF TreeOK, DelayOK, Reqs
  <2>8. \A x \in Reqs : life'[x] = "new" => grp'[x] = None
    BY <2>1 DEF TreeOK
  <2> QED
    BY <2>4, <2>5, <2>6, <2>7, <2>8 DEF TreeOK
<1> QED
  BY StepKinds, <1>1, <1>2, <1>4, <1>5, <1>6, <1>8, <1>9, <1>10, <1>11, <1>12, <1>13, <1>14
     DEF Noisy

-----------------------------------------------------------------------------
(* Each request in one place.                                              *)

\* A push adds a place to what it pushes, and to nothing else.
LEMMA PushWhere ==
  ASSUME NEW S, NEW q, Bounded(q, S), NEW x \in S, NEW p \in Pri, NEW r,
         IsFiniteSet(Where(q, r))
  PROVE  Cardinality(Where(Push(q, x, p), r))
           = Cardinality(Where(q, r)) + (IF x = r THEN 1 ELSE 0)
<1>1. Where(q, r) = Cells(q, {r}) /\ Where(Push(q, x, p), r) = Cells(Push(q, x, p), {r})
  BY WhereIsCells
<1>2. Cardinality(Cells(Push(q, x, p), {r}))
        = Cardinality(Cells(q, {r})) + (IF x \in {r} THEN 1 ELSE 0)
  BY <1>1, PushCount
<1> QED
  BY <1>1, <1>2

\* A shift takes a place from the head it takes.
LEMMA PopWhere ==
  ASSUME NEW S, NEW q, Bounded(q, S), NEW p \in Pri, q.qs[p] # <<>>, NEW r,
         IsFiniteSet(Where(q, r))
  PROVE  /\ Cardinality(Where(Pop(q, p), r))
              = Cardinality(Where(q, r)) - (IF Head(q.qs[p]) = r THEN 1 ELSE 0)
         /\ Cardinality(Where(Pop(q, p), r)) \in Nat
<1>1. Where(q, r) = Cells(q, {r}) /\ Where(Pop(q, p), r) = Cells(Pop(q, p), {r})
  BY WhereIsCells
<1>2. /\ Cardinality(Cells(Pop(q, p), {r}))
           = Cardinality(Cells(q, {r})) - (IF Head(q.qs[p]) \in {r} THEN 1 ELSE 0)
      /\ Cardinality(Cells(Pop(q, p), {r})) \in Nat
  BY <1>1, PopCount
<1> QED
  BY <1>1, <1>2

\* The same queue holds the same.
LEMMA OnePlaceNext ==
  ASSUME \A r \in Reqs :
           Cardinality(Where(reqq', r)) + Cardinality(Where(resq', r))
             + Cardinality(Hands(r)') + (IF Framed(r)' THEN 1 ELSE 0)
           = IF life'[r] = "live" THEN 1 ELSE 0
  PROVE  OnePlace'
BY DEF OnePlace, Hands, Framed, Where

\* What the frames and the groups put off hold, when they do not change.
LEMMA FramedFrame ==
  ASSUME UNCHANGED <<chain, life, delayed>>, NEW r
  PROVE  Framed(r)' <=> Framed(r)
BY DEF Framed, PutAside, Finishing

\* A step moves a request from one place to another: each takes what it adds.
LEMMA OnePlaceStep == ASSUME PlaceInv, [Next]_vars PROVE OnePlace'
<1> USE DEF PlaceInv
<1>a. Bounded(reqq, Items) /\ Bounded(resq, Reqs)
  BY DEF TypeOK, QueuesOK
<1>b. ASSUME UNCHANGED cur, NEW r PROVE Hands(r)' = Hands(r)
  BY <1>b DEF Hands
<1>c. ASSUME NEW r \in Reqs
      PROVE  /\ Cardinality(Where(reqq, r)) + Cardinality(Where(resq, r))
                  + Cardinality(Hands(r)) + (IF Framed(r) THEN 1 ELSE 0)
                = IF life[r] = "live" THEN 1 ELSE 0
             /\ Cardinality(Where(reqq, r)) \in Nat /\ Cardinality(Where(resq, r)) \in Nat
             /\ Cardinality(Hands(r)) \in Nat
             /\ IsFiniteSet(Where(reqq, r)) /\ IsFiniteSet(Where(resq, r))
  BY WhereFinite, PlaceSum
<1>d. ASSUME UNCHANGED <<reqq, resq, cur>>,
             \A r \in Reqs : /\ Framed(r)' <=> Framed(r)
                             /\ (life'[r] = "live") <=> (life[r] = "live")
      PROVE  OnePlace'
  BY <1>b, <1>c, <1>d, OnePlaceNext
<1>1. CASE Quiet
  BY <1>1, <1>d, FramedFrame DEF Quiet
<1>2. ASSUME NEW w \in Workers, Take(w) PROVE OnePlace'
  <2>1. PICK p \in Pri :
          /\ IsTop(reqq, p) /\ reqq' = Pop(reqq, p)
          /\ cur' = [cur EXCEPT ![w] = IF Head(reqq.qs[p]) = Quit THEN None ELSE Head(reqq.qs[p])]
    BY <1>2 DEF Take
  <2> DEFINE x == Head(reqq.qs[p])
             y == IF x = Quit THEN None ELSE x
  <2>2. x \in Items /\ reqq.qs[p] # <<>>
    BY <1>2, <1>a, <2>1, PopType DEF IsTop, Take, Takes
  <2>3. cur[w] = None
    BY <1>2 DEF Take, Acquire, EmptyHands, Holding
  <2>4. UNCHANGED <<resq, chain, life, delayed>>
    BY <1>2 DEF Take, mainVars, reqVars
  <2>5. cur' = [cur EXCEPT ![w] = y] /\ WorkersOK
    BY <2>1 DEF TypeOK
  <2> HIDE DEF x, y
  <2>6. ASSUME NEW r \in Reqs
        PROVE  Cardinality(Hands(r)') = Cardinality(Hands(r)) + (IF r = x THEN 1 ELSE 0)
    <3>1. r # Quit /\ r # None
      BY PoolAssumption DEF Reqs
    <3>2. CASE y = None
      <4>1. cur' = cur
        BY <2>3, <2>5, <3>2 DEF WorkersOK
      <4>2. r # x
        BY <3>1, <3>2 DEF y
      <4> QED
        BY <1>b, <1>c, <4>1, <4>2
    <3>3. CASE y # None
      <4>1. y = x
        BY <3>3 DEF y
      <4>2. Cardinality(Hands(r)') = Cardinality(Hands(r)) + (IF r = y THEN 1 ELSE 0)
                                          - (IF r = cur[w] THEN 1 ELSE 0)
        BY <2>3, <2>5, <3>3, HandsChange
      <4> QED
        BY <1>c, <2>3, <3>1, <4>1, <4>2
    <3> QED
      BY <3>2, <3>3
  <2>7. ASSUME NEW r \in Reqs
        PROVE  Cardinality(Where(reqq', r)) = Cardinality(Where(reqq, r)) - (IF x = r THEN 1 ELSE 0)
    BY <1>a, <1>c, <2>1, <2>2, PopWhere DEF x
  <2>8. ASSUME NEW r \in Reqs
        PROVE  Cardinality(Where(reqq', r)) + Cardinality(Where(resq', r))
                 + Cardinality(Hands(r)') + (IF Framed(r)' THEN 1 ELSE 0)
               = IF life'[r] = "live" THEN 1 ELSE 0
    <3>1. Framed(r)' <=> Framed(r)
      BY <2>4, FramedFrame
    <3> QED
      BY <1>c, <2>4, <2>6, <2>7, <3>1
  <2> QED
    BY <2>8, OnePlaceNext
<1>3. ASSUME NEW w \in Workers, Execute(w) PROVE OnePlace'
  BY <1>3, <1>d, FramedFrame DEF Execute, poolVars, mainVars
<1>4. ASSUME NEW w \in Workers, Post(w) PROVE OnePlace'
  <2> DEFINE x == cur[w]
  <2>1. x \in Reqs /\ pri[x] \in Pri /\ x # None
    BY <1>4, PoolAssumption DEF Post, TypeOK, WorkersOK, RequestsOK, Reqs
  <2>2. /\ resq' = Push(resq, x, pri[x]) /\ cur' = [cur EXCEPT ![w] = None]
        /\ UNCHANGED <<reqq, chain, life, delayed>> /\ WorkersOK
    BY <1>4 DEF Post, PushResult, mainVars, reqVars, TypeOK
  <2>3. ASSUME NEW r \in Reqs
        PROVE  Cardinality(Hands(r)') = Cardinality(Hands(r)) - (IF r = x THEN 1 ELSE 0)
    <3>1. r # None
      BY PoolAssumption DEF Reqs
    <3>2. Cardinality(Hands(r)') = Cardinality(Hands(r)) + (IF r = None THEN 1 ELSE 0)
                                        - (IF r = x THEN 1 ELSE 0)
      BY <2>1, <2>2, HandsChange
    <3> QED
      BY <1>c, <3>1, <3>2
  <2> HIDE DEF x
  <2>4. ASSUME NEW r \in Reqs
        PROVE  Cardinality(Where(resq', r)) = Cardinality(Where(resq, r)) + (IF x = r THEN 1 ELSE 0)
    BY <1>a, <1>c, <2>1, <2>2, PushWhere
  <2>5. ASSUME NEW r \in Reqs
        PROVE  Cardinality(Where(reqq', r)) + Cardinality(Where(resq', r))
                 + Cardinality(Hands(r)') + (IF Framed(r)' THEN 1 ELSE 0)
               = IF life'[r] = "live" THEN 1 ELSE 0
    <3>1. Framed(r)' <=> Framed(r)
      BY <2>2, FramedFrame
    <3> QED
      BY <1>c, <2>2, <2>3, <2>4, <3>1
  <2> QED
    BY <2>5, OnePlaceNext
\* A new request comes into one queue.
<1>5. ASSUME NEW x \in Reqs, life[x] = "new", life' = [life EXCEPT ![x] = "live"],
             UNCHANGED <<chain, delayed, cur>>,
             \A r \in Reqs : Cardinality(Where(reqq', r)) + Cardinality(Where(resq', r))
               = Cardinality(Where(reqq, r)) + Cardinality(Where(resq, r)) + (IF x = r THEN 1 ELSE 0)
      PROVE  OnePlace'
  <2>1. x \in Groups => ~delayed[x]
    BY <1>5 DEF TreeOK, DelayOK
  <2>2. \A r : Finishing(r)' <=> Finishing(r)
    BY <1>5, SameChain
  <2>3. life \in [Reqs -> {"new", "live", "freed"}]
    BY DEF TypeOK, RequestsOK
  <2>4. ASSUME NEW r \in Reqs PROVE Framed(r)' <=> Framed(r)
    BY <1>5, <2>1, <2>2, <2>3 DEF Framed, PutAside
  <2>5. ASSUME NEW r \in Reqs
        PROVE  Cardinality(Where(reqq', r)) + Cardinality(Where(resq', r))
                 + Cardinality(Hands(r)') + (IF Framed(r)' THEN 1 ELSE 0)
               = IF life'[r] = "live" THEN 1 ELSE 0
    <3>1. /\ Cardinality(Where(reqq, r)) + Cardinality(Where(resq, r))
               + Cardinality(Hands(r)) + (IF Framed(r) THEN 1 ELSE 0)
             = IF life[r] = "live" THEN 1 ELSE 0
          /\ Cardinality(Where(reqq, r)) \in Nat /\ Cardinality(Where(resq, r)) \in Nat
          /\ Cardinality(Hands(r)) \in Nat
      BY <1>c
    <3>2. Hands(r)' = Hands(r)
      BY <1>5, <1>b
    <3>3. (life'[r] = "live") <=> (life[r] = "live" \/ x = r)
      BY <1>5, <2>3
    <3>4. Cardinality(Where(reqq', r)) + Cardinality(Where(resq', r))
           = Cardinality(Where(reqq, r)) + Cardinality(Where(resq, r)) + (IF x = r THEN 1 ELSE 0)
      BY <1>5
    <3>5. Cardinality(Where(reqq', r)) + Cardinality(Where(resq', r))
                 + Cardinality(Hands(r)') + (IF Framed(r)' THEN 1 ELSE 0)
          = Cardinality(Where(reqq, r)) + Cardinality(Where(resq, r)) + (IF x = r THEN 1 ELSE 0)
                 + Cardinality(Hands(r)) + (IF Framed(r) THEN 1 ELSE 0)
      BY <2>4, <3>2, <3>4
    <3>6. x = r => life[r] # "live"
      BY <1>5
    <3> QED
      BY <3>1, <3>3, <3>5, <3>6
  <2> QED
    BY <2>5, OnePlaceNext
<1>6. ASSUME NEW x \in Plain, Submit(x) PROVE OnePlace'
  <2>1. PICK p \in RawPri : reqq' = Push(reqq, x, Clamp(p))
    BY <1>6 DEF Submit
  <2>2. Clamp(p) \in Pri /\ x \in Items /\ x \in Reqs
    BY ClampRange, PoolAssumption DEF Items, Reqs
  <2>3. ASSUME NEW r \in Reqs
        PROVE  Cardinality(Where(reqq', r)) = Cardinality(Where(reqq, r)) + (IF x = r THEN 1 ELSE 0)
    BY <1>a, <1>c, <2>1, <2>2, PushWhere
  <2>4. /\ life[x] = "new" /\ life' = [life EXCEPT ![x] = "live"]
        /\ UNCHANGED <<chain, delayed, cur, resq>>
    BY <1>6 DEF Submit, New
  <2>5. \A r \in Reqs : Cardinality(Where(reqq', r)) + Cardinality(Where(resq', r))
               = Cardinality(Where(reqq, r)) + Cardinality(Where(resq, r)) + (IF x = r THEN 1 ELSE 0)
    BY <1>c, <2>3, <2>4
  <2> QED
    BY <1>5, <2>2, <2>4, <2>5
<1>7. ASSUME NEW x \in Groups, SubmitGroup(x) PROVE OnePlace'
  <2>1. resq' = Push(resq, x, TopPri) /\ TopPri \in Pri /\ x \in Reqs
    BY <1>7, TopPriIsPri DEF SubmitGroup, PushResult, Reqs
  <2>2. ASSUME NEW r \in Reqs
        PROVE  Cardinality(Where(resq', r)) = Cardinality(Where(resq, r)) + (IF x = r THEN 1 ELSE 0)
    BY <1>a, <1>c, <2>1, PushWhere
  <2>3. /\ life[x] = "new" /\ life' = [life EXCEPT ![x] = "live"]
        /\ UNCHANGED <<chain, delayed, cur, reqq>>
    BY <1>7 DEF SubmitGroup, New, mainVars, workVars
  <2>4. \A r \in Reqs : Cardinality(Where(reqq', r)) + Cardinality(Where(resq', r))
               = Cardinality(Where(reqq, r)) + Cardinality(Where(resq, r)) + (IF x = r THEN 1 ELSE 0)
    BY <1>c, <2>2, <2>3
  <2> QED
    BY <1>5, <2>1, <2>3, <2>4
<1>8. ASSUME NEW g \in Groups, NEW r \in Reqs, GrpAdd(g, r) PROVE OnePlace'
  BY <1>8, <1>d, FramedFrame DEF GrpAdd, poolVars, workVars, mainVars
<1>9. CASE EndPush
  <2>1. /\ reqq' = Push(reqq, Quit, TopPri) /\ TopPri \in Pri /\ Quit \in Items
        /\ UNCHANGED <<resq, cur, chain, life, delayed>>
    BY <1>9, TopPriIsPri DEF EndPush, Items, reqVars
  <2>2. ASSUME NEW r \in Reqs
        PROVE  Cardinality(Where(reqq', r)) = Cardinality(Where(reqq, r)) + (IF Quit = r THEN 1 ELSE 0)
    BY <1>a, <1>c, <2>1, PushWhere
  <2>3. Quit \notin Reqs
    BY PoolAssumption DEF Reqs
  <2>4. ASSUME NEW r \in Reqs
        PROVE  Cardinality(Where(reqq', r)) + Cardinality(Where(resq', r))
                 + Cardinality(Hands(r)') + (IF Framed(r)' THEN 1 ELSE 0)
               = IF life'[r] = "live" THEN 1 ELSE 0
    <3>1. (Framed(r)' <=> Framed(r)) /\ Hands(r)' = Hands(r)
      BY <1>b, <2>1, FramedFrame
    <3>2. Quit # r
      BY <2>3
    <3>3. Cardinality(Where(reqq', r)) = Cardinality(Where(reqq, r))
      BY <1>c, <2>2, <3>2
    <3> QED
      BY <1>c, <2>1, <3>1, <3>3
  <2> QED
    BY <2>4, OnePlaceNext
<1>10. CASE CbReturn \/ UnlinkNone
  BY <1>10, <1>d, FramedFrame DEF CbReturn, UnlinkNone, poolVars, workVars, reqVars
<1>11. CASE PollShift
  <2>1. PICK p \in Pri : IsTop(resq, p) /\ resq' = Pop(resq, p) /\ chain' = <<Head(resq.qs[p])>>
    BY <1>11 DEF PollShift
  <2> DEFINE x == Head(resq.qs[p])
  <2>2. x \in Reqs /\ life[x] = "live" /\ ~Finishing(x) /\ ~PutAside(x) /\ resq.qs[p] # <<>>
    BY <2>1, ResultPlace DEF IsTop
  <2>3. chain = <<>> /\ UNCHANGED <<reqq, cur, life, delayed>>
    BY <1>11 DEF PollShift, ChainOK, Busy, TypeOK, MainOK, workVars, reqVars
  <2>4. ASSUME NEW r \in Reqs
        PROVE  /\ Cardinality(Where(resq', r)) = Cardinality(Where(resq, r)) - (IF x = r THEN 1 ELSE 0)
               /\ Cardinality(Where(resq', r)) \in Nat
    BY <1>a, <1>c, <2>1, <2>2, PopWhere
  <2> HIDE DEF x
  <2>5. Len(chain') = 1 /\ chain'[1] = x
    BY <2>1 DEF x
  <2>6. \A r : ~Finishing(r) /\ (Finishing(r)' <=> r = x)
    BY <2>3, <2>5 DEF Finishing
  <2>7. ASSUME NEW r \in Reqs PROVE Framed(r)' <=> (Framed(r) \/ r = x)
    BY <2>3, <2>6 DEF Framed, PutAside
  <2>8. ASSUME NEW r \in Reqs
        PROVE  Cardinality(Where(reqq', r)) + Cardinality(Where(resq', r))
                 + Cardinality(Hands(r)') + (IF Framed(r)' THEN 1 ELSE 0)
               = IF life'[r] = "live" THEN 1 ELSE 0
    <3>1. Hands(r)' = Hands(r) /\ (r = x => ~Framed(r))
      BY <1>b, <2>2, <2>3 DEF Framed
    <3> QED
      BY <1>c, <2>3, <2>4, <2>7, <3>1
  <2> QED
    BY <2>8, OnePlaceNext
<1>12. CASE PollHandle
  <2> DEFINE x == chain[1]
  <2>1. Len(chain) = 1 /\ mpc = "handle" /\ UNCHANGED <<reqq, resq, cur, life>>
    BY <1>12 DEF PollHandle, ChainOK, workVars
  <2>2. x \in Reqs /\ Finishing(x) /\ life[x] = "live"
    BY <2>1, TopFrame, FinishingLive DEF ChainOK, Busy
  <2>3. \A r : Finishing(r) <=> r = x
    BY <2>1 DEF Finishing
  <2>4. CASE PutOff(x)
    <3>1. delayed' = [delayed EXCEPT ![x] = TRUE] /\ chain' = <<>> /\ x \in Groups
      BY <1>12, <2>4 DEF PollHandle, PutOff
    <3>2. \A r : ~Finishing(r)'
      BY <3>1 DEF Finishing
    <3>3. delayed \in [Groups -> BOOLEAN]
      BY DEF TypeOK, RequestsOK
    <3> HIDE DEF x
    <3>4. \A r \in Reqs : Framed(r)' <=> Framed(r)
      BY <2>1, <2>2, <2>3, <3>1, <3>2, <3>3 DEF Framed, PutAside
    <3> QED
      BY <1>d, <2>1, <3>4
  <2>5. CASE ~PutOff(x)
    BY <1>12, <1>d, <2>1, <2>5, FramedFrame DEF PollHandle
  <2> QED
    BY <2>4, <2>5
<1>13. CASE UnlinkMember
  <2> DEFINE g == grp[chain[Len(chain)]]
  <2>1. /\ mpc = "unlink" /\ chain # <<>> /\ UNCHANGED <<reqq, resq, cur, life, delayed>>
        /\ g # None
        /\ IF LastOfDelayed(g) THEN chain' = Append(chain, g) ELSE UNCHANGED chain
    BY <1>13 DEF UnlinkMember, poolVars, workVars, TypeOK, MainOK
  <2>2. CASE ~LastOfDelayed(g)
    BY <1>d, <2>1, <2>2, FramedFrame
  <2>3. CASE LastOfDelayed(g)
    <3>1. g \in Groups /\ g \in Reqs
      BY <2>1, TopFrame DEF TypeOK, RequestsOK, Reqs
    <3> HIDE DEF g
    <3>2. kids[g] # {} /\ delayed[g]
      BY <2>3, <3>1, FS_EmptySet DEF LastOfDelayed, TreeOK, SizeOK
    <3>3. life[g] = "live" /\ ~Finishing(g)
      BY <2>1, <3>1, <3>2 DEF ChainOK, TreeOK, SizeOK
    <3>5. \A r : Finishing(r)' <=> Finishing(r) \/ r = g
      BY <2>1, <2>3, <3>1, AppendFinishing
    <3>6. \A r \in Reqs : Framed(r)' <=> Framed(r)
      BY <2>1, <3>1, <3>2, <3>3, <3>5 DEF Framed, PutAside
    <3> QED
      BY <1>d, <2>1, <3>6
  <2> QED
    BY <2>2, <2>3
<1>14. CASE PollNext
  <2>1. /\ life' = [r \in Reqs |-> IF Finishing(r) THEN "freed" ELSE life[r]]
        /\ chain' = <<>> /\ UNCHANGED <<reqq, resq, cur, delayed>>
    BY <1>14 DEF PollNext, poolVars, workVars
  <2>2. \A r : ~Finishing(r)'
    BY <2>1 DEF Finishing
  <2>3. ASSUME NEW r \in Reqs
        PROVE  Cardinality(Where(reqq', r)) + Cardinality(Where(resq', r))
                 + Cardinality(Hands(r)') + (IF Framed(r)' THEN 1 ELSE 0)
               = IF life'[r] = "live" THEN 1 ELSE 0
    <3>1. Hands(r)' = Hands(r)
      BY <1>b, <2>1
    <3>2. CASE Finishing(r)
      <4>1. life'[r] = "freed" /\ ~Framed(r)' /\ Framed(r) /\ life[r] = "live"
        BY <2>1, <2>2, <3>2, FinishingLive DEF Framed
      <4> QED
        BY <1>c, <2>1, <3>1, <4>1
    <3>3. CASE ~Finishing(r)
      <4>1. life'[r] = life[r] /\ (Framed(r)' <=> Framed(r))
        BY <2>1, <2>2, <3>3 DEF Framed, PutAside
      <4> QED
        BY <1>c, <2>1, <3>1, <4>1
    <3> QED
      BY <3>2, <3>3
  <2> QED
    BY <2>3, OnePlaceNext
<1> QED
  BY StepKinds, <1>1, <1>2, <1>3, <1>4, <1>6, <1>7, <1>8, <1>9, <1>10, <1>11, <1>12, <1>13, <1>14
     DEF Noisy

\* At first there is no request.
LEMMA PlaceInit == Init => PlaceInv
<1> SUFFICES ASSUME Init PROVE PlaceInv
  OBVIOUS
<1>1. TypeOK
  BY TypeInit
<1>2. \A T : Cells(reqq, T) = {} /\ Cells(resq, T) = {}
  BY DEF Init, EmptyQ, Cells
<1>3. QueueSizes
  <2>1. 0 % W = 0
    BY SmallMod, PoolAssumption DEF Counts
  <2> QED
    BY <1>2, <2>1, FS_EmptySet DEF Init, EmptyQ, QueueSizes
<1>4. EmptyHands
  BY DEF Init, EmptyHands
<1>5. \A r : ~Finishing(r) /\ ~Gone(r)
  BY DEF Init, Finishing, Gone
<1>6. ChainOK
  BY <1>5 DEF Init, ChainOK, Busy
<1>7. None \notin Groups
  BY PoolAssumption
<1>8. TreeOK
  BY <1>5, <1>7, FS_EmptySet DEF Init, TreeOK, KidsOK, SizeOK, DelayOK, Reqs
<1>9. ASSUME NEW r \in Reqs
      PROVE  /\ Where(reqq, r) = {} /\ Where(resq, r) = {} /\ Hands(r) = {}
             /\ ~Framed(r) /\ life[r] # "live"
  <2>1. Where(reqq, r) = {} /\ Where(resq, r) = {}
    BY <1>2, WhereIsCells
  <2>2. r # None
    BY PoolAssumption DEF Reqs
  <2>3. Hands(r) = {}
    BY <2>2 DEF Init, Hands
  <2> QED
    BY <1>5, <2>1, <2>3 DEF Init, Framed
<1>10. OnePlace
  BY <1>9, PlaceSum, FS_EmptySet
<1> QED
  BY <1>1, <1>3, <1>4, <1>6, <1>8, <1>10 DEF PlaceInv

\* The strengthening is inductive.
LEMMA PlaceStep == PlaceInv /\ [Next]_vars => PlaceInv'
<1> SUFFICES ASSUME PlaceInv, [Next]_vars PROVE PlaceInv'
  OBVIOUS
<1>1. TypeOK' /\ QueueSizes' /\ EmptyHands'
  BY TypeStep, SizesStep, HandsStep DEF PlaceInv
<1>2. ChainOK' /\ TreeOK'
  BY StructureStep DEF PlaceInv
<1>3. OnePlace'
  BY OnePlaceStep
<1> QED
  BY <1>1, <1>2, <1>3 DEF PlaceInv

\* The strengthening holds in every state.
LEMMA PlaceAlways == Spec => []PlaceInv
BY PlaceInit, PlaceStep, PTL DEF Spec

\* An allocated request is in exactly one place and a freed one in none, for
\* any number of threads, requests, groups and priorities: the code neither
\* loses a request nor finishes it twice.
THEOREM OnePlaceCorrect == Spec => []OnePlace
BY PlaceAlways, PTL DEF PlaceInv

-----------------------------------------------------------------------------
(* The counts of requests and of threads.                                  *)

\* The places started counts, and those idle counts.
Active == {"lock", "wait", "timedwait", "woken", "retire", "exec", "post"}
Asleep == {"wait", "timedwait", "woken"}

\* The workers at a place of P.
At(P) == {w \in Workers : wpc[w] \in P}

\* What started should be.
Due == Cardinality(At(Active)) - Pills + (IF mpc = "enddec" THEN 1 ELSE 0)

\* What the two counts of threads are modulo W.
ThreadCounts == started = Due % W /\ idle = Cardinality(At(Asleep)) % W

\* Finitely many workers are at a place.
LEMMA AtFinite == ASSUME NEW P PROVE IsFiniteSet(At(P)) /\ Cardinality(At(P)) \in Nat
<1>1. IsFiniteSet(At(P))
  BY PoolAssumption, FS_Subset DEF At
<1> QED
  BY <1>1, FS_CardinalityType

\* Worker w goes to v.
Moves(w, v) == wpc' = [wpc EXCEPT ![w] = v]

\* A worker goes from one place to another.
LEMMA AtMove ==
  ASSUME WorkersOK, NEW w \in Workers, NEW v, Moves(w, v), NEW P
  PROVE  Cardinality(At(P)') = Cardinality(At(P)) + (IF v \in P THEN 1 ELSE 0)
                                  - (IF wpc[w] \in P THEN 1 ELSE 0)
<1>0. IsFiniteSet(At(P)) /\ Cardinality(At(P)) \in Nat
  BY AtFinite
<1>1. CASE v \in P /\ wpc[w] \notin P
  <2>1. w \notin At(P) /\ At(P)' = At(P) \cup {w}
    BY <1>1 DEF At, WorkersOK, Moves
  <2> QED
    BY <1>0, <1>1, <2>1, FS_AddElement
<1>2. CASE v \notin P /\ wpc[w] \in P
  <2>1. w \in At(P) /\ At(P)' = At(P) \ {w}
    BY <1>2 DEF At, WorkersOK, Moves
  <2> QED
    BY <1>0, <1>2, <2>1, FS_RemoveElement
<1>3. CASE v \in P <=> wpc[w] \in P
  <2>1. At(P)' = At(P)
    BY <1>3 DEF At, WorkersOK, Moves
  <2> QED
    BY <1>0, <1>3, <2>1
<1> QED
  BY <1>1, <1>2, <1>3

\* No worker moves.
LEMMA AtSame == ASSUME UNCHANGED wpc, NEW P PROVE At(P)' = At(P)
BY DEF At

\* A signal wakes a worker that still counts as active and as asleep.
LEMMA SignalCounts ==
  ASSUME WorkersOK, Signal
  PROVE  /\ Cardinality(At(Active)') = Cardinality(At(Active))
         /\ Cardinality(At(Asleep)') = Cardinality(At(Asleep))
<1>0. Cardinality(At(Active)) \in Nat /\ Cardinality(At(Asleep)) \in Nat
  BY AtFinite
<1>1. CASE wpc' = wpc
  BY <1>1, AtSame
<1>2. ASSUME NEW w \in Waiting, Moves(w, "woken")
      PROVE  /\ Cardinality(At(Active)') = Cardinality(At(Active))
             /\ Cardinality(At(Asleep)') = Cardinality(At(Asleep))
  <2>1. /\ w \in Workers /\ wpc[w] \in Active /\ wpc[w] \in Asleep
        /\ "woken" \in Active /\ "woken" \in Asleep
    BY DEF Waiting, Active, Asleep
  <2>2. /\ Cardinality(At(Active)') = Cardinality(At(Active)) + 1 - 1
        /\ Cardinality(At(Asleep)') = Cardinality(At(Asleep)) + 1 - 1
    BY <1>2, <2>1, AtMove
  <2> QED
    BY <1>0, <2>2
<1> QED
  BY <1>1, <1>2 DEF Signal, Moves

\* A step that moves a worker: what it does to the two sums.
LEMMA MoveCounts ==
  ASSUME WorkersOK, NEW w \in Workers, NEW v, Moves(w, v)
  PROVE  /\ Cardinality(At(Active)') = Cardinality(At(Active))
              + (IF v \in Active THEN 1 ELSE 0) - (IF wpc[w] \in Active THEN 1 ELSE 0)
         /\ Cardinality(At(Asleep)') = Cardinality(At(Asleep))
              + (IF v \in Asleep THEN 1 ELSE 0) - (IF wpc[w] \in Asleep THEN 1 ELSE 0)
         /\ Cardinality(At(Active)) \in Nat /\ Cardinality(At(Asleep)) \in Nat
BY AtMove, AtFinite

\* A QUIT request that is pushed is one more.
LEMMA PillsPush ==
  ASSUME TypeOK, QueueSizes, NEW x \in Items, NEW p \in Pri, reqq' = Push(reqq, x, p)
  PROVE  Pills' = Pills + (IF x = Quit THEN 1 ELSE 0) /\ Pills \in Nat
<1>1. Bounded(reqq, Items) /\ IsFiniteSet(Where(reqq, Quit)) /\ Pills \in Nat
  BY WhereFinite DEF TypeOK, QueuesOK, Pills
<1>2. Cardinality(Where(reqq', Quit))
        = Cardinality(Where(reqq, Quit)) + (IF x = Quit THEN 1 ELSE 0)
  BY <1>1, PushWhere
<1>3. Pills' = Cardinality(Where(reqq', Quit))
  BY DEF Pills, Where
<1> QED
  BY <1>1, <1>2, <1>3 DEF Pills

\* A QUIT request that is taken is one less.
LEMMA PillsPop ==
  ASSUME TypeOK, QueueSizes, NEW p \in Pri, reqq.qs[p] # <<>>, reqq' = Pop(reqq, p)
  PROVE  Pills' = Pills - (IF Head(reqq.qs[p]) = Quit THEN 1 ELSE 0) /\ Pills \in Nat
<1>1. Bounded(reqq, Items) /\ IsFiniteSet(Where(reqq, Quit)) /\ Pills \in Nat
  BY WhereFinite DEF TypeOK, QueuesOK, Pills
<1>2. Cardinality(Where(reqq', Quit))
        = Cardinality(Where(reqq, Quit)) - (IF Head(reqq.qs[p]) = Quit THEN 1 ELSE 0)
  BY <1>1, PopWhere
<1>3. Pills' = Cardinality(Where(reqq', Quit))
  BY DEF Pills, Where
<1> QED
  BY <1>1, <1>2, <1>3 DEF Pills

\* The QUIT requests of a req_queue that does not change.
LEMMA PillsSame == ASSUME UNCHANGED reqq PROVE Pills' = Pills
BY DEF Pills, Where

\* ++ after -- is what it was.
LEMMA IncDec == ASSUME NEW n \in Counts PROVE Inc(Dec(n)) = n
BY PoolAssumption DEF Counts, Inc, Dec

\* started and idle follow the threads, modulo W.
LEMMA ThreadsStep ==
  ASSUME TypeOK, QueueSizes, ThreadCounts, [Next]_vars
  PROVE  ThreadCounts'
<1> USE DEF poolVars, confVars, workVars, mainVars
<1>a. /\ Cardinality(At(Active)) \in Nat /\ Cardinality(At(Asleep)) \in Nat /\ Pills \in Nat
      /\ Due \in Int /\ WorkersOK
  BY AtFinite, WhereFinite DEF Pills, Due, TypeOK
<1>b. ASSUME UNCHANGED <<started, idle, reqq>>, mpc' = "enddec" <=> mpc = "enddec",
             Cardinality(At(Active)') = Cardinality(At(Active)),
             Cardinality(At(Asleep)') = Cardinality(At(Asleep))
      PROVE  ThreadCounts'
  BY <1>b, PillsSame DEF ThreadCounts, Due
<1>c. ASSUME UNCHANGED <<started, idle, reqq, wpc>>, mpc' = "enddec" <=> mpc = "enddec"
      PROVE  ThreadCounts'
  BY <1>b, <1>c, AtSame
<1>d. ASSUME NEW w \in Workers, NEW v, Moves(w, v),
             v \in Active <=> wpc[w] \in Active, v \in Asleep <=> wpc[w] \in Asleep,
             UNCHANGED <<started, idle, reqq, mpc>>
      PROVE  ThreadCounts'
  <2>1. /\ Cardinality(At(Active)') = Cardinality(At(Active))
        /\ Cardinality(At(Asleep)') = Cardinality(At(Asleep))
    BY <1>a, <1>d, MoveCounts
  <2> QED
    BY <1>b, <1>d, <2>1
\* A worker that held idle and reqlock: idle follows the sleepers.
<1>e. ASSUME NEW w \in Workers, Acquire(w), NEW v, v \notin Asleep, Moves(w, v)
      PROVE  idle' = Cardinality(At(Asleep)') % W
  <2>1. wpc[w] \in Asleep <=> wpc[w] = "woken"
    BY <1>e DEF Acquire, Asleep
  <2>2. Cardinality(At(Asleep)') = Cardinality(At(Asleep)) - (IF wpc[w] = "woken" THEN 1 ELSE 0)
    BY <1>a, <1>e, <2>1, MoveCounts
  <2>3. CASE wpc[w] = "woken"
    BY <1>a, <1>e, <2>2, <2>3, DecIsMod DEF Acquire, ThreadCounts
  <2>4. CASE wpc[w] # "woken"
    BY <1>a, <1>e, <2>2, <2>4 DEF Acquire, ThreadCounts
  <2> QED
    BY <2>3, <2>4
<1>1. ASSUME NEW w \in Workers, Take(w) PROVE ThreadCounts'
  <2>1. PICK p \in Pri :
          /\ IsTop(reqq, p) /\ reqq' = Pop(reqq, p)
          /\ wpc' = [wpc EXCEPT ![w] = IF Head(reqq.qs[p]) = Quit THEN "free" ELSE "exec"]
    BY <1>1 DEF Take, Moves
  <2> DEFINE x == Head(reqq.qs[p])
             v == IF x = Quit THEN "free" ELSE "exec"
  <2>2. /\ Acquire(w) /\ UNCHANGED <<started, mpc>> /\ wpc[w] \in Active /\ v \notin Asleep
        /\ v \in Active <=> x # Quit
    BY <1>1 DEF Take, Acquire, Active, Asleep
  <2>3. Pills' = Pills - (IF x = Quit THEN 1 ELSE 0)
    BY <2>1, PillsPop DEF IsTop
  <2>4. Moves(w, v)
    BY <2>1 DEF Moves
  <2> HIDE DEF x, v
  <2>5. idle' = Cardinality(At(Asleep)') % W
    BY <1>e, <2>2, <2>4
  <2>6. Cardinality(At(Active)') = Cardinality(At(Active)) - (IF x = Quit THEN 1 ELSE 0)
    BY <1>a, <2>2, <2>4, MoveCounts
  <2>7. Due' = Due
    BY <1>a, <2>2, <2>3, <2>6 DEF Due
  <2> QED
    BY <2>2, <2>5, <2>7 DEF ThreadCounts
<1>2. ASSUME NEW w \in Workers, GiveUp(w) PROVE ThreadCounts'
  <2>1. /\ Acquire(w) /\ UNCHANGED <<started, mpc, reqq>> /\ wpc[w] \in Active
        /\ "retire" \notin Asleep /\ "retire" \in Active
        /\ Moves(w, "retire")
    BY <1>2 DEF GiveUp, Acquire, Active, Asleep, Moves
  <2>2. idle' = Cardinality(At(Asleep)') % W
    BY <1>e, <2>1
  <2>3. Cardinality(At(Active)') = Cardinality(At(Active))
    BY <1>a, <2>1, MoveCounts
  <2>4. Due' = Due
    BY <2>1, <2>3, PillsSame DEF Due
  <2> QED
    BY <2>1, <2>2, <2>4 DEF ThreadCounts
<1>3. ASSUME NEW w \in Workers, Wait(w) PROVE ThreadCounts'
  <2>1. PICK v \in {"wait", "timedwait"} : Moves(w, v)
    BY <1>3 DEF Wait, Moves
  <2>2. /\ v \in Active /\ v \in Asleep /\ wpc[w] \in Active
        /\ wpc[w] \in Asleep <=> wpc[w] = "woken"
        /\ UNCHANGED <<started, mpc, reqq>>
    BY <1>3, <2>1 DEF Wait, Active, Asleep
  <2>3. /\ Cardinality(At(Active)') = Cardinality(At(Active))
        /\ Cardinality(At(Asleep)') = Cardinality(At(Asleep)) + (IF wpc[w] = "woken" THEN 0 ELSE 1)
    BY <1>a, <2>1, <2>2, MoveCounts
  <2>4. idle' = IF wpc[w] = "woken" THEN idle ELSE Inc(idle)
    BY <1>3, IncDec DEF Wait, TypeOK, CountsOK, Counts
  <2>5. idle' = Cardinality(At(Asleep)') % W
    <3>1. CASE wpc[w] = "woken"
      BY <1>a, <2>3, <2>4, <3>1 DEF ThreadCounts
    <3>2. CASE wpc[w] # "woken"
      BY <1>a, <2>3, <2>4, <3>2, IncIsMod DEF ThreadCounts
    <3> QED
      BY <3>1, <3>2
  <2>6. Due' = Due
    BY <2>2, <2>3, PillsSame DEF Due
  <2> QED
    BY <2>2, <2>5, <2>6 DEF ThreadCounts
<1>4. ASSUME NEW w \in Workers, Timeout(w) \/ Spurious(w) PROVE ThreadCounts'
  <2>1. /\ Moves(w, "woken") /\ wpc[w] \in Active /\ wpc[w] \in Asleep
        /\ "woken" \in Active /\ "woken" \in Asleep
        /\ UNCHANGED <<started, idle, reqq, mpc>>
    BY <1>4 DEF Timeout, Spurious, Waiting, Active, Asleep, Moves
  <2> QED
    BY <1>d, <2>1
<1>5. ASSUME NEW w \in Workers, Retire(w) PROVE ThreadCounts'
  <2>1. /\ Moves(w, "free") /\ wpc[w] \in Active /\ wpc[w] \notin Asleep
        /\ "free" \notin Active /\ "free" \notin Asleep
        /\ UNCHANGED <<idle, reqq, mpc>> /\ started' = Dec(started)
    BY <1>5 DEF Retire, Uncounted, Active, Asleep, Moves
  <2>2. /\ Cardinality(At(Active)') = Cardinality(At(Active)) - 1
        /\ Cardinality(At(Asleep)') = Cardinality(At(Asleep))
    BY <1>a, <2>1, MoveCounts
  <2>3. Due' = Due - 1
    BY <1>a, <2>1, <2>2, PillsSame DEF Due
  <2> QED
    BY <1>a, <2>1, <2>2, <2>3, DecIsMod DEF ThreadCounts
<1>6. ASSUME NEW w \in Workers, Free(w) PROVE ThreadCounts'
  <2>1. /\ Moves(w, "dead") /\ wpc[w] \notin Active /\ wpc[w] \notin Asleep
        /\ "dead" \notin Active /\ "dead" \notin Asleep
        /\ UNCHANGED <<started, idle, reqq, mpc>>
    BY <1>6 DEF Free, Active, Asleep, Moves
  <2> QED
    BY <1>d, <2>1
<1>7. ASSUME NEW w \in Workers, Execute(w) \/ Post(w) PROVE ThreadCounts'
  <2>1. PICK v \in {"post", "lock"} : Moves(w, v)
    BY <1>7 DEF Execute, Post, Moves
  <2>2. /\ wpc[w] \in Active /\ wpc[w] \notin Asleep /\ v \in Active /\ v \notin Asleep
        /\ UNCHANGED <<started, idle, reqq, mpc>>
    BY <1>7, <2>1 DEF Execute, Post, Active, Asleep
  <2> QED
    BY <1>d, <2>1, <2>2
\* A push with a signal.
<1>f. ASSUME NEW x \in Items, NEW p \in Pri, reqq' = Push(reqq, x, p), Signal,
             UNCHANGED <<started, idle>>,
             mpc' = "enddec" <=> x = Quit, mpc # "enddec"
      PROVE  ThreadCounts'
  <2>1. /\ Cardinality(At(Active)') = Cardinality(At(Active))
        /\ Cardinality(At(Asleep)') = Cardinality(At(Asleep))
    BY <1>a, <1>f, SignalCounts
  <2>2. Pills' = Pills + (IF x = Quit THEN 1 ELSE 0)
    BY <1>f, PillsPush
  <2>3. Due' = Due
    BY <1>a, <1>f, <2>1, <2>2 DEF Due
  <2> QED
    BY <1>f, <2>1, <2>3 DEF ThreadCounts
<1>8. CASE User
  <2>1. ASSUME NEW r \in Plain, Submit(r) PROVE ThreadCounts'
    <3>1. PICK p \in RawPri : reqq' = Push(reqq, r, Clamp(p))
      BY <2>1 DEF Submit
    <3>2. Clamp(p) \in Pri /\ r \in Items /\ r # Quit
      BY ClampRange, PoolAssumption DEF Items
    <3>3. Signal /\ UNCHANGED <<started, idle>> /\ mpc' = "maybe" /\ mpc = "user"
      BY <2>1 DEF Submit, New, InUser, MaybeStart
    <3> QED
      BY <1>f, <3>1, <3>2, <3>3
  <2>2. ASSUME NEW g \in Groups, SubmitGroup(g) \/ \E r \in Reqs : GrpAdd(g, r) PROVE ThreadCounts'
    BY <1>c, <2>2 DEF SubmitGroup, GrpAdd
  <2>3. ASSUME NEW S, CancelSet(S) PROVE ThreadCounts'
    BY <1>c, <2>3 DEF CancelSet
  <2>4. ASSUME NEW n, SetMinParallel(n) \/ SetMaxParallel(n) \/ SetMaxIdle(n) \/ SetMaxPollReqs(n)
        PROVE  ThreadCounts'
    BY <1>c, <2>4 DEF SetMinParallel, SetMaxParallel, SetMaxIdle, SetMaxPollReqs, InUser
  <2> QED
    BY <1>8, <2>1, <2>2, <2>3, <2>4 DEF User, Cancel, GrpCancel
<1>9. CASE Inside
  <2>1. CASE StartThread
    <3>1. PICK w \in Workers : wpc[w] = "dead" /\ Moves(w, "lock")
      BY <2>1 DEF StartThread, Moves
    <3>2. /\ wpc[w] \notin Active /\ wpc[w] \notin Asleep /\ "lock" \in Active /\ "lock" \notin Asleep
          /\ UNCHANGED <<idle, reqq>> /\ started' = Inc(started)
          /\ mpc # "enddec" /\ mpc' # "enddec"
      BY <2>1, <3>1 DEF StartThread, Active, Asleep, TypeOK, MainOK
    <3>3. /\ Cardinality(At(Active)') = Cardinality(At(Active)) + 1
          /\ Cardinality(At(Asleep)') = Cardinality(At(Asleep))
      BY <1>a, <3>1, <3>2, MoveCounts
    <3>4. Due' = Due + 1
      BY <1>a, <3>2, <3>3, PillsSame DEF Due
    <3> QED
      BY <1>a, <3>2, <3>3, <3>4, IncIsMod DEF ThreadCounts
  <2>2. CASE EndPush
    BY <1>f, <2>2, TopPriIsPri DEF EndPush, Items
  <2>3. CASE EndDec
    <3>1. /\ mpc = "enddec" /\ mpc' # "enddec" /\ UNCHANGED <<idle, reqq, wpc>>
          /\ started' = Dec(started)
      BY <2>3 DEF EndDec, Uncounted
    <3>2. Due' = Due - 1
      BY <1>a, <3>1, PillsSame, AtSame DEF Due
    <3>3. At(Asleep)' = At(Asleep)
      BY <3>1, AtSame
    <3> QED
      BY <1>a, <3>1, <3>2, <3>3, DecIsMod DEF ThreadCounts
  <2>4. CASE MaybeStartEnough \/ MaybeStartRead \/ MaybeStartDecide \/ StartFails \/ EndCheck
    BY <1>c, <2>4 DEF MaybeStartEnough, MaybeStartRead, MaybeStartDecide, StartFails, EndCheck,
                      TypeOK, MainOK
  <2>5. CASE PollShift \/ PollEmpty \/ UnlinkNone
    BY <1>c, <2>5 DEF PollShift, PollEmpty, PollReturn, UnlinkNone
  <2>6. CASE PollHandle
    BY <1>c, <2>6 DEF PollHandle, BeginFinish, MaybeStart
  <2>7. CASE UnlinkMember
    BY <1>c, <2>7 DEF UnlinkMember, BeginFinish
  <2>8. CASE PollNext
    BY <1>c, <2>8 DEF PollNext, PollReturn, MaybeStart
  <2> QED
    BY <1>9, <2>1, <2>2, <2>3, <2>4, <2>5, <2>6, <2>7, <2>8 DEF Inside
<1>10. CASE PollBegin \/ CbReturn \/ UNCHANGED vars
  BY <1>c, <1>10 DEF PollBegin, CbReturn, InUser, MaybeStart, vars
<1> QED
  BY <1>1, <1>2, <1>3, <1>4, <1>5, <1>6, <1>7, <1>8, <1>9, <1>10 DEF Next, Worker, Clock

\* At first there is no thread.
LEMMA ThreadsInit == Init => ThreadCounts
<1> SUFFICES ASSUME Init PROVE ThreadCounts
  OBVIOUS
<1>1. Where(reqq, Quit) = {}
  BY DEF Init, EmptyQ, Where
<1>2. At(Active) = {} /\ At(Asleep) = {}
  BY DEF Init, At, Active, Asleep
<1>3. 0 % W = 0
  BY SmallMod, PoolAssumption DEF Counts
<1> QED
  BY <1>1, <1>2, <1>3, FS_EmptySet DEF Init, ThreadCounts, Due, Pills

\* Below W a remainder is the number itself.
LEMMA CountsFollow ==
  ASSUME Cardinality(Workers) < W, TypeOK, QueueSizes, ThreadCounts
  PROVE  CountsAgree
<1>1. SizesAgree
  <2>1. ASSUME NEW q, NEW S, Bounded(q, S)
        PROVE  UNION {{<<p, i>> : i \in DOMAIN q.qs[p]} : p \in Pri} = Cells(q, S)
    <3>1. \A p \in Pri : \A i \in DOMAIN q.qs[p] : q.qs[p][i] \in S
      BY <2>1 DEF Bounded
    <3> QED
      BY <3>1 DEF Cells
  <2> QED
    BY <2>1 DEF TypeOK, QueuesOK, QueueSizes, SizesAgree
<1>2. StartedCount
  <2>1. At(Active) = {w \in Workers : wpc[w] \notin {"dead", "free"}}
    BY DEF At, Active, TypeOK, WorkersOK, Places
  <2> QED
    BY <2>1 DEF ThreadCounts, Due, StartedCount
<1>3. IdleCount
  <2>1. At(Asleep) = {w \in Workers : wpc[w] \in {"wait", "timedwait", "woken"}}
    BY DEF At, Asleep
  <2>2. Cardinality(At(Asleep)) <= Cardinality(Workers) /\ Cardinality(Workers) \in Nat
    BY PoolAssumption, FS_Subset, FS_CardinalityType DEF At
  <2>3. Cardinality(At(Asleep)) \in Counts
    BY <2>2, AtFinite, PoolAssumption DEF Counts
  <2> QED
    BY <2>1, <2>3, SmallMod DEF ThreadCounts, IdleCount
<1> QED
  BY <1>1, <1>2, <1>3 DEF CountsAgree

\* The sizes and counts the pool decides by are those of its lists and its
\* threads, whatever the interleaving of the sections under reqlock, reslock
\* and wrklock; the slots are fewer than an unsigned int counts.
THEOREM CountsAgreeCorrect ==
  ASSUME Cardinality(Workers) < W
  PROVE  Spec => []CountsAgree
<1>1. TypeOK /\ QueueSizes /\ ThreadCounts /\ [Next]_vars => ThreadCounts'
  BY ThreadsStep
<1>2. PlaceInv /\ ThreadCounts => CountsAgree
  BY CountsFollow DEF PlaceInv
<1>3. PlaceInv => TypeOK /\ QueueSizes
  BY DEF PlaceInv
<1> QED
  BY <1>1, <1>2, <1>3, PlaceAlways, ThreadsInit, PTL DEF Spec

-----------------------------------------------------------------------------
(* Nothing is left behind.                                                 *)

\* A set of numbers has a least one.
LEMMA LeastNumber ==
  ASSUME NEW T, T \subseteq Nat, T # {}
  PROVE  \E m \in T : \A n \in T : m <= n
<1> DEFINE R == StrictSubsetOrdering(Nat)
           U == {0 .. n : n \in T}
<1>1. IsWellFoundedOn(R, FiniteSubsetsOf(Nat))
  BY FS_StrictSubsetOrderingWellFounded
<1>2. U \subseteq FiniteSubsetsOf(Nat)
  <2>1. ASSUME NEW n \in T PROVE 0 .. n \in FiniteSubsetsOf(Nat)
    BY FS_Interval DEF FiniteSubsetsOf
  <2> QED
    BY <2>1
<1>3. U # {}
  OBVIOUS
<1> HIDE DEF R, U
<1>4. PICK s \in U : \A t \in U : ~(<<t, s>> \in R)
  BY <1>1, <1>2, <1>3, WFMin
<1>5. PICK m \in T : s = 0 .. m
  BY DEF U
<1>6. ASSUME NEW n \in T, n < m PROVE FALSE
  <2>1. 0 .. n \in U /\ 0 .. n \subseteq 0 .. m /\ m \in 0 .. m /\ m \notin 0 .. n
    BY <1>6 DEF U
  <2>2. <<0 .. n, 0 .. m>> \in R
    BY <2>1 DEF R, StrictSubsetOrdering
  <2> QED
    BY <1>4, <1>5, <2>1, <2>2
<1> QED
  BY <1>6

\* No group is below itself: a rank decreases from a group to its members.
Ranked(rank) == \A g \in Groups : \A r \in kids[g] : rank[r] < rank[g]
Ranks == \E rank \in [Reqs -> Nat] : Ranked(rank)

\* What etp_cancel reaches is closed.
LEMMA UnderClosed ==
  ASSUME RequestsOK, NEW r \in Reqs
  PROVE  /\ r \in Under(r) /\ Under(r) \subseteq Reqs
         /\ \A g \in Groups : g \in Under(r) => kids[g] \subseteq Under(r)
<1>1. r \in Under(r) /\ Under(r) \subseteq Reqs
  BY DEF Under
<1>2. ASSUME NEW g \in Groups, g \in Under(r), NEW y \in kids[g] PROVE y \in Under(r)
  <2>1. y \in Reqs
    BY DEF RequestsOK
  <2>2. ASSUME NEW S \in SUBSET Reqs, r \in S, \A h \in S \cap Groups : kids[h] \subseteq S
        PROVE  y \in S
    BY <1>2, <2>2 DEF Under
  <2> QED
    BY <2>1, <2>2 DEF Under
<1> QED
  BY <1>1, <1>2

\* Groups stay without cycles: eio_grp_add puts nothing under itself.
LEMMA RanksStep == ASSUME TypeOK, Ranks, [Next]_vars PROVE Ranks'
<1>1. PICK rank \in [Reqs -> Nat] : Ranked(rank)
  BY DEF Ranks
<1>2. RequestsOK /\ kids \in [Groups -> SUBSET Reqs]
  BY DEF TypeOK, RequestsOK
<1>3. ASSUME \A g \in Groups : kids'[g] \subseteq kids[g] PROVE Ranks'
  BY <1>1, <1>3 DEF Ranks, Ranked
<1>4. ASSUME UNCHANGED kids PROVE Ranks'
  BY <1>3, <1>4
<1>5. ASSUME NEW g \in Groups, NEW r \in Reqs, GrpAdd(g, r) PROVE Ranks'
  <2>1. g \notin Under(r) /\ kids' = [kids EXCEPT ![g] = @ \cup {r}] /\ g \in Reqs
    BY <1>5 DEF GrpAdd, Reqs
  <2> DEFINE up == [x \in Reqs |-> IF x \in Under(r) THEN rank[x] ELSE rank[x] + rank[r] + 1]
  <2>2. up \in [Reqs -> Nat]
    BY <1>1
  <2>3. ASSUME NEW a \in Groups, NEW b \in kids'[a] PROVE up[b] < up[a]
    <3>1. a \in Reqs /\ b \in Reqs /\ rank[a] \in Nat /\ rank[b] \in Nat /\ rank[r] \in Nat
      BY <1>1, <1>2, <2>1, <2>3 DEF Reqs
    <3>2. CASE b \in kids[a]
      <4>1. rank[b] < rank[a] /\ (a \in Under(r) => b \in Under(r))
        BY <1>1, <1>2, <3>2, UnderClosed DEF Ranked
      <4> QED
        BY <3>1, <4>1
    <3>3. CASE b \notin kids[a]
      <4>1. a = g /\ b = r /\ r \in Under(r)
        BY <1>2, <2>1, <2>3, <3>3, UnderClosed
      <4> QED
        BY <2>1, <3>1, <4>1
    <3> QED
      BY <3>2, <3>3
  <2> QED
    BY <2>2, <2>3 DEF Ranks, Ranked
<1>6. CASE UnlinkMember
  <2> DEFINE r == chain[Len(chain)]
             g == grp[r]
  <2>1. kids' = [kids EXCEPT ![g] = @ \ {r}]
    BY <1>6 DEF UnlinkMember, Unlinked
  <2> HIDE DEF r, g
  <2> QED
    BY <1>2, <1>3, <2>1
<1>7. CASE Quiet
  BY <1>4, <1>7 DEF Quiet
<1>8. ASSUME NEW w \in Workers, Take(w) \/ Execute(w) \/ Post(w) PROVE Ranks'
  BY <1>4, <1>8 DEF Take, Execute, Post, reqVars
<1>9. ASSUME NEW r, Submit(r) \/ SubmitGroup(r) PROVE Ranks'
  BY <1>4, <1>9 DEF Submit, SubmitGroup
<1>10. CASE EndPush \/ CbReturn \/ PollShift \/ PollHandle \/ UnlinkNone \/ PollNext
  BY <1>4, <1>10 DEF EndPush, CbReturn, PollShift, PollHandle, UnlinkNone, PollNext, reqVars
<1> QED
  BY StepKinds, <1>5, <1>6, <1>7, <1>8, <1>9, <1>10 DEF Noisy

-----------------------------------------------------------------------------
\* What nreqs counts: the live requests eio_poll has not yet taken out of the
\* pool; a group put off was taken out when it was put off.
LiveReqs == {r \in Reqs : life[r] = "live"}
Counted == {r \in LiveReqs : /\ r \in Groups => ~delayed[r]
                             /\ Finishing(r) => mpc = "handle"}
LiveCount == IsFiniteSet(LiveReqs) /\ nreqs = Cardinality(Counted) % W

\* Finitely many requests are counted.
LEMMA CountedFinite ==
  ASSUME LiveCount
  PROVE  IsFiniteSet(Counted) /\ Cardinality(Counted) \in Nat
<1>1. IsFiniteSet(Counted)
  BY FS_Subset DEF LiveCount, Counted
<1> QED
  BY <1>1, FS_CardinalityType

\* nreqs follows the requests that are not put off or finished, modulo W.
LEMMA LiveCountStep == ASSUME PlaceInv, LiveCount, [Next]_vars PROVE LiveCount'
<1> USE DEF PlaceInv
<1>0. IsFiniteSet(Counted) /\ Cardinality(Counted) \in Nat
  BY CountedFinite
<1>a. ASSUME UNCHANGED nreqs, LiveReqs' \subseteq LiveReqs, Counted' = Counted PROVE LiveCount'
  BY <1>a, FS_Subset DEF LiveCount
<1>b. ASSUME UNCHANGED <<nreqs, chain, life, delayed>>, mpc' = "handle" <=> mpc = "handle"
      PROVE  LiveCount'
  <2>1. \A r : Finishing(r)' <=> Finishing(r)
    BY <1>b, SameChain
  <2>2. LiveReqs' = LiveReqs /\ Counted' = Counted
    BY <1>b, <2>1 DEF LiveReqs, Counted
  <2> QED
    BY <1>a, <1>b, <2>2
\* A new request is counted.
<1>c. ASSUME NEW x \in Reqs, life[x] = "new", life' = [life EXCEPT ![x] = "live"],
             UNCHANGED <<chain, delayed>>, nreqs' = Inc(nreqs), mpc = "user", mpc' # "handle"
      PROVE  LiveCount'
  <2>1. \A r : Finishing(r)' <=> Finishing(r)
    BY <1>c, SameChain
  <2>2. ~Finishing(x) /\ (x \in Groups => ~delayed[x])
    BY <1>c, FinishingLive DEF TreeOK, DelayOK
  <2>3. life \in [Reqs -> {"new", "live", "freed"}]
    BY DEF TypeOK, RequestsOK
  <2>4. LiveReqs' = LiveReqs \cup {x}
    BY <1>c, <2>3 DEF LiveReqs
  <2>5. x \notin Counted /\ Counted' = Counted \cup {x}
    BY <1>c, <2>1, <2>2, <2>3 DEF Counted, LiveReqs
  <2>6. IsFiniteSet(LiveReqs') /\ Cardinality(Counted') = Cardinality(Counted) + 1
    BY <1>0, <2>4, <2>5, FS_AddElement DEF LiveCount
  <2> QED
    BY <1>0, <1>c, <2>6, IncIsMod DEF LiveCount
\* The count under reqlock in eio_poll.
<1>d. ASSUME NEW x \in Counted, LiveReqs' = LiveReqs, Counted' = Counted \ {x},
             nreqs' = Dec(nreqs)
      PROVE  LiveCount'
  <2>1. Cardinality(Counted') = Cardinality(Counted) - 1
    BY <1>0, <1>d, FS_RemoveElement
  <2> QED
    BY <1>0, <1>d, <2>1, DecIsMod DEF LiveCount
<1>1. CASE Quiet
  BY <1>b, <1>1 DEF Quiet, Busy
<1>2. ASSUME NEW w \in Workers, Take(w) \/ Execute(w) \/ Post(w) PROVE LiveCount'
  BY <1>2, <1>b DEF Take, Execute, Post, poolVars, mainVars, reqVars
<1>3. ASSUME NEW r \in Plain, Submit(r) PROVE LiveCount'
  BY <1>3, <1>c DEF Submit, New, InUser, MaybeStart, Reqs
<1>4. ASSUME NEW g \in Groups, SubmitGroup(g) PROVE LiveCount'
  BY <1>4, <1>c DEF SubmitGroup, New, InUser, mainVars, Reqs
<1>5. ASSUME NEW g \in Groups, NEW r \in Reqs, GrpAdd(g, r) PROVE LiveCount'
  BY <1>5, <1>b DEF GrpAdd, poolVars, mainVars
<1>6. CASE EndPush \/ CbReturn \/ UnlinkNone
  BY <1>6, <1>b DEF EndPush, CbReturn, InUser, UnlinkNone, poolVars, reqVars
<1>7. CASE PollShift
  <2>1. PICK p \in Pri : IsTop(resq, p) /\ chain' = <<Head(resq.qs[p])>>
    BY <1>7 DEF PollShift
  <2> DEFINE x == Head(resq.qs[p])
  <2>2. x \in Reqs /\ life[x] = "live" /\ ~Finishing(x) /\ ~PutAside(x)
    BY <2>1, ResultPlace DEF IsTop
  <2>3. chain = <<>> /\ mpc' = "handle" /\ UNCHANGED <<life, delayed, nreqs>>
    BY <1>7 DEF PollShift, ChainOK, Busy, TypeOK, MainOK, reqVars
  <2>4. \A r : ~Finishing(r)
    BY <2>3 DEF Finishing
  <2>5. LiveReqs' = LiveReqs /\ Counted' = Counted
    BY <2>3, <2>4 DEF LiveReqs, Counted
  <2> QED
    BY <1>a, <2>3, <2>5
<1>8. CASE PollHandle
  <2> DEFINE x == chain[1]
  <2>1. Len(chain) = 1 /\ mpc = "handle" /\ UNCHANGED life /\ nreqs' = Dec(nreqs)
    BY <1>8 DEF PollHandle, ChainOK
  <2>2. x \in Reqs /\ Finishing(x) /\ life[x] = "live" /\ (x \in Groups => ~delayed[x])
    BY <2>1, TopFrame, FinishingLive DEF ChainOK, Busy
  <2>3. \A r : Finishing(r) <=> r = x
    BY <2>1 DEF Finishing
  <2>4. x \in Counted /\ LiveReqs' = LiveReqs
    BY <2>1, <2>2 DEF LiveReqs, Counted
  <2>5. CASE PutOff(x)
    <3>1. delayed' = [delayed EXCEPT ![x] = TRUE] /\ chain' = <<>> /\ x \in Groups
      BY <1>8, <2>5 DEF PollHandle, PutOff
    <3>2. \A r : ~Finishing(r)'
      BY <3>1 DEF Finishing
    <3>3. delayed \in [Groups -> BOOLEAN]
      BY DEF TypeOK, RequestsOK
    <3> HIDE DEF x
    <3>4. Counted' = Counted \ {x}
      BY <2>1, <2>3, <2>4, <3>1, <3>2, <3>3 DEF Counted
    <3> QED
      BY <1>d, <2>1, <2>4, <3>4
  <2>6. CASE ~PutOff(x)
    <3>1. mpc' # "handle" /\ UNCHANGED <<chain, delayed>>
      BY <1>8, <2>6 DEF PollHandle, BeginFinish
    <3>2. \A r : Finishing(r)' <=> r = x
      BY <2>3, <3>1, SameChain
    <3> HIDE DEF x
    <3>3. Counted' = Counted \ {x}
      BY <2>1, <2>3, <2>4, <3>1, <3>2 DEF Counted
    <3> QED
      BY <1>d, <2>1, <2>4, <3>3
  <2> QED
    BY <2>5, <2>6
<1>9. CASE UnlinkMember
  <2> DEFINE g == grp[chain[Len(chain)]]
  <2>1. /\ mpc = "unlink" /\ mpc' # "handle" /\ chain # <<>> /\ UNCHANGED <<nreqs, life, delayed>>
        /\ g # None
        /\ IF LastOfDelayed(g) THEN chain' = Append(chain, g) ELSE UNCHANGED chain
    BY <1>9 DEF UnlinkMember, BeginFinish, poolVars, TypeOK, MainOK
  <2>2. CASE ~LastOfDelayed(g)
    BY <1>b, <2>1, <2>2
  <2>3. CASE LastOfDelayed(g)
    <3>1. g \in Groups /\ g \in Reqs /\ delayed[g]
      BY <2>1, <2>3, TopFrame DEF TypeOK, RequestsOK, Reqs, LastOfDelayed
    <3> HIDE DEF g
    <3>2. \A r : Finishing(r)' <=> Finishing(r) \/ r = g
      BY <2>1, <2>3, <3>1, AppendFinishing
    <3>3. LiveReqs' = LiveReqs /\ Counted' = Counted
      BY <2>1, <3>1, <3>2 DEF LiveReqs, Counted
    <3> QED
      BY <1>a, <2>1, <3>3
  <2> QED
    BY <2>2, <2>3
<1>10. CASE PollNext
  <2>1. /\ life' = [r \in Reqs |-> IF Finishing(r) THEN "freed" ELSE life[r]]
        /\ chain' = <<>> /\ mpc = "destroy" /\ mpc' # "handle" /\ UNCHANGED <<nreqs, delayed>>
    BY <1>10 DEF PollNext, PollReturn, MaybeStart, poolVars
  <2>2. \A r : ~Finishing(r)'
    BY <2>1 DEF Finishing
  <2>3. LiveReqs' \subseteq LiveReqs /\ Counted' = Counted
    BY <2>1, <2>2 DEF LiveReqs, Counted
  <2> QED
    BY <1>a, <2>1, <2>3
<1> QED
  BY StepKinds, <1>1, <1>2, <1>3, <1>4, <1>5, <1>6, <1>7, <1>8, <1>9, <1>10 DEF Noisy

\* At first no request is counted.
LEMMA LiveInit == Init => LiveCount /\ Ranks
<1> SUFFICES ASSUME Init PROVE LiveCount /\ Ranks
  OBVIOUS
<1>1. LiveReqs = {} /\ Counted = {}
  BY DEF Init, LiveReqs, Counted
<1>2. 0 % W = 0
  BY SmallMod, PoolAssumption DEF Counts
<1>3. LiveCount
  BY <1>1, <1>2, FS_EmptySet DEF Init, LiveCount
<1>4. [r \in Reqs |-> 0] \in [Reqs -> Nat] /\ Ranked([r \in Reqs |-> 0])
  BY DEF Init, Ranked
<1> QED
  BY <1>3, <1>4 DEF Ranks

\* A live request is counted, or a group put off, which has a live member of a
\* smaller rank: with nothing counted nothing is live.
LEMMA NoneCounted ==
  ASSUME PlaceInv, LiveCount, Ranks, Cardinality(LiveReqs) < W
  PROVE  LeavesNothing
<1> USE DEF PlaceInv
<1>1. GroupSize
  BY DEF GroupSize, TreeOK, SizeOK
<1>2. ASSUME InUser, ctx = "app", nreqs = 0, LiveReqs # {} PROVE FALSE
  <2>1. Counted = {}
    <3>1. Cardinality(Counted) <= Cardinality(LiveReqs) /\ Cardinality(LiveReqs) \in Nat
      BY FS_Subset, FS_CardinalityType DEF Counted, LiveCount
    <3>2. Cardinality(Counted) \in Counts
      BY <3>1, CountedFinite, PoolAssumption DEF Counts
    <3>3. Cardinality(Counted) = 0
      BY <1>2, <3>2, SmallMod DEF LiveCount
    <3> QED
      BY <3>3, CountedFinite, FS_EmptySet
  <2>2. \A r : ~Finishing(r) /\ ~Gone(r)
    BY <1>2 DEF InUser, ChainOK, Busy, Finishing, Gone
  <2>3. PICK rank \in [Reqs -> Nat] : Ranked(rank)
    BY DEF Ranks
  <2> DEFINE T == {rank[r] : r \in LiveReqs}
  <2>4. T \subseteq Nat /\ T # {}
    BY <1>2, <2>3 DEF LiveReqs
  <2>5. PICK m \in T : \A n \in T : m <= n
    BY <2>4, LeastNumber
  <2>6. PICK g \in LiveReqs : m = rank[g]
    BY <2>5
  <2>7. g \in Groups /\ delayed[g]
    BY <2>1, <2>2, <2>6 DEF Counted
  <2>8. PICK r \in kids[g] : TRUE
    BY <2>2, <2>6, <2>7 DEF TreeOK, DelayOK, LiveReqs
  <2>9. r \in LiveReqs /\ rank[r] < rank[g]
    BY <2>3, <2>7, <2>8 DEF Ranked, TypeOK, RequestsOK, TreeOK, KidsOK, LiveReqs
  <2>10. rank[r] \in T /\ rank[r] \in Nat /\ rank[g] \in Nat
    BY <2>3, <2>6, <2>9 DEF LiveReqs
  <2> QED
    BY <2>5, <2>6, <2>9, <2>10
<1>3. NoneLeft
  BY <1>2 DEF NoneLeft, LiveReqs
<1> QED
  BY <1>1, <1>3 DEF LeavesNothing

\* When the event loop finds eio_nreqs() = 0 and leaves, no request is in
\* flight and no group put off, however deep groups are nested, as long as
\* fewer requests are live than an unsigned int counts; and the size of a group
\* is always the length of its list.
THEOREM LeavesNothingCorrect ==
  Spec => [](GroupSize /\ (Cardinality(LiveReqs) < W => LeavesNothing))
<1>1. PlaceInv /\ LiveCount /\ Ranks /\ [Next]_vars => LiveCount' /\ Ranks'
  BY LiveCountStep, RanksStep DEF PlaceInv
<1>2. PlaceInv /\ LiveCount /\ Ranks
        => GroupSize /\ (Cardinality(LiveReqs) < W => LeavesNothing)
  BY NoneCounted DEF PlaceInv, TreeOK, SizeOK, GroupSize
<1> QED
  BY <1>1, <1>2, PlaceAlways, LiveInit, PTL DEF Spec

-----------------------------------------------------------------------------
(* Priorities.                                                             *)

\* What the lists hold after a push and after a pop.
LEMMA PushLists ==
  ASSUME NEW S, NEW q, Bounded(q, S), NEW x \in S, NEW p \in Pri,
         NEW h \in Pri, NEW i \in DOMAIN Push(q, x, p).qs[h]
  PROVE  \/ h = p /\ Push(q, x, p).qs[h][i] = x
         \/ i \in DOMAIN q.qs[h] /\ Push(q, x, p).qs[h][i] = q.qs[h][i]
<1> DEFINE s == q.qs[p]
<1>1. s \in Seq(S) /\ Len(s) \in Nat /\ DOMAIN s = 1 .. Len(s)
  BY LenProperties DEF Bounded
<1>2. CASE h = p
  <2>1. Push(q, x, p).qs[h] = Append(s, x)
    BY <1>2 DEF Push, Bounded
  <2>2. /\ DOMAIN Append(s, x) = 1 .. Len(s) + 1
        /\ \A j \in 1 .. Len(s) : Append(s, x)[j] = s[j]
        /\ Append(s, x)[Len(s) + 1] = x
    BY <1>1, AppendProperties
  <2> DEFINE n == Len(s)
  <2>3. i \in 1 .. n + 1 /\ n \in Nat
    BY <1>1, <2>1, <2>2
  <2> HIDE DEF n
  <2>4. i \in 1 .. n \/ i = n + 1
    BY <2>3
  <2> QED
    BY <1>1, <1>2, <2>1, <2>2, <2>4 DEF n
<1>3. CASE h # p
  BY <1>3 DEF Push, Bounded
<1> QED
  BY <1>2, <1>3

\* What a list holds after a shift it held before.
LEMMA PopLists ==
  ASSUME NEW S, NEW q, Bounded(q, S), NEW p \in Pri, q.qs[p] # <<>>,
         NEW h \in Pri, NEW i \in DOMAIN Pop(q, p).qs[h]
  PROVE  \E j \in DOMAIN q.qs[h] : Pop(q, p).qs[h][i] = q.qs[h][j]
<1> DEFINE s == q.qs[p]
           n == Len(s)
<1>1. s \in Seq(S) /\ n \in Nat \ {0} /\ DOMAIN s = 1 .. n
  BY EmptySeq, LenProperties DEF Bounded
<1>2. CASE h = p
  <2>1. Pop(q, p).qs[h] = Tail(s)
    BY <1>2 DEF Pop, Bounded
  <2>2. Tail(s) \in Seq(S) /\ Len(Tail(s)) = n - 1 /\ \A j \in 1 .. Len(Tail(s)) : Tail(s)[j] = s[j + 1]
    BY <1>1, HeadTailProperties
  <2>3. DOMAIN Tail(s) = 1 .. n - 1
    BY <2>2, LenProperties
  <2>4. i \in 1 .. n - 1 /\ Tail(s)[i] = s[i + 1]
    BY <2>1, <2>2, <2>3
  <2> HIDE DEF n
  <2>5. i + 1 \in 1 .. n
    BY <1>1, <2>4
  <2> QED
    BY <1>1, <1>2, <2>1, <2>4, <2>5
<1>3. CASE h # p
  BY <1>3 DEF Pop, Bounded
<1> QED
  BY <1>2, <1>3

\* The head of a list is in it.
LEMMA HeadIn ==
  ASSUME NEW S, NEW q, Bounded(q, S), NEW p \in Pri, q.qs[p] # <<>>
  PROVE  1 \in DOMAIN q.qs[p] /\ q.qs[p][1] = Head(q.qs[p]) /\ Head(q.qs[p]) \in S
<1>1. q.qs[p] \in Seq(S)
  BY DEF Bounded
<1> QED
  BY <1>1, HeadTailProperties, EmptySeq, LenProperties

\* Item x is in one of the lists of q.
In(q, x) == \E p \in Pri : \E i \in DOMAIN q.qs[p] : q.qs[p][i] = x

\* In the queue is in one of its places.
LEMMA InWhere == ASSUME NEW q, NEW x PROVE Where(q, x) # {} <=> In(q, x)
<1>1. ASSUME NEW c \in Where(q, x) PROVE In(q, x)
  <2>1. c \in Cells(q, {x})
    BY WhereIsCells
  <2>2. \E p \in Pri : \E i \in DOMAIN q.qs[p] : q.qs[p][i] \in {x} /\ c = <<p, i>>
    BY <2>1, CellsIn
  <2> QED
    BY <2>2 DEF In
<1>2. ASSUME NEW p \in Pri, NEW i \in DOMAIN q.qs[p], q.qs[p][i] = x PROVE Where(q, x) # {}
  <2>1. <<p, i>> \in Cells(q, {x})
    BY <1>2, CellsIn
  <2> QED
    BY <2>1, WhereIsCells
<1> QED
  BY <1>1, <1>2 DEF In

\* After a push the queue holds what it held and what was pushed.
LEMMA PushIn ==
  ASSUME NEW S, NEW q, Bounded(q, S), NEW x \in S, NEW p \in Pri, NEW y,
         In(Push(q, x, p), y)
  PROVE  In(q, y) \/ y = x
<1>1. PICK h \in Pri : \E i \in DOMAIN Push(q, x, p).qs[h] : Push(q, x, p).qs[h][i] = y
  BY DEF In
<1> QED
  BY <1>1, PushLists DEF In

\* After a shift the queue holds nothing it did not hold.
LEMMA PopIn ==
  ASSUME NEW S, NEW q, Bounded(q, S), NEW p \in Pri, q.qs[p] # <<>>, NEW y
  PROVE  (In(Pop(q, p), y) => In(q, y)) /\ In(q, Head(q.qs[p]))
<1>1. ASSUME In(Pop(q, p), y) PROVE In(q, y)
  <2>0. PICK h \in Pri : \E i \in DOMAIN Pop(q, p).qs[h] : Pop(q, p).qs[h][i] = y
    BY <1>1 DEF In
  <2>1. PICK i \in DOMAIN Pop(q, p).qs[h] : Pop(q, p).qs[h][i] = y
    BY <2>0
  <2>2. \E j \in DOMAIN q.qs[h] : Pop(q, p).qs[h][i] = q.qs[h][j]
    BY <2>1, PopLists
  <2> QED
    BY <2>1, <2>2 DEF In
<1>2. In(q, Head(q.qs[p]))
  BY HeadIn DEF In
<1> QED
  BY <1>1, <1>2

-----------------------------------------------------------------------------
\* OnePlace, request by request.
LEMMA NowhereElse ==
  ASSUME PlaceInv, NEW r \in Reqs
  PROVE  /\ In(reqq, r) \/ In(resq, r) \/ Hands(r) # {} \/ Finishing(r) => life[r] = "live"
         /\ Hands(r) # {} => ~In(reqq, r) /\ ~In(resq, r) /\ ~Finishing(r)
         /\ Hands(r) # {} => \A v, w \in Hands(r) : v = w
<1>1. /\ Cardinality(Where(reqq, r)) + Cardinality(Where(resq, r))
           + Cardinality(Hands(r)) + (IF Framed(r) THEN 1 ELSE 0)
         = IF life[r] = "live" THEN 1 ELSE 0
      /\ Cardinality(Where(reqq, r)) \in Nat /\ Cardinality(Where(resq, r)) \in Nat
      /\ Cardinality(Hands(r)) \in Nat
  BY WhereFinite, PlaceSum DEF PlaceInv
<1>2. /\ In(reqq, r) <=> Cardinality(Where(reqq, r)) # 0
      /\ In(resq, r) <=> Cardinality(Where(resq, r)) # 0
      /\ Hands(r) # {} <=> Cardinality(Hands(r)) # 0
  BY WhereFinite, HandsFinite, InWhere, FS_EmptySet DEF PlaceInv
<1>3. Finishing(r) => Framed(r)
  BY DEF Framed
<1>4. ASSUME NEW v \in Hands(r), NEW w \in Hands(r), v # w PROVE FALSE
  <2>1. IsFiniteSet(Hands(r)) /\ Cardinality(Hands(r) \ {v}) = Cardinality(Hands(r)) - 1
    BY HandsFinite, FS_RemoveElement
  <2>2. IsFiniteSet(Hands(r) \ {v}) /\ Hands(r) \ {v} # {}
    BY <1>4, <2>1, FS_RemoveElement
  <2>3. Cardinality(Hands(r) \ {v}) \in Nat /\ Cardinality(Hands(r) \ {v}) # 0
    BY <2>2, FS_EmptySet, FS_CardinalityType
  <2> QED
    BY <1>1, <2>1, <2>3
<1> QED
  BY <1>1, <1>2, <1>3, <1>4

-----------------------------------------------------------------------------
(* Priorities.                                                             *)

\* A request is in the list of its priority.
Queued == \A p \in Pri : \A i \in DOMAIN reqq.qs[p] :
            reqq.qs[p][i] \in Plain => pri[reqq.qs[p][i]] = p

\* A request keeps the priority it is queued under.
LEMMA QueuedStep == ASSUME PlaceInv, Queued, [Next]_vars PROVE Queued'
<1>0. Bounded(reqq, Items)
  BY DEF PlaceInv, TypeOK, QueuesOK
<1>a. ASSUME UNCHANGED <<reqq, pri>> PROVE Queued'
  BY <1>a DEF Queued
<1>1. CASE Quiet
  BY <1>1, <1>a DEF Quiet
<1>2. ASSUME NEW w \in Workers, Take(w) PROVE Queued'
  <2>1. PICK p \in Pri : IsTop(reqq, p) /\ reqq' = Pop(reqq, p)
    BY <1>2 DEF Take
  <2>2. UNCHANGED pri /\ reqq.qs[p] # <<>>
    BY <1>2, <2>1 DEF Take, reqVars, IsTop
  <2>3. ASSUME NEW h \in Pri, NEW i \in DOMAIN reqq'.qs[h]
        PROVE  \E j \in DOMAIN reqq.qs[h] : reqq'.qs[h][i] = reqq.qs[h][j]
    BY <1>0, <2>1, <2>2, <2>3, PopLists
  <2> QED
    BY <2>2, <2>3 DEF Queued
<1>3. ASSUME NEW x \in Items, NEW p \in Pri, reqq' = Push(reqq, x, p),
             x \in Plain => pri'[x] = p,
             \A r \in Plain : In(reqq, r) => pri'[r] = pri[r]
      PROVE  Queued'
  <2>1. ASSUME NEW h \in Pri, NEW i \in DOMAIN reqq'.qs[h], reqq'.qs[h][i] \in Plain
        PROVE  pri'[reqq'.qs[h][i]] = h
    <3>1. \/ h = p /\ reqq'.qs[h][i] = x
          \/ i \in DOMAIN reqq.qs[h] /\ reqq'.qs[h][i] = reqq.qs[h][i]
      BY <1>0, <1>3, PushLists
    <3>2. CASE i \in DOMAIN reqq.qs[h] /\ reqq'.qs[h][i] = reqq.qs[h][i]
      BY <1>3, <2>1, <3>2 DEF Queued, In
    <3> QED
      BY <1>3, <2>1, <3>1, <3>2
  <2> QED
    BY <2>1 DEF Queued
<1>4. ASSUME NEW r \in Plain, Submit(r) PROVE Queued'
  <2>1. PICK p \in RawPri : reqq' = Push(reqq, r, Clamp(p)) /\ pri' = [pri EXCEPT ![r] = Clamp(p)]
    BY <1>4 DEF Submit
  <2>2. Clamp(p) \in Pri /\ r \in Items /\ r \in Reqs
    BY ClampRange, PoolAssumption DEF Items, Reqs
  <2>3. ~In(reqq, r)
    BY <1>4, <2>2, NowhereElse DEF Submit, New
  <2>4. pri \in [Reqs -> Pri]
    BY DEF PlaceInv, TypeOK, RequestsOK
  <2>5. pri'[r] = Clamp(p) /\ \A x \in Plain : In(reqq, x) => pri'[x] = pri[x]
    BY <2>1, <2>2, <2>3, <2>4 DEF Reqs
  <2> QED
    BY <1>3, <2>1, <2>2, <2>5
<1>5. ASSUME NEW g \in Groups, SubmitGroup(g) PROVE Queued'
  <2>1. pri' = [pri EXCEPT ![g] = TopPri] /\ reqq' = reqq /\ pri \in [Reqs -> Pri]
    BY <1>5 DEF SubmitGroup, PlaceInv, TypeOK, RequestsOK
  <2>2. \A r \in Plain : pri'[r] = pri[r]
    BY <2>1, PoolAssumption DEF Reqs
  <2> QED
    BY <2>1, <2>2 DEF Queued
<1>6. CASE EndPush
  <2>1. /\ reqq' = Push(reqq, Quit, TopPri) /\ UNCHANGED pri /\ TopPri \in Pri
        /\ Quit \in Items /\ Quit \notin Plain
    BY <1>6, TopPriIsPri, PoolAssumption DEF EndPush, reqVars, Items
  <2> QED
    BY <1>3, <2>1
<1>7. ASSUME NEW w \in Workers, Execute(w) \/ Post(w) PROVE Queued'
  BY <1>7, <1>a DEF Execute, Post, poolVars, reqVars
<1>8. ASSUME NEW g \in Groups, NEW r \in Reqs, GrpAdd(g, r) PROVE Queued'
  BY <1>8, <1>a DEF GrpAdd, poolVars
<1>9. CASE CbReturn \/ PollShift \/ PollHandle \/ UnlinkMember \/ UnlinkNone \/ PollNext
  BY <1>9, <1>a DEF CbReturn, PollShift, PollHandle, UnlinkMember, UnlinkNone, PollNext,
                    poolVars, reqVars
<1> QED
  BY StepKinds, <1>1, <1>2, <1>4, <1>5, <1>6, <1>7, <1>8, <1>9 DEF Noisy, PlaceInv

\* The list on top holds what has the highest priority of all.
LEMMA TakeHighest ==
  ASSUME PlaceInv, Queued, NEW w \in Workers, Take(w), cur'[w] # None,
         NEW r \in Plain, Where(reqq, r) # {}
  PROVE  pri[r] <= pri[cur'[w]]
<1>0. Bounded(reqq, Items) /\ cur \in [Workers -> Plain \cup {None}]
  BY DEF PlaceInv, TypeOK, QueuesOK, WorkersOK
<1>1. PICK p \in Pri :
        /\ IsTop(reqq, p)
        /\ cur' = [cur EXCEPT ![w] = IF Head(reqq.qs[p]) = Quit THEN None ELSE Head(reqq.qs[p])]
  BY DEF Take
<1> DEFINE x == Head(reqq.qs[p])
<1>2. 1 \in DOMAIN reqq.qs[p] /\ reqq.qs[p][1] = x /\ x \in Items
  BY <1>0, <1>1, HeadIn DEF IsTop
<1>3. cur'[w] = x /\ x \in Plain
  BY <1>0, <1>1, <1>2 DEF Items
<1>4. pri[x] = p
  BY <1>2, <1>3 DEF Queued
<1>5. PICK h \in Pri : \E i \in DOMAIN reqq.qs[h] : reqq.qs[h][i] = r
  BY InWhere DEF In
<1>6. pri[r] = h
  BY <1>5 DEF Queued
<1>7. reqq.qs[h] # <<>>
  BY <1>5
<1>8. h <= p
  BY <1>1, <1>7, PoolAssumption DEF IsTop, Pri, TopPri
<1> QED
  BY <1>3, <1>4, <1>6, <1>8

HighestStep ==
  \A w \in Workers :
    (cur'[w] # cur[w] /\ cur'[w] # None) =>
      \A r \in Plain : Where(reqq, r) # {} => pri[r] <= pri[cur'[w]]

\* No step takes a request past one of a higher priority.
LEMMA TakesStep == PlaceInv /\ Queued /\ [Next]_vars => [HighestStep]_vars
<1> SUFFICES ASSUME PlaceInv, Queued, [Next]_vars PROVE HighestStep
  OBVIOUS
<1>0. WorkersOK
  BY DEF PlaceInv, TypeOK
<1>a. ASSUME UNCHANGED cur PROVE HighestStep
  BY <1>a DEF HighestStep
<1>1. CASE Quiet
  BY <1>1, <1>a DEF Quiet
<1>2. ASSUME NEW w \in Workers, Take(w) PROVE HighestStep
  <2>1. \A v \in Workers : v # w => cur'[v] = cur[v]
    BY <1>0, <1>2 DEF Take, WorkersOK
  <2> QED
    BY <1>2, <2>1, TakeHighest DEF HighestStep
<1>3. ASSUME NEW w \in Workers, Post(w) PROVE HighestStep
  BY <1>0, <1>3 DEF Post, WorkersOK, HighestStep
<1>4. ASSUME NEW w \in Workers, Execute(w) PROVE HighestStep
  BY <1>4, <1>a DEF Execute
<1>5. ASSUME NEW r, Submit(r) \/ SubmitGroup(r) \/ \E g \in Groups : GrpAdd(g, r)
      PROVE  HighestStep
  BY <1>5, <1>a DEF Submit, SubmitGroup, GrpAdd, workVars
<1>6. CASE EndPush \/ CbReturn \/ PollShift \/ PollHandle \/ UnlinkMember \/ UnlinkNone \/ PollNext
  BY <1>6, <1>a DEF EndPush, CbReturn, PollShift, PollHandle, UnlinkMember, UnlinkNone, PollNext,
                    workVars
<1> QED
  BY StepKinds, <1>1, <1>2, <1>3, <1>4, <1>5, <1>6 DEF Noisy, PlaceInv

\* A worker never takes a request while one of a higher priority waits, for any
\* range of priorities and any values callers pass.
THEOREM TakesHighestCorrect == Spec => TakesHighest
<1>1. Init => Queued
  BY DEF Init, EmptyQ, Queued
<1>2. PlaceInv /\ Queued /\ [Next]_vars => Queued'
  BY QueuedStep
<1>3. PlaceInv /\ Queued /\ [Next]_vars => [HighestStep]_vars
  BY TakesStep
<1>4. Spec => [][HighestStep]_vars
  BY <1>1, <1>2, <1>3, PlaceAlways, PTL DEF Spec
<1> QED
  BY <1>4 DEF TakesHighest, HighestStep

-----------------------------------------------------------------------------
(* Cancellation.                                                           *)

\* The steps that cancel.
LEMMA CancelKinds ==
  ASSUME [Next]_vars
  PROVE  \/ UNCHANGED cancelled
         \/ \E r \in Reqs : Cancel(r)
         \/ \E g \in Groups : GrpCancel(g)
<1> USE DEF vars, reqVars
<1>1. ASSUME NEW w \in Workers, Worker(w) \/ Clock(w) PROVE UNCHANGED cancelled
  BY <1>1 DEF Worker, Clock, Take, GiveUp, Wait, Retire, Free, Execute, Post, Timeout, Spurious
<1>2. ASSUME NEW r, Submit(r) \/ SubmitGroup(r) \/ \E g \in Groups : GrpAdd(g, r)
      PROVE  UNCHANGED cancelled
  BY <1>2 DEF Submit, SubmitGroup, GrpAdd
<1>3. ASSUME NEW n, SetMinParallel(n) \/ SetMaxParallel(n) \/ SetMaxIdle(n) \/ SetMaxPollReqs(n)
      PROVE  UNCHANGED cancelled
  BY <1>3 DEF SetMinParallel, SetMaxParallel, SetMaxIdle, SetMaxPollReqs
<1>4. CASE Inside \/ PollBegin \/ CbReturn
  <2>1. CASE MaybeStartEnough \/ MaybeStartRead \/ MaybeStartDecide \/ StartThread \/ StartFails
    BY <2>1 DEF MaybeStartEnough, MaybeStartRead, MaybeStartDecide, StartThread, StartFails
  <2>2. CASE EndCheck \/ EndPush \/ EndDec \/ PollShift \/ PollEmpty \/ PollHandle
    BY <2>2 DEF EndCheck, EndPush, EndDec, PollShift, PollEmpty, PollHandle
  <2>3. CASE UnlinkMember \/ UnlinkNone \/ PollNext \/ PollBegin \/ CbReturn
    BY <2>3 DEF UnlinkMember, UnlinkNone, PollNext, PollBegin, CbReturn
  <2> QED
    BY <1>4, <2>1, <2>2, <2>3 DEF Inside
<1> QED
  BY <1>1, <1>2, <1>3, <1>4 DEF Next, User

\* What eio_cancel and eio_grp_cancel reach is closed below groups.
LEMMA CancelClosed ==
  ASSUME RequestsOK, (\E r \in Reqs : Cancel(r)) \/ (\E g \in Groups : GrpCancel(g))
  PROVE  \E S \in SUBSET Reqs :
           /\ CancelSet(S)
           /\ \A g \in Groups : g \in S => kids[g] \subseteq S
           /\ (\E r \in Reqs : life[r] = "live" /\ S = Under(r))
              \/ (\E g \in Groups : life[g] = "live" /\ S = UNION {Under(r) : r \in kids[g]})
<1>1. ASSUME NEW r \in Reqs, Cancel(r)
      PROVE  /\ Under(r) \in SUBSET Reqs /\ CancelSet(Under(r)) /\ life[r] = "live"
             /\ \A g \in Groups : g \in Under(r) => kids[g] \subseteq Under(r)
  BY <1>1, UnderClosed DEF Cancel
<1>2. ASSUME NEW h \in Groups, GrpCancel(h)
      PROVE  LET S == UNION {Under(r) : r \in kids[h]}
             IN  /\ S \in SUBSET Reqs /\ CancelSet(S) /\ life[h] = "live"
                 /\ \A g \in Groups : g \in S => kids[g] \subseteq S
  <2> DEFINE S == UNION {Under(r) : r \in kids[h]}
  <2>1. kids[h] \subseteq Reqs
    BY DEF RequestsOK
  <2>2. S \subseteq Reqs
    BY <2>1, UnderClosed
  <2>3. ASSUME NEW g \in Groups, g \in S PROVE kids[g] \subseteq S
    <3>1. PICK r \in kids[h] : g \in Under(r)
      BY <2>3
    <3>2. kids[g] \subseteq Under(r)
      BY <2>1, <3>1, UnderClosed
    <3> QED
      BY <3>1, <3>2
  <2> QED
    BY <1>2, <2>2, <2>3 DEF GrpCancel
<1> QED
  BY <1>1, <1>2

CancelStep ==
  \A g \in Groups : (cancelled'[g] /\ ~cancelled[g]) => \A r \in kids[g] : cancelled'[r]

\* A step that cancels a group cancels its members.
LEMMA CancelsStep == TypeOK /\ [Next]_vars => [CancelStep]_vars
<1> SUFFICES ASSUME TypeOK, [Next]_vars PROVE CancelStep
  OBVIOUS
<1>1. CASE UNCHANGED cancelled
  BY <1>1 DEF CancelStep
<1>2. CASE (\E r \in Reqs : Cancel(r)) \/ (\E g \in Groups : GrpCancel(g))
  <2>1. PICK S \in SUBSET Reqs : CancelSet(S) /\ \A g \in Groups : g \in S => kids[g] \subseteq S
    BY <1>2, CancelClosed DEF TypeOK
  <2>2. cancelled' = [x \in Reqs |-> cancelled[x] \/ x \in S] /\ Groups \subseteq Reqs
    BY <2>1 DEF CancelSet, Reqs
  <2> QED
    BY <2>1, <2>2 DEF CancelStep
<1> QED
  BY <1>1, <1>2, CancelKinds

\* Cancelling a group cancels its members in the same step, at any depth.
THEOREM CancelReachesAllCorrect == Spec => CancelReachesAll
<1>1. Spec => [][CancelStep]_vars
  BY TypeInit, TypeStep, CancelsStep, PTL DEF Spec
<1> QED
  BY <1>1 DEF CancelReachesAll, CancelStep

-----------------------------------------------------------------------------
(* The contract of eio.h.                                                  *)

\* A request has a result exactly when its execution is behind it.
Performed ==
  /\ \A r \in Reqs : life[r] = "new" => result[r] = "none" /\ called[r] = 0
  /\ \A r \in Plain : In(reqq, r) => result[r] = "none"
  /\ \A w \in Workers : wpc[w] = "exec" => result[cur[w]] = "none"
  /\ \A w \in Workers : wpc[w] = "post" => result[cur[w]] # "none"
  /\ \A r \in Plain : In(resq, r) \/ Finishing(r) => result[r] # "none"

Ended(r) == life[r] = "freed" \/ (Finishing(r) /\ mpc # "handle")
Settled(r) == called[r] = 1 \/ cancelled[r]

\* The callback runs when eio_finish begins, and only then.
Told ==
  /\ \A r \in Reqs : called[r] # 0 => Ended(r)
  /\ \A r \in Reqs : Ended(r) => Settled(r)

\* Only eio_execute gives a request its result.
LEMMA PerformedStep == ASSUME PlaceInv, Performed, [Next]_vars PROVE Performed'
<1> USE DEF PlaceInv
<1>0. Bounded(reqq, Items) /\ Bounded(resq, Reqs) /\ WorkersOK /\ RequestsOK
  BY DEF TypeOK, QueuesOK
<1>a. ASSUME \A r \in Reqs : life'[r] = "new" => life[r] = "new",
             UNCHANGED result,
             \A r \in Reqs : life'[r] = "new" => called'[r] = called[r],
             \A r \in Plain : In(reqq', r) => In(reqq, r) \/ result[r] = "none",
             \A r \in Plain : In(resq', r) \/ Finishing(r)' =>
                                In(resq, r) \/ Finishing(r) \/ result[r] # "none",
             \A w \in Workers : wpc'[w] = "exec" => result[cur'[w]] = "none",
             \A w \in Workers : wpc'[w] = "post" => result[cur'[w]] # "none"
      PROVE  Performed'
  <2>1. \A x : (In(reqq, x)' <=> In(reqq', x)) /\ (In(resq, x)' <=> In(resq', x))
    BY DEF In
  <2> QED
    BY <1>a, <2>1 DEF Performed
<1>b. ASSUME UNCHANGED <<life, result, called, reqq, resq, chain, cur>>,
             \A w \in Workers : wpc'[w] = wpc[w] \/ (wpc[w] \notin Holding /\ wpc'[w] \notin Holding)
      PROVE  Performed'
  <2>1. \A r : Finishing(r)' <=> Finishing(r)
    BY <1>b, SameChain
  <2>2. \A w \in Workers : /\ wpc'[w] = "exec" => wpc[w] = "exec"
                           /\ wpc'[w] = "post" => wpc[w] = "post"
    BY <1>b DEF Holding
  <2> QED
    BY <1>a, <1>b, <2>1, <2>2 DEF Performed
<1>1. CASE Quiet
  BY <1>1, <1>b DEF Quiet
<1>2. ASSUME NEW w \in Workers, Take(w) PROVE Performed'
  <2>1. PICK p \in Pri :
          /\ IsTop(reqq, p) /\ reqq' = Pop(reqq, p)
          /\ LET item == Head(reqq.qs[p]) IN
               IF item = Quit
               THEN wpc' = [wpc EXCEPT ![w] = "free"] /\ cur' = [cur EXCEPT ![w] = None]
               ELSE wpc' = [wpc EXCEPT ![w] = "exec"] /\ cur' = [cur EXCEPT ![w] = item]
    BY <1>2 DEF Take
  <2> DEFINE x == Head(reqq.qs[p])
  <2>2. /\ reqq.qs[p] # <<>> /\ UNCHANGED <<life, result, called, resq, chain>> /\ x \in Items
    BY <1>0, <1>2, <2>1, HeadIn DEF Take, IsTop, reqVars, mainVars
  <2>3. In(reqq, x) /\ \A y : In(reqq', y) => In(reqq, y)
    BY <1>0, <2>1, <2>2, PopIn
  <2> HIDE DEF x
  <2>4. \A r : Finishing(r)' <=> Finishing(r)
    BY <2>2, SameChain
  <2>5. \A v \in Workers : v # w => wpc'[v] = wpc[v] /\ cur'[v] = cur[v]
    BY <1>0, <2>1 DEF WorkersOK
  <2>6. wpc'[w] = "exec" => result[cur'[w]] = "none"
    BY <1>0, <2>1, <2>2, <2>3 DEF WorkersOK, Performed, Items, x
  <2>7. wpc'[w] # "post"
    BY <1>0, <2>1 DEF WorkersOK
  <2> QED
    BY <1>a, <2>2, <2>3, <2>4, <2>5, <2>6, <2>7 DEF Performed
<1>3. ASSUME NEW w \in Workers, Execute(w) PROVE Performed'
  <2> DEFINE x == cur[w]
  <2>1. /\ wpc[w] = "exec" /\ wpc' = [wpc EXCEPT ![w] = "post"] /\ x \in Plain /\ x \in Reqs
        /\ UNCHANGED <<life, called, reqq, resq, chain, cur>>
    BY <1>0, <1>3 DEF Execute, WorkersOK, poolVars, mainVars, Reqs
  <2>2. /\ result'[x] # "none" /\ \A r \in Reqs : r # x => result'[r] = result[r]
    BY <1>0, <1>3, <2>1 DEF Execute, RequestsOK
  <2>3. w \in Hands(x)
    BY DEF Hands
  <2>4. /\ life[x] = "live" /\ ~In(reqq, x)
        /\ \A v \in Workers : cur[v] = x => v = w
    BY <2>1, <2>3, NowhereElse DEF Hands
  <2> HIDE DEF x
  <2>5. /\ \A r : Finishing(r)' <=> Finishing(r)
        /\ \A r : (In(reqq, r)' <=> In(reqq, r)) /\ (In(resq, r)' <=> In(resq, r))
    BY <2>1, SameChain DEF In
  <2>6. \A v \in Workers : wpc'[v] = "exec" => v # w /\ wpc[v] = "exec"
    BY <1>0, <2>1 DEF WorkersOK
  <2>7. \A v \in Workers : wpc'[v] = "post" => v = w \/ wpc[v] = "post"
    BY <1>0, <2>1 DEF WorkersOK
  <2>8. \A v \in Workers : wpc[v] \in {"exec", "post"} => cur[v] \in Plain /\ cur[v] \in Reqs
    BY <1>0 DEF WorkersOK, Reqs
  <2>9. \A r \in Reqs : life'[r] = "new" => result'[r] = "none" /\ called'[r] = 0
    BY <2>1, <2>2, <2>4 DEF Performed
  <2>10. \A r \in Plain : In(reqq, r)' => result'[r] = "none"
    BY <2>2, <2>4, <2>5 DEF Performed, Reqs
  <2>11. \A v \in Workers : wpc'[v] = "exec" => result'[cur'[v]] = "none"
    BY <2>1, <2>2, <2>4, <2>6, <2>8 DEF Performed
  <2>12. \A v \in Workers : wpc'[v] = "post" => result'[cur'[v]] # "none"
    BY <2>1, <2>2, <2>7, <2>8 DEF Performed, x
  <2>13. \A r \in Plain : In(resq, r)' \/ Finishing(r)' => result'[r] # "none"
    BY <2>2, <2>5 DEF Performed, Reqs
  <2> QED
    BY <2>9, <2>10, <2>11, <2>12, <2>13 DEF Performed
<1>4. ASSUME NEW w \in Workers, Post(w) PROVE Performed'
  <2> DEFINE x == cur[w]
  <2>1. /\ resq' = Push(resq, x, pri[x]) /\ x \in Reqs /\ pri[x] \in Pri
        /\ wpc' = [wpc EXCEPT ![w] = "lock"] /\ cur' = [cur EXCEPT ![w] = None] /\ wpc[w] = "post"
        /\ UNCHANGED <<life, result, called, reqq, chain>>
    BY <1>0, <1>4 DEF Post, PushResult, WorkersOK, RequestsOK, reqVars, mainVars, Reqs
  <2>2. \A y : In(resq', y) => In(resq, y) \/ y = x
    BY <1>0, <2>1, PushIn
  <2>3. \A r : Finishing(r)' <=> Finishing(r)
    BY <2>1, SameChain
  <2>4. result[x] # "none"
    BY <2>1 DEF Performed
  <2> HIDE DEF x
  <2>5. \A v \in Workers : wpc'[v] \in {"exec", "post"} => wpc'[v] = wpc[v] /\ cur'[v] = cur[v]
    BY <1>0, <2>1 DEF WorkersOK
  <2>6. /\ \A v \in Workers : wpc'[v] = "exec" => result[cur'[v]] = "none"
        /\ \A v \in Workers : wpc'[v] = "post" => result[cur'[v]] # "none"
    BY <2>5 DEF Performed
  <2> QED
    BY <1>a, <2>1, <2>2, <2>3, <2>4, <2>6
\* A signal moves no worker that holds a request.
<1>c. ASSUME Signal \/ UNCHANGED wpc, UNCHANGED cur
      PROVE  /\ \A w \in Workers : wpc'[w] = "exec" => wpc[w] = "exec" /\ cur'[w] = cur[w]
             /\ \A w \in Workers : wpc'[w] = "post" => wpc[w] = "post" /\ cur'[w] = cur[w]
  BY <1>0, <1>c DEF Signal, Waiting, WorkersOK
<1>d. ASSUME Signal \/ UNCHANGED wpc, UNCHANGED <<cur, result>>
      PROVE  /\ \A w \in Workers : wpc'[w] = "exec" => result[cur'[w]] = "none"
             /\ \A w \in Workers : wpc'[w] = "post" => result[cur'[w]] # "none"
  BY <1>c, <1>d DEF Performed
<1>5. ASSUME NEW x \in Plain, Submit(x) PROVE Performed'
  <2>1. PICK p \in RawPri : reqq' = Push(reqq, x, Clamp(p))
    BY <1>5 DEF Submit
  <2>2. Clamp(p) \in Pri /\ x \in Items /\ x \in Reqs
    BY ClampRange, PoolAssumption DEF Items, Reqs
  <2>3. /\ life[x] = "new" /\ life' = [life EXCEPT ![x] = "live"] /\ Signal
        /\ UNCHANGED <<cur, result, called, resq, chain>>
    BY <1>5 DEF Submit, New
  <2>4. \A y : In(reqq', y) => In(reqq, y) \/ y = x
    BY <1>0, <2>1, <2>2, PushIn
  <2>5. \A r : Finishing(r)' <=> Finishing(r)
    BY <2>3, SameChain
  <2>6. \A r \in Reqs : life'[r] = "new" => life[r] = "new"
    BY <1>0, <2>3 DEF RequestsOK
  <2>7. result[x] = "none"
    BY <2>2, <2>3 DEF Performed
  <2> QED
    BY <1>a, <1>d, <2>3, <2>4, <2>5, <2>6, <2>7
<1>6. ASSUME NEW x \in Groups, SubmitGroup(x) PROVE Performed'
  <2>1. /\ resq' = Push(resq, x, TopPri) /\ TopPri \in Pri /\ x \in Reqs /\ x \notin Plain
        /\ life[x] = "new" /\ life' = [life EXCEPT ![x] = "live"] /\ UNCHANGED wpc
        /\ UNCHANGED <<cur, result, called, reqq, chain>>
    BY <1>6, TopPriIsPri, PoolAssumption
       DEF SubmitGroup, PushResult, New, workVars, mainVars, Reqs
  <2>2. \A y : In(resq', y) => In(resq, y) \/ y = x
    BY <1>0, <2>1, PushIn
  <2>3. \A r : Finishing(r)' <=> Finishing(r)
    BY <2>1, SameChain
  <2>4. \A r \in Reqs : life'[r] = "new" => life[r] = "new"
    BY <1>0, <2>1 DEF RequestsOK
  <2> QED
    BY <1>a, <1>d, <2>1, <2>2, <2>3, <2>4
<1>7. ASSUME NEW g \in Groups, NEW r \in Reqs, GrpAdd(g, r) PROVE Performed'
  BY <1>7, <1>b DEF GrpAdd, poolVars, workVars, mainVars
<1>8. CASE EndPush
  <2>1. /\ reqq' = Push(reqq, Quit, TopPri) /\ TopPri \in Pri /\ Quit \in Items /\ Quit \notin Plain
        /\ Signal /\ UNCHANGED <<cur, life, result, called, resq, chain>>
    BY <1>8, TopPriIsPri, PoolAssumption DEF EndPush, Items, reqVars
  <2>2. \A y : In(reqq', y) => In(reqq, y) \/ y = Quit
    BY <1>0, <2>1, PushIn
  <2>3. \A r : Finishing(r)' <=> Finishing(r)
    BY <2>1, SameChain
  <2> QED
    BY <1>a, <1>d, <2>1, <2>2, <2>3
<1>9. CASE CbReturn \/ UnlinkNone
  BY <1>9, <1>b DEF CbReturn, UnlinkNone, poolVars, workVars, reqVars
<1>10. CASE PollShift
  <2>1. PICK p \in Pri : IsTop(resq, p) /\ resq' = Pop(resq, p) /\ chain' = <<Head(resq.qs[p])>>
    BY <1>10 DEF PollShift
  <2> DEFINE x == Head(resq.qs[p])
  <2>2. UNCHANGED <<wpc, cur, life, result, called, reqq>> /\ resq.qs[p] # <<>>
    BY <1>10, <2>1 DEF PollShift, workVars, reqVars, IsTop
  <2>3. In(resq, x) /\ \A y : In(resq', y) => In(resq, y)
    BY <1>0, <2>1, <2>2, PopIn
  <2> HIDE DEF x
  <2>4. Len(chain') = 1 /\ chain'[1] = x
    BY <2>1 DEF x
  <2>5. \A r : Finishing(r)' => r = x
    BY <2>4 DEF Finishing
  <2> QED
    BY <1>a, <1>d, <2>2, <2>3, <2>5
<1>11. CASE PollHandle
  <2> DEFINE x == chain[1]
  <2>1. /\ x \in Reqs /\ Finishing(x) /\ life[x] = "live"
        /\ UNCHANGED <<wpc, cur, life, result, reqq, resq>>
        /\ chain' = chain \/ chain' = <<>>
    BY <1>11, TopFrame, FinishingLive DEF PollHandle, ChainOK, Busy, workVars
  <2>2. called' = called \/ called' = [called EXCEPT ![x] = @ + 1]
    BY <1>11 DEF PollHandle, BeginFinish
  <2>3. \A r \in Reqs : life'[r] = "new" => called'[r] = called[r]
    BY <1>0, <2>1, <2>2 DEF RequestsOK
  <2> HIDE DEF x
  <2>4. \A r : Finishing(r)' => Finishing(r)
    <3>1. CASE chain' = chain
      BY <3>1, SameChain
    <3>2. CASE chain' = <<>>
      BY <3>2 DEF Finishing
    <3> QED
      BY <2>1, <3>1, <3>2
  <2> QED
    BY <1>a, <1>d, <2>1, <2>3, <2>4
<1>12. CASE UnlinkMember
  <2> DEFINE g == grp[chain[Len(chain)]]
  <2>1. /\ chain # <<>> /\ UNCHANGED <<wpc, cur, life, result, reqq, resq>> /\ g # None
        /\ IF LastOfDelayed(g) THEN chain' = Append(chain, g) /\ BeginFinish(g)
                               ELSE UNCHANGED <<chain, called>>
    BY <1>12 DEF UnlinkMember, poolVars, workVars, TypeOK, MainOK
  <2>2. g \in Groups /\ g \in Reqs /\ g \notin Plain
    BY <1>0, <2>1, TopFrame, PoolAssumption DEF RequestsOK, Reqs
  <2> HIDE DEF g
  <2>3. CASE ~LastOfDelayed(g)
    <3>1. \A r : Finishing(r)' <=> Finishing(r)
      BY <2>1, <2>3, SameChain
    <3> QED
      BY <1>a, <1>d, <2>1, <2>3, <3>1
  <2>4. CASE LastOfDelayed(g)
    <3>1. \A r : Finishing(r)' <=> Finishing(r) \/ r = g
      BY <2>1, <2>2, <2>4, AppendFinishing
    <3>2. kids[g] # {}
      BY <2>2, <2>4, FS_EmptySet DEF LastOfDelayed, TreeOK, SizeOK
    <3>3. life[g] = "live"
      BY <2>2, <3>2 DEF TreeOK, SizeOK
    <3>4. called' = called \/ called' = [called EXCEPT ![g] = @ + 1]
      BY <2>1, <2>4 DEF BeginFinish
    <3>5. \A r \in Reqs : life'[r] = "new" => called'[r] = called[r]
      BY <1>0, <2>1, <3>3, <3>4 DEF RequestsOK
    <3> QED
      BY <1>a, <1>d, <2>1, <2>2, <3>1, <3>5
  <2> QED
    BY <2>3, <2>4
<1>13. CASE PollNext
  <2>1. /\ life' = [r \in Reqs |-> IF Finishing(r) THEN "freed" ELSE life[r]]
        /\ chain' = <<>> /\ UNCHANGED <<wpc, cur, result, called, reqq, resq>>
    BY <1>13 DEF PollNext, poolVars, workVars
  <2>2. \A r : ~Finishing(r)'
    BY <2>1 DEF Finishing
  <2>3. \A r \in Reqs : life'[r] = "new" => life[r] = "new"
    BY <2>1
  <2> QED
    BY <1>a, <1>d, <2>1, <2>2, <2>3
<1> QED
  BY StepKinds, <1>1, <1>2, <1>3, <1>4, <1>5, <1>6, <1>7, <1>8, <1>9, <1>10, <1>11, <1>12, <1>13
     DEF Noisy

\* Only the beginning of eio_finish calls a callback, once.
LEMMA ToldStep == ASSUME PlaceInv, Told, [Next]_vars PROVE Told'
<1> USE DEF PlaceInv
<1>0. RequestsOK /\ RequestsOK'
  BY TypeStep DEF TypeOK
<1>a. ASSUME UNCHANGED called, \A r \in Reqs : cancelled[r] => cancelled'[r],
             \A r \in Reqs : Ended(r)' <=> Ended(r)
      PROVE  Told'
  BY <1>a DEF Told, Settled
<1>b. ASSUME UNCHANGED <<called, chain>>, \A r \in Reqs : cancelled[r] => cancelled'[r],
             \A r \in Reqs : life'[r] = "freed" <=> life[r] = "freed",
             mpc' = "handle" <=> mpc = "handle"
      PROVE  Told'
  <2>1. \A r : Finishing(r)' <=> Finishing(r)
    BY <1>b, SameChain
  <2>2. \A r \in Reqs : Ended(r)' <=> Ended(r)
    BY <1>b, <2>1 DEF Ended
  <2> QED
    BY <1>a, <1>b, <2>2
\* eio_finish begins for x: its callback runs, or x is cancelled.
<1>c. ASSUME NEW x \in Reqs, ~Ended(x), BeginFinish(x), UNCHANGED cancelled,
             \A r \in Reqs : Ended(r)' <=> Ended(r) \/ r = x
      PROVE  Told'
  <2>1. called[x] = 0
    BY <1>c DEF Told
  <2>2. CASE cancelled[x]
    BY <1>c, <2>2 DEF Told, Settled, BeginFinish
  <2>3. CASE ~cancelled[x]
    <3>1. called' = [called EXCEPT ![x] = 1]
      BY <1>c, <2>1, <2>3 DEF BeginFinish
    <3>2. /\ called'[x] = 1
          /\ \A r \in Reqs : r # x => called'[r] = called[r]
      BY <1>0, <3>1 DEF RequestsOK
    <3> QED
      BY <1>c, <3>2 DEF Told, Settled
  <2> QED
    BY <2>2, <2>3
<1>1. CASE Quiet
  BY <1>1, <1>b DEF Quiet, Busy
<1>2. ASSUME NEW w \in Workers, Take(w) \/ Execute(w) \/ Post(w) PROVE Told'
  BY <1>2, <1>b DEF Take, Execute, Post, mainVars, reqVars
<1>3. ASSUME NEW r \in Reqs, life[r] = "new", life' = [life EXCEPT ![r] = "live"],
             UNCHANGED <<called, cancelled, chain>>, mpc = "user", mpc' # "handle"
      PROVE  Told'
  <2>1. \A x \in Reqs : life'[x] = "freed" <=> life[x] = "freed"
    BY <1>0, <1>3 DEF RequestsOK
  <2> QED
    BY <1>b, <1>3, <2>1
<1>4. ASSUME NEW r \in Plain, Submit(r) PROVE Told'
  BY <1>3, <1>4 DEF Submit, New, InUser, MaybeStart, Reqs
<1>5. ASSUME NEW g \in Groups, SubmitGroup(g) PROVE Told'
  BY <1>3, <1>5 DEF SubmitGroup, New, InUser, mainVars, Reqs
<1>6. ASSUME NEW g \in Groups, NEW r \in Reqs, GrpAdd(g, r) PROVE Told'
  BY <1>6, <1>b DEF GrpAdd, mainVars
<1>7. CASE EndPush \/ CbReturn \/ UnlinkNone
  BY <1>7, <1>b DEF EndPush, CbReturn, UnlinkNone, InUser, reqVars
<1>8. CASE PollShift
  <2>1. /\ chain = <<>> /\ mpc' = "handle" /\ UNCHANGED <<called, cancelled, life>>
    BY <1>8 DEF PollShift, reqVars, ChainOK, Busy, TypeOK, MainOK
  <2>2. \A r : ~Finishing(r)
    BY <2>1 DEF Finishing
  <2> QED
    BY <1>a, <2>1, <2>2 DEF Ended
<1>9. CASE PollHandle
  <2> DEFINE x == chain[1]
  <2>1. /\ mpc = "handle" /\ chain # <<>> /\ Len(chain) = 1 /\ UNCHANGED <<cancelled, life>>
        /\ IF PutOff(x) THEN chain' = <<>> /\ UNCHANGED called
                        ELSE BeginFinish(x) /\ UNCHANGED chain
    BY <1>9 DEF PollHandle, ChainOK, Busy
  <2>2. x \in Reqs /\ life[x] = "live"
    BY <2>1, TopFrame, FinishingLive
  <2>3. \A r : Finishing(r) <=> r = x
    BY <2>1 DEF Finishing
  <2> HIDE DEF x
  <2>4. CASE PutOff(x)
    <3>1. \A r : ~Finishing(r)'
      BY <2>1, <2>4 DEF Finishing
    <3> QED
      BY <1>a, <2>1, <2>4, <3>1 DEF Ended
  <2>5. CASE ~PutOff(x)
    <3>1. BeginFinish(x) /\ mpc' # "handle" /\ \A r : Finishing(r)' <=> r = x
      BY <2>1, <2>3, <2>5, SameChain DEF BeginFinish
    <3>2. ~Ended(x) /\ \A r \in Reqs : Ended(r)' <=> Ended(r) \/ r = x
      BY <2>1, <2>2, <3>1 DEF Ended
    <3> QED
      BY <1>c, <2>1, <2>2, <3>1, <3>2
  <2> QED
    BY <2>4, <2>5
<1>10. CASE UnlinkMember
  <2> DEFINE g == grp[chain[Len(chain)]]
  <2>1. /\ mpc = "unlink" /\ chain # <<>> /\ UNCHANGED <<cancelled, life>> /\ g # None
        /\ IF LastOfDelayed(g) THEN chain' = Append(chain, g) /\ BeginFinish(g)
                               ELSE mpc' = "destroy" /\ UNCHANGED <<chain, called>>
    BY <1>10 DEF UnlinkMember, TypeOK, MainOK
  <2>2. g \in Groups /\ g \in Reqs
    BY <1>0, <2>1, TopFrame DEF RequestsOK, Reqs
  <2> HIDE DEF g
  <2>3. CASE ~LastOfDelayed(g)
    BY <1>b, <2>1, <2>3
  <2>4. CASE LastOfDelayed(g)
    <3>1. \A r : Finishing(r)' <=> Finishing(r) \/ r = g
      BY <2>1, <2>2, <2>4, AppendFinishing
    <3>2. kids[g] # {}
      BY <2>2, <2>4, FS_EmptySet DEF LastOfDelayed, TreeOK, SizeOK
    <3>3. life[g] = "live" /\ ~Finishing(g)
      BY <2>1, <2>2, <3>2 DEF TreeOK, SizeOK, ChainOK
    <3>4. mpc' # "handle"
      BY <2>1, <2>4 DEF BeginFinish
    <3>5. ~Ended(g) /\ \A r \in Reqs : Ended(r)' <=> Ended(r) \/ r = g
      BY <2>1, <3>1, <3>3, <3>4 DEF Ended
    <3> QED
      BY <1>c, <2>1, <2>2, <2>4, <3>5
  <2> QED
    BY <2>3, <2>4
<1>11. CASE PollNext
  <2>1. /\ mpc = "destroy" /\ chain' = <<>> /\ UNCHANGED <<cancelled, called>>
        /\ life' = [r \in Reqs |-> IF Finishing(r) THEN "freed" ELSE life[r]]
    BY <1>11 DEF PollNext
  <2>2. \A r : ~Finishing(r)'
    BY <2>1 DEF Finishing
  <2> QED
    BY <1>a, <2>1, <2>2 DEF Ended
<1> QED
  BY StepKinds, <1>1, <1>2, <1>4, <1>5, <1>6, <1>7, <1>8, <1>9, <1>10, <1>11 DEF Noisy

\* What eio_cancel reaches below a live request is live.
LEMMA UnderLive ==
  ASSUME TypeOK, TreeOK, NEW r \in Reqs, life[r] = "live"
  PROVE  \A x \in Under(r) : life[x] = "live"
<1> DEFINE L == {x \in Reqs : life[x] = "live"}
<1>1. L \in SUBSET Reqs /\ r \in L
  OBVIOUS
<1>2. \A g \in L \cap Groups : kids[g] \subseteq L
  BY DEF TreeOK, KidsOK, TypeOK, RequestsOK
<1> HIDE DEF L
<1>3. Under(r) \subseteq L
  BY <1>1, <1>2 DEF Under
<1> QED
  BY <1>3 DEF L

\* A member that left the list of its group has ended.
LEMMA MemberEnded ==
  ASSUME TypeOK, ChainOK, TreeOK, NEW g \in Groups, NEW m \in Reqs, grp[m] = g, m \notin kids[g]
  PROVE  Ended(m)
<1>1. life[m] # "live" \/ Gone(m)
  BY DEF TreeOK, KidsOK
<1>2. CASE Gone(m)
  <2>1. Finishing(m)
    BY <1>2 DEF Gone, Finishing
  <2>2. mpc # "handle"
    <3>1. SUFFICES ASSUME mpc = "handle" PROVE FALSE
      OBVIOUS
    <3>2. Len(chain) = 1
      BY <3>1 DEF ChainOK
    <3> QED
      BY <1>2, <3>1, <3>2 DEF Gone
  <2> QED
    BY <2>1, <2>2 DEF Ended
<1>3. CASE life[m] # "live"
  <2>1. life[m] # "new"
    BY PoolAssumption DEF TreeOK
  <2> QED
    BY <1>3, <2>1 DEF Ended, TypeOK, RequestsOK
<1> QED
  BY <1>1, <1>2, <1>3

\* Each step of the pool is a step of the contract, or changes nothing in it.
LEMMA ContractStep ==
  PlaceInv /\ Performed /\ Told /\ [Next]_vars => [Contract!Next]_(Contract!vars)
<1> SUFFICES ASSUME PlaceInv, Performed, Told, [Next]_vars PROVE Contract!Next \/ UNCHANGED Contract!vars
  OBVIOUS
<1> USE DEF PlaceInv
<1>0. RequestsOK /\ Contract!Reqs = Reqs
  BY DEF TypeOK, Contract!Reqs, Reqs
<1>a. ASSUME UNCHANGED <<life, cancelled, grp, result, called>> PROVE UNCHANGED Contract!vars
  BY <1>a DEF Contract!vars
<1>b. ASSUME NEW r \in Reqs, Contract!Accept(r) \/ Contract!Perform(r) \/ Contract!Tell(r)
      PROVE  Contract!Next
  BY <1>0, <1>b DEF Contract!Next
<1>c. ASSUME NEW r \in Reqs, life[r] = "live", ~cancelled[r], ~Ended(r), BeginFinish(r),
             UNCHANGED <<life, cancelled, grp, result>>,
             r \in Plain => result[r] # "none",
             \A m \in Reqs : grp[m] = r => Ended(m)
      PROVE  Contract!Tell(r)
  <2>1. called[r] = 0
    BY <1>c DEF Told
  <2>2. called' = [called EXCEPT ![r] = 1]
    BY <1>c, <2>1 DEF BeginFinish
  <2>3. \A m \in Contract!Members(r) : Contract!Settled(m)
    BY <1>0, <1>c DEF Contract!Members, Contract!Settled, Told, Settled
  <2> QED
    BY <1>c, <2>1, <2>2, <2>3 DEF Contract!Tell
<1>1. CASE Quiet
  <2>1. CASE UNCHANGED cancelled
    BY <1>1, <1>a, <2>1 DEF Quiet
  <2>2. CASE (\E r \in Reqs : Cancel(r)) \/ (\E g \in Groups : GrpCancel(g))
    <3>1. PICK S \in SUBSET Reqs :
            /\ CancelSet(S)
            /\ (\E r \in Reqs : life[r] = "live" /\ S = Under(r))
               \/ (\E g \in Groups : life[g] = "live" /\ S = UNION {Under(r) : r \in kids[g]})
      BY <1>0, <2>2, CancelClosed
    <3>2. \A r \in S : life[r] = "live"
      <4>1. CASE \E r \in Reqs : life[r] = "live" /\ S = Under(r)
        BY <4>1, UnderLive
      <4>2. CASE \E g \in Groups : life[g] = "live" /\ S = UNION {Under(r) : r \in kids[g]}
        <5>1. PICK g \in Groups : S = UNION {Under(r) : r \in kids[g]}
          BY <4>2
        <5>2. \A r \in kids[g] : r \in Reqs /\ life[r] = "live"
          BY <1>0 DEF RequestsOK, TreeOK, KidsOK
        <5> QED
          BY <5>1, <5>2, UnderLive
      <4> QED
        BY <3>1, <4>1, <4>2
    <3>3. Contract!Drop(S)
      BY <1>0, <3>1, <3>2 DEF CancelSet, Contract!Drop
    <3> QED
      BY <1>0, <3>3 DEF Contract!Next
  <2> QED
    BY <2>1, <2>2, CancelKinds
<1>2. ASSUME NEW w \in Workers, Take(w) \/ Post(w) PROVE UNCHANGED Contract!vars
  BY <1>2, <1>a DEF Take, Post, reqVars
<1>3. ASSUME NEW w \in Workers, Execute(w) PROVE Contract!Next
  <2> DEFINE x == cur[w]
  <2>1. wpc[w] = "exec" /\ x \in Reqs
    BY <1>3 DEF Execute, TypeOK, WorkersOK, Reqs
  <2>2. w \in Hands(x)
    BY DEF Hands
  <2>3. life[x] = "live" /\ result[x] = "none"
    BY <2>1, <2>2, NowhereElse DEF Performed
  <2>4. Contract!Perform(x)
    BY <1>3, <2>3 DEF Execute, Contract!Perform
  <2> QED
    BY <1>b, <2>1, <2>4
<1>4. ASSUME NEW r \in Plain, Submit(r) PROVE Contract!Next
  <2>1. Contract!Accept(r) /\ r \in Reqs
    BY <1>4 DEF Submit, New, Contract!Accept, Reqs
  <2> QED
    BY <1>b, <2>1
<1>5. ASSUME NEW g \in Groups, SubmitGroup(g) PROVE Contract!Next
  <2>1. Contract!Accept(g) /\ g \in Reqs
    BY <1>5 DEF SubmitGroup, New, Contract!Accept, Reqs
  <2> QED
    BY <1>b, <2>1
<1>6. ASSUME NEW g \in Groups, NEW r \in Reqs, GrpAdd(g, r) PROVE Contract!Next
  <2>1. called[g] = 0 /\ called[r] = 0
    BY <1>6 DEF GrpAdd, Told, Ended, Reqs
  <2>2. Contract!Join(g, r)
    BY <1>6, <2>1 DEF GrpAdd, Contract!Join
  <2> QED
    BY <1>0, <2>2 DEF Contract!Next
<1>7. CASE EndPush \/ CbReturn \/ UnlinkNone \/ PollShift
  BY <1>7, <1>a DEF EndPush, CbReturn, UnlinkNone, PollShift, reqVars
<1>8. CASE PollHandle
  <2> DEFINE r == chain[1]
  <2>1. /\ mpc = "handle" /\ chain # <<>> /\ UNCHANGED <<life, cancelled, grp, result>>
        /\ IF PutOff(r) THEN UNCHANGED called ELSE BeginFinish(r)
    BY <1>8 DEF PollHandle, ChainOK, Busy
  <2>2. r \in Reqs /\ Finishing(r) /\ life[r] = "live"
    BY <2>1, TopFrame, FinishingLive
  <2>3. r \in Plain => result[r] # "none"
    BY <2>2 DEF Performed
  <2> HIDE DEF r
  <2>4. CASE PutOff(r) \/ cancelled[r]
    BY <1>a, <2>1, <2>4 DEF BeginFinish
  <2>5. CASE ~PutOff(r) /\ ~cancelled[r]
    <3>1. r \in Groups => kids[r] = {}
      BY <2>5, FS_EmptySet DEF PutOff, TreeOK, SizeOK
    <3>2. ASSUME NEW m \in Reqs, grp[m] = r PROVE Ended(m)
      <4>1. r \in Groups
        BY <1>0, <2>2, <3>2, PoolAssumption DEF RequestsOK, Reqs
      <4> QED
        BY <3>1, <3>2, <4>1, MemberEnded
    <3>3. ~Ended(r)
      BY <2>1, <2>2 DEF Ended
    <3> QED
      BY <1>b, <1>c, <2>1, <2>2, <2>3, <2>5, <3>2, <3>3
  <2> QED
    BY <2>4, <2>5
<1>9. CASE UnlinkMember
  <2> DEFINE r == chain[Len(chain)]
             g == grp[r]
  <2>1. /\ mpc = "unlink" /\ chain # <<>> /\ UNCHANGED <<life, cancelled, grp, result>>
        /\ g # None /\ kids' = [kids EXCEPT ![g] = @ \ {r}]
        /\ IF LastOfDelayed(g) THEN chain' = Append(chain, g) /\ BeginFinish(g) ELSE UNCHANGED called
    BY <1>9 DEF UnlinkMember, Unlinked, TypeOK, MainOK
  <2>2. r \in Reqs /\ Finishing(r) /\ g \in Groups /\ g \in Reqs /\ g \notin Plain
    BY <1>0, <2>1, TopFrame, PoolAssumption DEF RequestsOK, Reqs
  <2> HIDE DEF r, g
  <2>3. CASE ~LastOfDelayed(g) \/ cancelled[g]
    BY <1>a, <2>1, <2>3 DEF BeginFinish
  <2>4. CASE LastOfDelayed(g) /\ ~cancelled[g]
    <3>1. kids[g] # {}
      BY <2>2, <2>4, FS_EmptySet DEF LastOfDelayed, TreeOK, SizeOK
    <3>2. life[g] = "live" /\ ~Finishing(g)
      BY <2>1, <2>2, <3>1 DEF TreeOK, SizeOK, ChainOK
    <3>3. mpc' # "handle" /\ \A x : x = g => Finishing(x)'
      BY <2>1, <2>2, <2>4, AppendFinishing DEF BeginFinish
    <3>4. kids'[g] = {} /\ kids'[g] = kids[g] \ {r}
      <4>1. ChainOK'
        BY StructureStep
      <4>2. \A h \in Groups : Finishing(h)' => kids'[h] = {}
        BY <3>3, <4>1 DEF ChainOK
      <4>3. kids'[g] = kids[g] \ {r}
        BY <1>0, <2>1, <2>2 DEF RequestsOK
      <4> QED
        BY <2>2, <3>3, <4>2, <4>3
    <3>5. ASSUME NEW m \in Reqs, grp[m] = g PROVE Ended(m)
      <4>1. Ended(r)
        BY <2>1, <2>2 DEF Ended
      <4>2. CASE m \in kids[g]
        BY <3>4, <4>1, <4>2
      <4>3. CASE m \notin kids[g]
        BY <2>2, <3>5, <4>3, MemberEnded
      <4> QED
        BY <4>2, <4>3
    <3>6. ~Ended(g)
      BY <3>2 DEF Ended
    <3> QED
      BY <1>b, <1>c, <2>1, <2>2, <2>4, <3>2, <3>5, <3>6
  <2> QED
    BY <2>3, <2>4
<1>10. CASE PollNext
  <2> DEFINE S == {r \in Reqs : Finishing(r)}
  <2>1. /\ mpc = "destroy" /\ UNCHANGED <<cancelled, grp, result, called>>
        /\ life' = [r \in Reqs |-> IF Finishing(r) THEN "freed" ELSE life[r]]
    BY <1>10 DEF PollNext
  <2>2. ASSUME NEW r \in S
        PROVE  /\ life[r] = "live" /\ Contract!Settled(r)
               /\ r \in Plain => result[r] # "none"
               /\ \A m \in Contract!Members(r) : m \in S \/ life[m] = "freed"
    <3>1. r \in Reqs /\ Finishing(r) /\ life[r] = "live" /\ Ended(r)
      BY <2>1, FinishingLive DEF Ended
    <3>2. Contract!Settled(r) /\ (r \in Plain => result[r] # "none")
      BY <3>1 DEF Told, Settled, Contract!Settled, Performed
    <3>3. ASSUME NEW m \in Contract!Members(r) PROVE m \in S \/ life[m] = "freed"
      <4>1. m \in Reqs /\ grp[m] = r
        BY <1>0, <3>3 DEF Contract!Members
      <4>2. r \in Groups
        BY <1>0, <3>1, <4>1, PoolAssumption DEF RequestsOK, Reqs
      <4>3. kids[r] = {}
        BY <2>1, <3>1, <4>2 DEF ChainOK
      <4>4. Ended(m)
        BY <4>1, <4>2, <4>3, MemberEnded
      <4> QED
        BY <4>1, <4>4 DEF Ended
    <3> QED
      BY <3>1, <3>2, <3>3
  <2>3. life' = [r \in Reqs |-> IF r \in S THEN "freed" ELSE life[r]]
    BY <2>1
  <2> HIDE DEF S
  <2>4. Contract!Destroy(S) /\ S \in SUBSET Reqs
    BY <1>0, <2>1, <2>2, <2>3 DEF Contract!Destroy, S
  <2> QED
    BY <1>0, <2>4 DEF Contract!Next
<1> QED
  BY StepKinds, <1>1, <1>2, <1>3, <1>4, <1>5, <1>6, <1>7, <1>8, <1>9, <1>10 DEF Noisy

\* The pool starts where the contract starts.
LEMMA ContractInit == Init => Contract!Init /\ Performed /\ Told
<1> SUFFICES ASSUME Init PROVE Contract!Init /\ Performed /\ Told
  OBVIOUS
<1>1. Contract!Init
  BY DEF Init, Contract!Init, Contract!Reqs, Reqs
<1>2. \A r : ~Finishing(r) /\ ~In(reqq, r) /\ ~In(resq, r)
  BY DEF Init, Finishing, In, EmptyQ
<1>3. Performed /\ Told
  BY <1>2 DEF Init, Performed, Told, Ended, Reqs
<1> QED
  BY <1>1, <1>3

\* The pool implements the contract of eio.h: with any number of threads,
\* requests and groups, a request is performed once, its callback runs at most
\* once, after it was performed and not once it was cancelled, a group is told
\* of and destroyed after its members.
THEOREM KeepsContractCorrect == Spec => KeepsContract
<1>1. PlaceInv /\ Performed /\ Told /\ [Next]_vars => Performed' /\ Told'
  BY PerformedStep, ToldStep
<1> QED
  BY <1>1, PlaceAlways, ContractInit, ContractStep, PTL DEF Spec, KeepsContract, Contract!Spec
=============================================================================
