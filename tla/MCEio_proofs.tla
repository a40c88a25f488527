---------------------------- MODULE MCEio_proofs ----------------------------
(* Theorems of what the requests of libeio do, each in turn as in MCEio: of *)
(* all but eio__realpath and eio__scandir, whose results are computed by    *)
(* recursion over their data.                                               *)
EXTENDS MCEio, Sequences, FiniteSetTheorems, TLAPS

----------------------------------------------------------------------------
(* sendfile and its emulation.                                              *)

\* The counters agree before the first call to the kernel.
LEMMA InvInit == Init => SendfileInv
  BY SendfileAssumption DEF Init, SendfileInv, CopiesInOrder

\* A kernel call keeps them in agreement.
LEMMA KernelKeeps ==
  ASSUME SendfileInv, NEW n \in 0 .. count, KernelCopies(n)
  PROVE  SendfileInv'
<1>1. straight' /\ arrived' = arrived + n /\ arrived + n <= asked
  <2>1. straight /\ offset = arrived
    BY DEF SendfileInv, CopiesInOrder, KernelCopies
  <2>2. straight'
    BY <2>1 DEF KernelCopies, Sends
  <2> QED
    BY <2>2, SMT DEF SendfileInv, KernelCopies, Sends
<1>2. CASE n <= Lazy
  BY <1>1, <1>2 DEF SendfileInv, CopiesInOrder, KernelCopies, Return
<1>3. CASE ~(n <= Lazy) /\ count = n
  BY <1>1, <1>3 DEF SendfileInv, CopiesInOrder, KernelCopies, Return
<1>4. CASE ~(n <= Lazy) /\ count # n
  BY <1>1, <1>4 DEF SendfileInv, CopiesInOrder, KernelCopies, Return
<1> QED
  BY <1>2, <1>3, <1>4

\* So does a failing one, whatever is done then.
LEMMA FailureKeeps ==
  ASSUME SendfileInv, NEW unable \in BOOLEAN, KernelFails(unable)
  PROVE  SendfileInv'
  BY SendfileAssumption, SMTT(30) DEF SendfileInv, CopiesInOrder, KernelFails, Emulate, Return

\* Reading moves no byte.
LEMMA ReadKeeps ==
  ASSUME SendfileInv, NEW n \in -1 .. count, Read(n)
  PROVE  SendfileInv'
  BY SendfileAssumption, SMTT(30) DEF SendfileInv, CopiesInOrder, Read, GiveUp, Return

\* Writing moves as many as it says.
LEMMA WriteKeeps ==
  ASSUME SendfileInv, NEW n \in -1 .. cnt, Write(n)
  PROVE  SendfileInv'
<1>1. CASE n <= 0
  BY <1>1 DEF SendfileInv, CopiesInOrder, Write, GiveUp, Return
<1>2. CASE ~(n <= 0)
  <2>1. straight /\ offset = arrived
    BY DEF SendfileInv, CopiesInOrder, Write
  <2>2. straight'
    BY <1>2, <2>1 DEF Write, Sends
  <2>3. n \in Nat /\ n <= count /\ arrived' = arrived + n
    BY <1>2, SMT DEF SendfileInv, Write, Sends
  <2> QED
    BY <1>2, <2>2, <2>3 DEF SendfileInv, CopiesInOrder, Write, Advanced
<1> QED
  BY <1>1, <1>2

LEMMA SendfileKeeps ==
  ASSUME SendfileInv, [Next]_fileVars
  PROVE  SendfileInv'
<1>1. CASE Nothing
  BY <1>1 DEF SendfileInv, CopiesInOrder, Nothing, Return
<1>2. CASE Enough
  BY <1>2 DEF SendfileInv, CopiesInOrder, Enough, Return
<1>3. ASSUME NEW n \in 0 .. count, KernelCopies(n) PROVE SendfileInv'
  BY <1>3, KernelKeeps
<1>4. ASSUME NEW unable \in BOOLEAN, KernelFails(unable) PROVE SendfileInv'
  BY <1>4, FailureKeeps
<1>5. ASSUME NEW n \in -1 .. count, Read(n) PROVE SendfileInv'
  BY <1>5, ReadKeeps
<1>6. ASSUME NEW n \in -1 .. cnt, Write(n) PROVE SendfileInv'
  BY <1>6, WriteKeeps
<1>7. CASE UNCHANGED fileVars
  BY <1>7 DEF SendfileInv, CopiesInOrder, fileVars
<1> QED
  BY <1>1, <1>2, <1>3, <1>4, <1>5, <1>6, <1>7 DEF Next

----------------------------------------------------------------------------
(* What a request holds.                                                    *)

\* What eio_destroy frees besides the request.
Flagged == ((IF free1 THEN {ptr1} ELSE {}) \cup (IF free2 THEN {ptr2} ELSE {})) \ {"null"}

\* What a result says, and what is on the disk then.
Reasons == {"of the call", "ENOENT", "ENOMEM", "ENOSYS"}
Answered ==
  /\ value \in {0, -1}
  /\ value = -1 => errorno \in Reasons \/ (errorno = "ECANCELED" /\ dropped)
  /\ Ops!Stored

OpTypes ==
  /\ stage \in {"none", "sent", "executed", "gone", "refused"} /\ ~wild
  /\ free1 \in BOOLEAN /\ free2 \in BOOLEAN /\ dropped \in BOOLEAN

\* Before, with a worker, and after; the request has what its flags say.
Unmade ==
  /\ heap = {} /\ ptr1 = "null" /\ ptr2 \in {"null", "caller's"}
  /\ ~free1 /\ ~free2 /\ ~opened /\ ~told /\ durable = {}
Refused ==
  /\ heap = {} \/ (type \in Ops!TwoPaths /\ heap = {"path"})
  /\ ~told
Sent ==
  /\ heap = {"req"} \cup Flagged
  /\ free1 <=> type \in Ops!OnePath \cup Ops!TwoPaths
  /\ free2 <=> type \in Ops!TwoPaths
  /\ free1 => ptr1 = "path"
  /\ free2 => ptr2 = "new path"
  /\ ~free2 => ptr2 \in {"null", "caller's"}
  /\ ~opened /\ ~told /\ durable = {}
Executed == heap = {"req"} \cup Flagged /\ ~told /\ Answered
Gone == heap = {} /\ told = ~dropped /\ Answered

OpInv ==
  /\ OpTypes
  /\ stage = "none" => Unmade
  /\ stage = "refused" => Refused
  /\ stage = "sent" => Sent
  /\ stage = "executed" => Executed
  /\ stage = "gone" => Gone

LEMMA OpInit == Ops!Init => OpInv
BY DEF Ops!Init, OpInv, OpTypes, Unmade

LEMMA MakeKeeps ==
  ASSUME OpInv, Ops!Make
  PROVE  OpInv'
<1>1. /\ OpTypes /\ Unmade /\ stage = "none"
      /\ type' = type /\ dropped' = dropped /\ opened' = opened /\ told' = told /\ wild' = wild
      /\ durable' = durable
  BY DEF OpInv, Ops!Make
<1>2. CASE Ops!Refuse({}) \/ (type \in Ops!TwoPaths /\ Ops!Refuse({"path"}))
  <2>1. /\ stage' = "refused" /\ free1' = free1 /\ free2' = free2
        /\ heap' = {} \/ (type \in Ops!TwoPaths /\ heap' = {"path"})
    BY <1>2 DEF Ops!Refuse
  <2>2. QED BY <1>1, <2>1 DEF OpInv, OpTypes, Unmade, Refused
<1>3. CASE ~(Ops!Refuse({}) \/ (type \in Ops!TwoPaths /\ Ops!Refuse({"path"})))
  <2>1. /\ stage' = "sent"
        /\ free1' = (type \in Ops!OnePath \cup Ops!TwoPaths) /\ free2' = (type \in Ops!TwoPaths)
        /\ ptr1' = (IF free1' THEN "path" ELSE ptr1)
        /\ ptr2' = (IF free2' THEN "new path" ELSE ptr2)
        /\ heap' = {"req"} \cup (IF free1' THEN {ptr1'} ELSE {}) \cup (IF free2' THEN {ptr2'} ELSE {})
    BY <1>3 DEF Ops!Make
  <2>2. free1' \in BOOLEAN
    <3>1. (type \in Ops!OnePath \cup Ops!TwoPaths) \in BOOLEAN
      OBVIOUS
    <3>2. QED BY <2>1, <3>1, Zenon
  <2>3. free2' \in BOOLEAN
    <3>1. (type \in Ops!TwoPaths) \in BOOLEAN
      OBVIOUS
    <3>2. QED BY <2>1, <3>1, Zenon
  <2>4. (free1' => ptr1' = "path") /\ (free2' => ptr2' = "new path") /\ (~free2' => ptr2' = ptr2)
    BY <2>1
  <2>5. (free1' => ptr1' # "null") /\ (free2' => ptr2' # "null")
    BY <2>4
  <2>6. heap' = {"req"} \cup Flagged'
    BY <2>1, <2>5 DEF Flagged
  <2>7. (free1' <=> type' \in Ops!OnePath \cup Ops!TwoPaths) /\ (free2' <=> type' \in Ops!TwoPaths)
    BY <1>1, <2>1, Zenon
  <2>8. ~opened' /\ ~told' /\ durable' = {} /\ ptr2 \in {"null", "caller's"}
    BY <1>1 DEF Unmade
  <2>9. Sent'
    BY <2>4, <2>6, <2>7, <2>8 DEF Sent
  <2>10. OpTypes'
    BY <1>1, <2>1, <2>2, <2>3 DEF OpTypes
  <2>11. QED BY <2>1, <2>9, <2>10 DEF OpInv
<1>4. QED BY <1>2, <1>3

\* What an answer is.
LEMMA AnswerFails ==
  ASSUME NEW e, Ops!Answer(-1, e)
  PROVE  value' = -1 /\ errorno' = e
BY DEF Ops!Answer

LEMMA AnswerGood ==
  ASSUME NEW e, Ops!Answer(0, e)
  PROVE  value' = 0
BY DEF Ops!Answer

\* One of these answers will do for all but the requests that sync.
Answers == value' = 0 \/ (value' = -1 /\ errorno' \in Reasons)
LEMMA AnswersWill ==
  ASSUME Answers, type' \notin Ops!Syncs
  PROVE  Answered'
<1>0. Ops!Stored'
  BY DEF Ops!Stored, Ops!Syncs
<1>1. CASE value' = 0
  <2>1. value' # -1
    BY <1>1
  <2>2. QED BY <1>0, <1>1, <2>1 DEF Answered
<1>2. CASE value' = -1 /\ errorno' \in Reasons
  BY <1>0, <1>2 DEF Answered
<1>3. QED BY <1>1, <1>2 DEF Answers

\* A worker leaves what the flags say, whatever the request does.
LEMMA ExecuteKeeps ==
  ASSUME OpInv, Ops!Execute
  PROVE  OpInv'
<1>1. /\ OpTypes /\ Sent /\ stage = "sent" /\ stage' = "executed"
      /\ type' = type /\ dropped' = dropped /\ told' = told
  BY DEF OpInv, Ops!Execute
<1>2. SUFFICES /\ free1' \in BOOLEAN /\ free2' \in BOOLEAN /\ ~wild'
               /\ heap' = {"req"} \cup Flagged'
               /\ Answered'
  BY <1>1 DEF OpInv, OpTypes, Sent, Executed
<1> DEFINE Same == /\ free1' = free1 /\ free2' = free2 /\ ptr1' = ptr1 /\ ptr2' = ptr2
                   /\ heap' = heap /\ wild' = wild
<1>3. ASSUME Same, Answered'
      PROVE  /\ free1' \in BOOLEAN /\ free2' \in BOOLEAN /\ ~wild'
             /\ heap' = {"req"} \cup Flagged'
             /\ Answered'
  <2>1. Flagged' = Flagged
    BY <1>3 DEF Flagged
  <2>2. QED BY <1>1, <1>3, <2>1 DEF OpTypes, Sent
<1>4. CASE Ops!Shunned /\ Ops!Shun
  <2>1. Same /\ value' = -1 /\ errorno' = (IF dropped THEN "ECANCELED" ELSE "ENOENT")
    BY <1>4, AnswerFails DEF Ops!Shun
  <2>2. (errorno' = "ECANCELED" /\ dropped') \/ errorno' \in Reasons
    BY <1>1, <2>1 DEF Reasons
  <2>3. value' # 0 /\ errorno' # "ENOSYS"
    BY <2>1
  <2>4. Answered'
    BY <2>1, <2>2, <2>3 DEF Answered, Ops!Stored
  <2>5. QED BY <1>3, <2>1, <2>4
<1>5. CASE Ops!Call
  <2>1. Same /\ type' \notin Ops!Syncs
    BY <1>1, <1>5 DEF Ops!Call
  <2>2. Answers
    BY <1>5, AnswerGood, AnswerFails DEF Ops!Call, Answers, Reasons
  <2>3. QED BY <1>3, <2>1, <2>2, AnswersWill
<1>6. CASE Ops!CallWithBuffer
  <2>1. /\ type \in Ops!OwnBuffer /\ free1' = free1 /\ ptr1' = ptr1 /\ wild' = wild
    BY <1>6 DEF Ops!CallWithBuffer
  <2>2. type \notin Ops!TwoPaths /\ type \notin Ops!Syncs
    BY <2>1 DEF Ops!OwnBuffer, Ops!TwoPaths, Ops!Syncs
  <2>3. ~free2 /\ (free1 => ptr1 = "path") /\ heap = {"req"} \cup Flagged
    BY <1>1, <2>2 DEF Sent
  <2>4. Answers
    BY <1>6, AnswerGood, AnswerFails DEF Ops!CallWithBuffer, Ops!Alloc, Answers, Reasons
  <2>5. Answered'
    BY <1>1, <2>2, <2>4, AnswersWill
  <2>6. \/ free2' = free2 /\ ptr2' = ptr2 /\ heap' = heap
        \/ free2' = TRUE /\ ptr2' = "buffer" /\ heap' = heap \cup {"buffer"}
        \/ free2' = TRUE /\ ptr2' = "null" /\ heap' = heap
    BY <1>6 DEF Ops!CallWithBuffer, Ops!Alloc
  <2>7. heap' = {"req"} \cup Flagged'
    BY <2>1, <2>3, <2>6 DEF Flagged
  <2>8. free1' \in BOOLEAN /\ free2' \in BOOLEAN /\ ~wild'
    BY <1>1, <2>1, <2>6 DEF OpTypes
  <2>9. QED BY <2>5, <2>7, <2>8
<1>7. CASE Ops!OpenCall
  <2>1. Same /\ type' \notin Ops!Syncs
    BY <1>1, <1>7 DEF Ops!OpenCall, Ops!Syncs
  <2>2. Answers
    BY <1>7, AnswerGood, AnswerFails DEF Ops!OpenCall, Answers, Reasons
  <2>3. QED BY <1>3, <2>1, <2>2, AnswersWill
<1>8. CASE Ops!CloseWd
  <2>1. Same /\ type' \notin Ops!Syncs
    BY <1>1, <1>8 DEF Ops!CloseWd, Ops!Syncs
  <2>2. Answers
    BY <1>8, AnswerGood, AnswerFails DEF Ops!CloseWd, Answers, Reasons
  <2>3. QED BY <1>3, <2>1, <2>2, AnswersWill
<1>9. CASE Ops!Scandir
  <2>1. type' \notin Ops!Syncs /\ type \notin Ops!TwoPaths /\ type \in Ops!OnePath
    BY <1>1, <1>9 DEF Ops!Scandir, Ops!Syncs, Ops!TwoPaths, Ops!OnePath
  <2>2. free1 /\ ~free2 /\ ptr1 = "path"
    BY <1>1, <2>1 DEF Sent
  <2>3. heap = {"req", "path"}
    BY <1>1, <2>2 DEF Sent, Flagged
  <2>4. CASE Same /\ Ops!Answer(-1, "of the call")
    <3>1. Answers
      BY <2>4, AnswerFails DEF Answers, Reasons
    <3>2. QED BY <1>3, <2>1, <2>4, <3>1, AnswersWill
  <2>5. CASE ~(Same /\ Ops!Answer(-1, "of the call"))
    <3>1. /\ Ops!FlagBoth
          /\ \E dnt, names \in BOOLEAN :
               /\ ptr1' = IF dnt THEN "dents" ELSE "null"
               /\ ptr2' = IF names THEN "names" ELSE "null"
               /\ heap' = (heap \ {"path"}) \cup ({ptr1', ptr2'} \ {"null"})
               /\ (names /\ Ops!Answer(0, "")) \/ Ops!Answer(-1, "of the call")
          /\ wild' = (wild \/ (free1 /\ ptr1 \notin heap))
      BY <1>9, <2>5 DEF Ops!Scandir
    <3>2. free1' = TRUE /\ free2' = TRUE
      BY <3>1 DEF Ops!FlagBoth
    <3>3. ~wild'
      BY <1>1, <2>2, <2>3, <3>1 DEF OpTypes
    <3>4. heap' = (heap \ {"path"}) \cup ({ptr1', ptr2'} \ {"null"})
      BY <3>1
    <3>5. heap' = {"req"} \cup Flagged'
      BY <2>3, <3>2, <3>4 DEF Flagged
    <3>6. Answers
      BY <3>1, AnswerGood, AnswerFails DEF Answers, Reasons
    <3>7. QED BY <2>1, <3>2, <3>3, <3>5, <3>6, AnswersWill
  <2>6. QED BY <2>4, <2>5
<1>10. CASE Ops!SyncCall
  <2>1. Same
    BY <1>10 DEF Ops!SyncCall
  <2> DEFINE Good == Ops!Answer(0, "") /\ IF type = "sync_file_range"
                                          THEN int2 = Ops!RangeFlags => "data" \in durable'
                                          ELSE durable' = Ops!Whole
             Fails == Ops!Answer(-1, "of the call")
             Lacks == Ops!Answer(-1, "ENOSYS") /\ (int1 # "negative" => durable' = Ops!Whole)
  <2>0. durable \subseteq Ops!Whole /\ type' = type /\ int1' = int1 /\ int2' = int2
    BY <1>1 DEF Sent, Ops!Execute
  <2>2. Good \/ Fails \/ Lacks
    <3>1. CASE type = "sync"
      BY <1>10, <3>1 DEF Ops!SyncCall
    <3>2. CASE type = "syncfs"
      <4>1. Ops!Flush(Ops!Whole) => Good \/ Fails
        BY <2>0, <3>2 DEF Ops!Flush
      <4>2. Ops!SyncfsCall
        BY <1>10, <3>2 DEF Ops!SyncCall
      <4>3. QED BY <4>1, <4>2 DEF Ops!SyncfsCall, Ops!NotThere
    <3>3. CASE type = "sync_file_range"
      <4>1. Ops!Flush(Ops!Whole) => Good \/ Fails
        BY <3>3 DEF Ops!Flush, Ops!Whole
      <4>2. Ops!Flush(IF int2 = Ops!RangeFlags THEN {"data"} ELSE {}) => Good \/ Fails
        BY <3>3 DEF Ops!Flush
      <4>3. Ops!FileRangeCall
        BY <1>10, <3>3 DEF Ops!SyncCall
      <4>4. QED BY <4>1, <4>2, <4>3 DEF Ops!FileRangeCall
    <3>4. CASE type \notin {"sync", "syncfs", "sync_file_range"}
      <4>1. Ops!Flush(Ops!Whole)
        BY <1>10, <3>4 DEF Ops!SyncCall
      <4>2. QED BY <2>0, <3>4, <4>1 DEF Ops!Flush
    <3>5. QED BY <3>1, <3>2, <3>3, <3>4
  <2>3. CASE Good
    <3>1. value' = 0
      BY <2>3, AnswerGood
    <3>2. value' # -1
      BY <3>1
    <3>3. Ops!Stored'
      BY <2>0, <2>3, <3>2 DEF Ops!Stored, Ops!Syncs, Ops!Whole, Ops!RangeFlags
    <3>4. Answered'
      BY <3>1, <3>2, <3>3 DEF Answered
    <3>5. QED BY <1>3, <2>1, <3>4
  <2>4. CASE Fails
    <3>1. value' = -1 /\ errorno' = "of the call"
      BY <2>4, AnswerFails
    <3>2. value' # 0
      <4>1. value' = -1
        BY <3>1
      <4>2. QED BY <4>1
    <3>3. errorno' \in Reasons
      BY <3>1 DEF Reasons
    <3>4. errorno' # "ENOSYS"
      BY <3>1
    <3>5. Answered'
      BY <3>1, <3>2, <3>3, <3>4 DEF Answered, Ops!Stored
    <3>6. QED BY <1>3, <2>1, <3>5
  <2>5. CASE Lacks
    <3>1. value' = -1 /\ errorno' \in Reasons
      BY <2>5, AnswerFails DEF Reasons
    <3>2. value' # 0
      BY <3>1
    <3>3. Ops!Stored'
      BY <2>0, <2>5, <3>2 DEF Ops!Stored
    <3>4. Answered'
      BY <3>1, <3>2, <3>3 DEF Answered
    <3>5. QED BY <1>3, <2>1, <3>4
  <2>6. QED BY <2>2, <2>3, <2>4, <2>5
<1>11. QED BY <1>4, <1>5, <1>6, <1>7, <1>8, <1>9, <1>10 DEF Ops!Execute

LEMMA OpCancelKeeps ==
  ASSUME OpInv, Ops!Cancel
  PROVE  OpInv'
BY DEF OpInv, OpTypes, Unmade, Refused, Sent, Executed, Gone, Answered, Flagged, Ops!Cancel, Ops!Stored

LEMMA FinishKeeps ==
  ASSUME OpInv, Ops!Finish
  PROVE  OpInv'
<1>1. /\ OpTypes /\ Executed /\ stage' = "gone" /\ told' = ~dropped
      /\ heap' = heap \ ({"req"} \cup Flagged)
      /\ wild' = (wild \/ ~(({"req"} \cup Flagged) \subseteq heap))
      /\ type' = type /\ free1' = free1 /\ free2' = free2 /\ value' = value /\ errorno' = errorno
      /\ dropped' = dropped /\ durable' = durable /\ int1' = int1 /\ int2' = int2
  BY DEF OpInv, Ops!Finish, Ops!Frees, Flagged
<1>2. heap' = {} /\ ~wild'
  BY <1>1 DEF OpTypes, Executed
<1>3. Answered'
  BY <1>1 DEF Executed, Answered, Ops!Stored
<1>4. QED BY <1>1, <1>2, <1>3 DEF OpInv, OpTypes, Gone

LEMMA OpKeeps ==
  ASSUME OpInv, [Ops!Next]_opOf
  PROVE  OpInv'
<1>1. CASE UNCHANGED opOf
  <2>1. /\ stage' = stage /\ type' = type /\ int1' = int1 /\ int2' = int2
        /\ ptr1' = ptr1 /\ ptr2' = ptr2 /\ free1' = free1 /\ free2' = free2
        /\ value' = value /\ errorno' = errorno /\ dropped' = dropped /\ heap' = heap
        /\ opened' = opened /\ told' = told /\ durable' = durable /\ wild' = wild
    BY <1>1 DEF opOf
  <2>2. OpTypes' = OpTypes /\ Unmade' = Unmade /\ Refused' = Refused /\ Flagged' = Flagged
    BY <2>1 DEF OpTypes, Unmade, Refused, Flagged
  <2>3. Answered' = Answered
    BY <2>1 DEF Answered, Ops!Stored
  <2>4. Sent' = Sent
    BY <2>1, <2>2 DEF Sent
  <2>5. Executed' = Executed /\ Gone' = Gone
    BY <2>1, <2>2, <2>3 DEF Executed, Gone
  <2>6. QED BY <2>1, <2>2, <2>4, <2>5 DEF OpInv
<1>2. QED BY <1>1, MakeKeeps, ExecuteKeeps, OpCancelKeeps, FinishKeeps DEF Ops!Next

LEMMA OpShows == OpInv => Ops!FreedOnce
BY DEF OpInv, OpTypes, Unmade, Refused, Sent, Executed, Gone, Answered, Reasons, Ops!FreedOnce


----------------------------------------------------------------------------
(* How a group is fed.                                                      *)

Kinds == {"member", "group"}
AllMembers(q) == \A n \in 1 .. Len(q) : q[n] = "member"
OneGroup(q) ==
  \E n \in 1 .. Len(q) :
    q[n] = "group" /\ \A m \in 1 .. Len(q) : m # n => q[m] = "member"

\* Members that were executed, at the group's priority.
Members == Len(results) - (IF phase = "queued" THEN 1 ELSE 0)

GroupTypes ==
  /\ size \in Int /\ limit \in Int /\ left \in Int /\ waiting \in Nat /\ low \in Nat
  /\ feed \in BOOLEAN /\ cancelled \in BOOLEAN
  /\ phase \in {"queued", "delayed", "finished"}
  /\ trying \in {"no", "dec", "user", "fed dec", "fed user"}
  /\ results \in Seq(Kinds)

\* The group counts every member that is somewhere, it is itself among the
\* results until it was polled once, and between two tries of the feeder there
\* is no room for more, or nobody to ask.
Counted == size = waiting + low + Members
OnceThere == IF phase = "queued" THEN OneGroup(results) ELSE AllMembers(results)
Sated == trying \notin {"dec", "user"} => ~feed \/ cancelled \/ size >= limit
AtEnd == phase = "finished" => trying = "no" /\ size = 0

GroupInv == GroupTypes /\ Counted /\ OnceThere /\ Sated /\ AtEnd

\* What the head and the rest of the results are.
LEMMA RestIs ==
  ASSUME NEW q \in Seq(Kinds), q # <<>>
  PROVE  /\ Len(q) \in Nat /\ Len(q) >= 1 /\ Head(q) = q[1]
         /\ Tail(q) \in Seq(Kinds) /\ Len(Tail(q)) = Len(q) - 1
         /\ \A n \in 1 .. Len(q) - 1 : Tail(q)[n] = q[n + 1]
OBVIOUS

LEMMA RestOfMembers ==
  ASSUME NEW q \in Seq(Kinds), q # <<>>, AllMembers(q)
  PROVE  Head(q) # "group" /\ AllMembers(Tail(q))
<1>1. q[1] = "member" /\ Head(q) = q[1]
  BY RestIs DEF AllMembers
<1>2. ASSUME NEW n \in 1 .. Len(Tail(q))
      PROVE  Tail(q)[n] = "member"
  <2>1. n + 1 \in 1 .. Len(q) /\ Tail(q)[n] = q[n + 1]
    BY <1>2, RestIs
  <2>2. QED BY <2>1 DEF AllMembers
<1>3. QED BY <1>1, <1>2 DEF AllMembers

LEMMA RestOfOne ==
  ASSUME NEW q \in Seq(Kinds), OneGroup(q)
  PROVE  /\ q # <<>>
         /\ Head(q) = "group" => AllMembers(Tail(q))
         /\ Head(q) = "member" => OneGroup(Tail(q))
<1>1. PICK g \in 1 .. Len(q) : q[g] = "group" /\ \A m \in 1 .. Len(q) : m # g => q[m] = "member"
  BY DEF OneGroup
<1>2. q # <<>>
  BY <1>1
<1>3. /\ Len(q) \in Nat /\ Head(q) = q[1] /\ Len(Tail(q)) = Len(q) - 1
      /\ \A n \in 1 .. Len(q) - 1 : Tail(q)[n] = q[n + 1]
  BY <1>2, RestIs
<1>4. ASSUME Head(q) = "group"
      PROVE  AllMembers(Tail(q))
  <2>1. g = 1
    BY <1>1, <1>3, <1>4
  <2>2. ASSUME NEW n \in 1 .. Len(Tail(q))
        PROVE  Tail(q)[n] = "member"
    <3>1. n + 1 \in 1 .. Len(q) /\ n + 1 # g /\ Tail(q)[n] = q[n + 1]
      BY <1>3, <2>1, <2>2
    <3>2. QED BY <1>1, <3>1
  <2>3. QED BY <2>2 DEF AllMembers
<1>5. ASSUME Head(q) = "member"
      PROVE  OneGroup(Tail(q))
  <2>1. q[g] # q[1]
    BY <1>1, <1>3, <1>5
  <2>2. g # 1
    BY <2>1
  <2>3. g - 1 \in 1 .. Len(Tail(q)) /\ Tail(q)[g - 1] = "group"
    <3>1. g - 1 \in 1 .. Len(q) - 1 /\ (g - 1) + 1 = g
      BY <1>3, <2>2
    <3>2. QED BY <1>1, <1>3, <3>1
  <2>4. ASSUME NEW m \in 1 .. Len(Tail(q)), m # g - 1
        PROVE  Tail(q)[m] = "member"
    <3>1. m + 1 \in 1 .. Len(q) /\ m + 1 # g /\ Tail(q)[m] = q[m + 1]
      BY <1>3, <2>4
    <3>2. QED BY <1>1, <3>1
  <2>5. QED BY <2>3, <2>4 DEF OneGroup
<1>6. QED BY <1>2, <1>4, <1>5

LEMMA OneMore ==
  ASSUME NEW q \in Seq(Kinds)
  PROVE  /\ Append(q, "member") \in Seq(Kinds)
         /\ Len(q) \in Nat /\ Len(Append(q, "member")) = Len(q) + 1
         /\ AllMembers(q) => AllMembers(Append(q, "member"))
         /\ OneGroup(q) => OneGroup(Append(q, "member"))
<1>1. /\ Append(q, "member") \in Seq(Kinds)
      /\ Len(q) \in Nat /\ Len(Append(q, "member")) = Len(q) + 1
      /\ \A n \in 1 .. Len(q) : Append(q, "member")[n] = q[n]
      /\ Append(q, "member")[Len(q) + 1] = "member"
  BY DEF Kinds
<1>2. \A n \in 1 .. Len(q) + 1 : n \in 1 .. Len(q) \/ n = Len(q) + 1
  BY <1>1
<1>3. AllMembers(q) => AllMembers(Append(q, "member"))
  BY <1>1, <1>2 DEF AllMembers
<1>4. ASSUME OneGroup(q)
      PROVE  OneGroup(Append(q, "member"))
  <2>1. PICK g \in 1 .. Len(q) : q[g] = "group" /\ \A m \in 1 .. Len(q) : m # g => q[m] = "member"
    BY <1>4 DEF OneGroup
  <2>2. g \in 1 .. Len(q) + 1 /\ Append(q, "member")[g] = "group"
    BY <1>1, <2>1
  <2>3. \A m \in 1 .. Len(q) + 1 : m # g => Append(q, "member")[m] = "member"
    BY <1>1, <1>2, <2>1
  <2>4. QED BY <1>1, <2>2, <2>3 DEF OneGroup
<1>5. QED BY <1>1, <1>3, <1>4

LEMMA GroupInit ==
  ASSUME Grp!Init
  PROVE  GroupInv
<1>1. /\ phase = "queued" /\ size \in {0, 1} /\ limit = 0 /\ feed = FALSE /\ cancelled = FALSE
      /\ trying = "no" /\ left = Work /\ waiting = 0 /\ low = 0
      /\ results = IF size = 1 THEN <<"member", "group">> ELSE <<"group">>
  BY DEF Grp!Init
<1>2. results \in Seq(Kinds) /\ Len(results) = size + 1 /\ OneGroup(results)
  <2>1. CASE size = 1
    <3>1. results \in Seq(Kinds) /\ Len(results) = 2 /\ results[1] = "member" /\ results[2] = "group"
      BY <1>1, <2>1 DEF Kinds
    <3>2. OneGroup(results)
      BY <3>1 DEF OneGroup
    <3>3. QED BY <2>1, <3>1, <3>2
  <2>2. CASE size = 0
    <3>1. results = <<"group">>
      BY <1>1, <2>2
    <3>2. results \in Seq(Kinds) /\ Len(results) = 1 /\ results[1] = "group"
      BY <3>1 DEF Kinds
    <3>3. OneGroup(results)
      BY <3>2 DEF OneGroup
    <3>4. QED BY <2>2, <3>2, <3>3
  <2>3. QED BY <1>1, <2>1, <2>2
<1>3. GroupTypes
  <2>1. size \in Int /\ limit \in Int /\ left \in Int /\ waiting \in Nat /\ low \in Nat
    BY <1>1, EioAssumption
  <2>2. /\ feed \in BOOLEAN /\ cancelled \in BOOLEAN
        /\ phase \in {"queued", "delayed", "finished"}
        /\ trying \in {"no", "dec", "user", "fed dec", "fed user"}
    BY <1>1
  <2>3. QED BY <1>2, <2>1, <2>2 DEF GroupTypes
<1>4. Counted
  BY <1>1, <1>2 DEF Counted, Members
<1>5. OnceThere /\ Sated /\ AtEnd
  BY <1>1, <1>2 DEF OnceThere, Sated, AtEnd
<1>6. QED BY <1>3, <1>4, <1>5 DEF GroupInv

\* How many members there are among the results.
LEMMA MembersIs ==
  ASSUME GroupInv
  PROVE  /\ results \in Seq(Kinds) /\ Len(results) \in Nat /\ Members \in Nat
         /\ phase = "queued" => OneGroup(results) /\ Members = Len(results) - 1
         /\ phase # "queued" => AllMembers(results) /\ Members = Len(results)
<1>1. results \in Seq(Kinds) /\ Len(results) \in Nat
  <2>1. results \in Seq(Kinds)
    BY DEF GroupInv, GroupTypes
  <2>2. QED BY <2>1
<1>2. CASE phase = "queued"
  <2>1. OneGroup(results)
    BY <1>2 DEF GroupInv, OnceThere
  <2>2. Len(results) >= 1
    BY <1>1, <2>1 DEF OneGroup
  <2>3. Members = Len(results) - 1
    BY <1>2 DEF Members
  <2>4. QED BY <1>1, <1>2, <2>1, <2>2, <2>3
<1>3. CASE phase # "queued"
  <2>1. AllMembers(results)
    BY <1>3 DEF GroupInv, OnceThere
  <2>2. Members = Len(results)
    BY <1>1, <1>3 DEF Members
  <2>3. QED BY <1>1, <1>3, <2>1, <2>2
<1>4. QED BY <1>2, <1>3

\* A group that has no members has no results either, but its own.
LEMMA NoneLeft ==
  ASSUME GroupInv, size = 0
  PROVE  /\ waiting = 0 /\ low = 0
         /\ phase = "queued" => Len(results) = 1
         /\ phase # "queued" => results = <<>>
<1>1. size = waiting + low + Members /\ waiting \in Nat /\ low \in Nat
  BY DEF GroupInv, GroupTypes, Counted
<1>2. waiting = 0 /\ low = 0 /\ Members = 0
  <2>1. Members \in Nat
    BY MembersIs
  <2>2. QED BY <1>1, <2>1
<1>3. phase = "queued" => Len(results) = 1
  BY <1>2, MembersIs
<1>4. phase # "queued" => Len(results) = 0
  BY <1>2, MembersIs
<1>5. phase # "queued" => results = <<>>
  BY <1>4, MembersIs
<1>6. QED BY <1>2, <1>3, <1>5

\* A step that leaves the group and the results where they are.
LEMMA SameResults ==
  ASSUME GroupInv, phase' = phase, results' = results
  PROVE  Members' = Members /\ OnceThere'
<1>1. Members' = Members
  BY DEF Members
<1>2. OnceThere
  BY DEF GroupInv
<1>3. QED BY <1>1, <1>2 DEF OnceThere

\* What is known of the numbers, and of the rest.
LEMMA GroupNumbers ==
  ASSUME GroupInv
  PROVE  /\ size \in Int /\ limit \in Int /\ left \in Int /\ waiting \in Nat /\ low \in Nat
         /\ Members \in Nat /\ size = waiting + low + Members /\ size >= 0
<1>1. size \in Int /\ limit \in Int /\ left \in Int /\ waiting \in Nat /\ low \in Nat
  BY DEF GroupInv, GroupTypes
<1>2. Members \in Nat
  BY MembersIs
<1>3. size = waiting + low + Members
  BY DEF GroupInv, Counted
<1>4. size >= 0
  BY <1>1, <1>2, <1>3
<1>5. QED BY <1>1, <1>2, <1>3, <1>4

LEMMA GroupNames ==
  ASSUME GroupInv
  PROVE  /\ feed \in BOOLEAN /\ cancelled \in BOOLEAN
         /\ phase \in {"queued", "delayed", "finished"}
         /\ trying \in {"no", "dec", "user", "fed dec", "fed user"}
         /\ results \in Seq(Kinds)
BY DEF GroupInv, GroupTypes

\* What has to be shown of a step.
LEMMA GroupBy ==
  ASSUME size' \in Int /\ limit' \in Int /\ left' \in Int /\ waiting' \in Nat /\ low' \in Nat,
         feed' \in BOOLEAN /\ cancelled' \in BOOLEAN,
         phase' \in {"queued", "delayed", "finished"},
         trying' \in {"no", "dec", "user", "fed dec", "fed user"},
         results' \in Seq(Kinds),
         size' = waiting' + low' + Members', OnceThere', Sated', AtEnd'
  PROVE  GroupInv'
<1>1. GroupTypes'
  BY DEF GroupTypes
<1>2. Counted'
  BY DEF Counted
<1>3. QED BY <1>1, <1>2 DEF GroupInv

LEMMA RoundKeeps ==
  ASSUME GroupInv, Grp!Round
  PROVE  GroupInv' /\ Grp!FedStep
<1>1. PICK k \in 0 .. Batch :
       /\ feed /\ left > 0 <=> k > 0
       /\ k <= left /\ left' = left - k
       /\ size' = size + k /\ waiting' = waiting + k
       /\ cancelled' \in IF feed THEN {cancelled, TRUE} ELSE {cancelled}
       /\ feed' = (feed /\ k > 0)
       /\ trying' = IF k = 0 THEN Grp!Done(trying) ELSE trying
  BY DEF Grp!Round
<1>2. /\ trying \in {"dec", "user"} /\ ~cancelled
      /\ phase' = phase /\ limit' = limit /\ results' = results /\ low' = low
  BY DEF Grp!Round, Grp!Hungry
<1>3. k \in Nat
  BY <1>1, EioAssumption
<1>4. Members' = Members /\ OnceThere'
  BY <1>2, SameResults
<1>5. size' \in Int /\ limit' \in Int /\ left' \in Int /\ waiting' \in Nat /\ low' \in Nat
  BY <1>1, <1>2, <1>3, GroupNumbers
<1>6. size' = waiting' + low' + Members'
  BY <1>1, <1>2, <1>3, <1>4, GroupNumbers
<1>7. feed' \in BOOLEAN /\ (k = 0 => ~feed')
  <2>1. (feed /\ k > 0) \in BOOLEAN
    OBVIOUS
  <2>2. feed' \in BOOLEAN
    BY <1>1, <2>1, Zenon
  <2>3. k = 0 => ~(k > 0)
    OBVIOUS
  <2>4. QED BY <1>1, <2>2, <2>3, Zenon
<1>8. cancelled' \in BOOLEAN
  BY <1>1, GroupNames
<1>9. /\ trying' \in {"dec", "user", "fed dec", "fed user"}
      /\ trying' \in {"dec", "user"} \/ k = 0
  BY <1>1, <1>2 DEF Grp!Done
<1>10. Sated'
  BY <1>7, <1>9 DEF Sated
<1>11. phase # "finished" /\ trying # "no"
  BY <1>2 DEF GroupInv, AtEnd
<1>12. AtEnd'
  BY <1>2, <1>11 DEF AtEnd
<1>13. results' \in Seq(Kinds) /\ phase' \in {"queued", "delayed", "finished"}
  BY <1>2, GroupNames
<1>14. GroupInv'
  BY <1>4, <1>5, <1>6, <1>7, <1>8, <1>9, <1>10, <1>12, <1>13, GroupBy
<1>15. Grp!FedStep
  BY <1>2, <1>11 DEF Grp!FedStep
<1>16. QED BY <1>14, <1>15

LEMMA FedKeeps ==
  ASSUME GroupInv, Grp!Fed
  PROVE  GroupInv' /\ Grp!FedStep
<1>1. /\ trying \in {"dec", "user"} /\ ~(size < limit /\ ~cancelled) /\ trying' = Grp!Done(trying)
      /\ phase' = phase /\ size' = size /\ limit' = limit /\ feed' = feed /\ cancelled' = cancelled
      /\ left' = left /\ waiting' = waiting /\ results' = results /\ low' = low
  BY DEF Grp!Fed, Grp!Hungry
<1>2. Members' = Members /\ OnceThere'
  BY <1>1, SameResults
<1>3. /\ size' \in Int /\ limit' \in Int /\ left' \in Int /\ waiting' \in Nat /\ low' \in Nat
      /\ size' = waiting' + low' + Members'
  BY <1>1, <1>2, GroupNumbers
<1>4. trying' \in {"fed dec", "fed user"} /\ phase # "finished"
  BY <1>1 DEF Grp!Done, GroupInv, AtEnd
<1>5. size >= limit \/ cancelled
  BY <1>1, GroupNumbers
<1>6. Sated' /\ AtEnd'
  BY <1>1, <1>4, <1>5 DEF Sated, AtEnd
<1>7. GroupInv'
  BY <1>1, <1>2, <1>3, <1>4, <1>6, GroupNames, GroupBy
<1>8. QED BY <1>1, <1>4, <1>7 DEF Grp!FedStep

\* The end of a group: nothing of it is anywhere, and no one is left to ask.
LEMMA EndIs ==
  ASSUME GroupInv, size = 0, trying \notin {"dec", "user"}
  PROVE  feed => cancelled \/ limit <= 0
BY GroupNumbers DEF GroupInv, Sated

LEMMA FedReturnKeeps ==
  ASSUME GroupInv, Grp!FedReturn
  PROVE  GroupInv' /\ Grp!FedStep
<1>1. /\ trying \in {"fed dec", "fed user"} /\ trying' = "no"
      /\ phase' = IF trying = "fed dec" /\ size = 0 /\ phase = "delayed" THEN "finished" ELSE phase
      /\ size' = size /\ limit' = limit /\ feed' = feed /\ cancelled' = cancelled
      /\ left' = left /\ waiting' = waiting /\ results' = results /\ low' = low
  BY DEF Grp!FedReturn, Grp!LastGone
<1>2. phase # "finished" /\ (phase' = "queued" <=> phase = "queued")
  BY <1>1 DEF GroupInv, AtEnd
<1>3. Members' = Members
  BY <1>1, <1>2 DEF Members
<1>4. OnceThere'
  BY <1>1, <1>2 DEF GroupInv, OnceThere
<1>5. /\ size' \in Int /\ limit' \in Int /\ left' \in Int /\ waiting' \in Nat /\ low' \in Nat
      /\ size' = waiting' + low' + Members'
  BY <1>1, <1>3, GroupNumbers
<1>6. Sated
  BY DEF GroupInv
<1>7. Sated'
  BY <1>1, <1>6 DEF Sated
<1>8. phase' = "finished" => size = 0 /\ phase = "delayed"
  BY <1>1, <1>2
<1>9. AtEnd'
  BY <1>1, <1>8 DEF AtEnd
<1>10. phase' \in {"queued", "delayed", "finished"} /\ results' \in Seq(Kinds)
  BY <1>1, GroupNames
<1>11. feed' \in BOOLEAN /\ cancelled' \in BOOLEAN
  BY <1>1, GroupNames
<1>12. GroupInv'
  BY <1>1, <1>4, <1>5, <1>7, <1>9, <1>10, <1>11, GroupBy
<1>13. ASSUME phase' = "finished"
       PROVE  /\ size' = 0 /\ waiting' = 0 /\ low' = 0 /\ results' = <<>>
              /\ feed' => cancelled' \/ limit' <= 0
  <2>1. size = 0 /\ phase # "queued" /\ trying \notin {"dec", "user"}
    BY <1>1, <1>8, <1>13
  <2>2. waiting = 0 /\ low = 0 /\ results = <<>>
    BY <2>1, NoneLeft
  <2>3. feed => cancelled \/ limit <= 0
    BY <2>1, EndIs
  <2>4. QED BY <1>1, <2>1, <2>2, <2>3
<1>14. QED BY <1>1, <1>2, <1>12, <1>13 DEF Grp!FedStep

LEMMA PollGroupKeeps ==
  ASSUME GroupInv, Grp!PollGroup
  PROVE  GroupInv' /\ Grp!FedStep
<1>1. /\ trying = "no" /\ trying' = "no" /\ results # <<>> /\ Head(results) = "group"
      /\ results' = Tail(results)
      /\ phase' = IF size > 0 THEN "delayed" ELSE "finished"
      /\ size' = size /\ limit' = limit /\ feed' = feed /\ cancelled' = cancelled
      /\ left' = left /\ waiting' = waiting /\ low' = low
  BY DEF Grp!PollGroup
<1>2. phase = "queued"
  BY <1>1, MembersIs, RestOfMembers
<1>3. AllMembers(results') /\ results' \in Seq(Kinds) /\ Len(results') = Len(results) - 1
  BY <1>1, <1>2, MembersIs, RestOfOne, RestIs
<1>4. phase' # "queued" /\ phase' \in {"queued", "delayed", "finished"}
  BY <1>1
<1>5. Members' = Members
  <2>1. Members' = Len(results')
    BY <1>3, <1>4 DEF Members
  <2>2. QED BY <1>2, <1>3, <2>1, MembersIs
<1>6. OnceThere'
  BY <1>3, <1>4 DEF OnceThere
<1>7. /\ size' \in Int /\ limit' \in Int /\ left' \in Int /\ waiting' \in Nat /\ low' \in Nat
      /\ size' = waiting' + low' + Members'
  BY <1>1, <1>5, GroupNumbers
<1>8. Sated
  BY DEF GroupInv
<1>9. Sated'
  BY <1>1, <1>8 DEF Sated
<1>10. phase' = "finished" => size = 0
  BY <1>1, GroupNumbers
<1>11. AtEnd'
  BY <1>1, <1>10 DEF AtEnd
<1>12. feed' \in BOOLEAN /\ cancelled' \in BOOLEAN
  BY <1>1, GroupNames
<1>13. GroupInv'
  BY <1>1, <1>3, <1>4, <1>6, <1>7, <1>9, <1>11, <1>12, GroupBy
<1>14. ASSUME phase' = "finished"
       PROVE  /\ size' = 0 /\ waiting' = 0 /\ low' = 0 /\ results' = <<>>
              /\ feed' => cancelled' \/ limit' <= 0
  <2>1. size = 0 /\ trying \notin {"dec", "user"}
    BY <1>1, <1>10, <1>14
  <2>2. waiting = 0 /\ low = 0 /\ Len(results') = 0
    <3>1. waiting = 0 /\ low = 0 /\ Len(results) = 1
      BY <1>2, <2>1, NoneLeft
    <3>2. QED BY <1>3, <3>1
  <2>3. results' = <<>>
    BY <1>3, <2>2
  <2>4. feed => cancelled \/ limit <= 0
    BY <2>1, EndIs
  <2>5. QED BY <1>1, <2>1, <2>2, <2>3, <2>4
<1>15. QED BY <1>1, <1>2, <1>13, <1>14 DEF Grp!FedStep

LEMMA PollMemberKeeps ==
  ASSUME GroupInv, Grp!PollMember
  PROVE  GroupInv' /\ Grp!FedStep
<1>1. /\ trying = "no" /\ trying' = "dec"
      /\ phase' = phase /\ limit' = limit /\ feed' = feed /\ cancelled' = cancelled /\ left' = left
      /\ \/ size' = size - 1 /\ waiting' = waiting
         \/ size' = size /\ waiting' = waiting + 1
  BY DEF Grp!PollMember
<1>2. \/ results # <<>> /\ Head(results) = "member" /\ results' = Tail(results) /\ low' = low
      \/ results = <<>> /\ low > 0 /\ low' = low - 1 /\ results' = results
  BY DEF Grp!PollMember
<1>3. /\ results' \in Seq(Kinds) /\ OnceThere' /\ low' \in Nat
      /\ \/ Members' = Members - 1 /\ low' = low
         \/ Members' = Members /\ low' = low - 1
  <2>1. CASE results # <<>> /\ Head(results) = "member" /\ results' = Tail(results) /\ low' = low
    <3>1. results' \in Seq(Kinds) /\ Len(results') = Len(results) - 1 /\ Len(results) \in Nat
      BY <2>1, MembersIs, RestIs
    <3>2. phase = "queued" => OneGroup(results')
      BY <2>1, MembersIs, RestOfOne
    <3>3. phase # "queued" => AllMembers(results')
      BY <2>1, MembersIs, RestOfMembers
    <3>4. OnceThere'
      BY <1>1, <3>2, <3>3 DEF OnceThere
    <3>5. Members' = Members - 1
      BY <1>1, <3>1 DEF Members
    <3>6. low \in Nat /\ Members \in Nat
      BY GroupNumbers
    <3>7. QED BY <2>1, <3>1, <3>4, <3>5, <3>6
  <2>2. CASE results = <<>> /\ low > 0 /\ low' = low - 1 /\ results' = results
    <3>1. Members' = Members /\ OnceThere'
      BY <1>1, <2>2, SameResults
    <3>2. low \in Nat /\ Members \in Nat
      BY GroupNumbers
    <3>3. low' \in Nat
      BY <2>2, <3>2
    <3>4. results' \in Seq(Kinds)
      BY <2>2, GroupNames
    <3>5. QED BY <2>2, <3>1, <3>3, <3>4
  <2>3. QED BY <1>2, <2>1, <2>2
<1>4. phase # "finished"
  <2>1. ASSUME phase = "finished" PROVE FALSE
    <3>1. size = 0 /\ phase # "queued"
      BY <2>1 DEF GroupInv, AtEnd
    <3>2. results = <<>> /\ low = 0
      BY <3>1, NoneLeft
    <3>3. QED BY <1>2, <3>2
  <2>2. QED BY <2>1
<1>5. /\ size' \in Int /\ waiting' \in Nat
      /\ size' = waiting' + low' + Members'
  <2>1. /\ size \in Int /\ waiting \in Nat /\ low \in Nat /\ Members \in Nat
        /\ size = waiting + low + Members
    BY GroupNumbers
  <2>2. ASSUME Members' = Members - 1 /\ low' = low
        PROVE  size' \in Int /\ waiting' \in Nat /\ size' = waiting' + low' + Members'
    BY <1>1, <2>1, <2>2
  <2>3. ASSUME Members' = Members /\ low' = low - 1
        PROVE  size' \in Int /\ waiting' \in Nat /\ size' = waiting' + low' + Members'
    BY <1>1, <2>1, <2>3
  <2>4. QED BY <1>3, <2>2, <2>3
<1>6. limit' \in Int /\ left' \in Int
  BY <1>1, GroupNumbers
<1>7. Sated' /\ AtEnd'
  BY <1>1, <1>4 DEF Sated, AtEnd
<1>8. feed' \in BOOLEAN /\ cancelled' \in BOOLEAN /\ phase' \in {"queued", "delayed", "finished"}
  BY <1>1, GroupNames
<1>9. GroupInv'
  BY <1>1, <1>3, <1>5, <1>6, <1>7, <1>8, GroupBy
<1>10. QED BY <1>1, <1>4, <1>9 DEF Grp!FedStep

LEMMA Work1Keeps ==
  ASSUME GroupInv, Grp!Work1
  PROVE  GroupInv' /\ Grp!FedStep
<1>1. /\ waiting > 0 /\ waiting' = waiting - 1
      /\ phase' = phase /\ size' = size /\ limit' = limit /\ feed' = feed
      /\ cancelled' = cancelled /\ left' = left /\ trying' = trying
  BY DEF Grp!Work1
<1>2. \/ results' = Append(results, "member") /\ low' = low
      \/ results' = results /\ low' = low + 1
  BY DEF Grp!Work1
<1>3. /\ results' \in Seq(Kinds) /\ OnceThere' /\ low' \in Nat
      /\ \/ Members' = Members + 1 /\ low' = low
         \/ Members' = Members /\ low' = low + 1
  <2>1. CASE results' = Append(results, "member") /\ low' = low
    <3>1. results' \in Seq(Kinds) /\ Len(results') = Len(results) + 1 /\ Len(results) \in Nat
      BY <2>1, MembersIs, OneMore
    <3>2. OnceThere'
      BY <1>1, <2>1, MembersIs, OneMore DEF OnceThere
    <3>3. Members' = Members + 1
      BY <1>1, <3>1 DEF Members
    <3>4. low \in Nat /\ Members \in Nat
      BY GroupNumbers
    <3>5. QED BY <2>1, <3>1, <3>2, <3>3, <3>4
  <2>2. CASE results' = results /\ low' = low + 1
    <3>1. Members' = Members /\ OnceThere'
      BY <1>1, <2>2, SameResults
    <3>2. low \in Nat /\ Members \in Nat
      BY GroupNumbers
    <3>3. results' \in Seq(Kinds)
      BY <2>2, GroupNames
    <3>4. QED BY <2>2, <3>1, <3>2, <3>3
  <2>3. QED BY <1>2, <2>1, <2>2
<1>4. /\ size' \in Int /\ waiting' \in Nat /\ limit' \in Int /\ left' \in Int
      /\ size' = waiting' + low' + Members'
  <2>1. /\ size \in Int /\ waiting \in Nat /\ low \in Nat /\ Members \in Nat
        /\ size = waiting + low + Members /\ limit \in Int /\ left \in Int
    BY GroupNumbers
  <2>2. size' \in Int /\ waiting' \in Nat /\ limit' \in Int /\ left' \in Int
    BY <1>1, <2>1
  <2>3. size' = waiting' + low' + Members'
    <3>1. CASE Members' = Members + 1 /\ low' = low
      BY <1>1, <2>1, <3>1
    <3>2. CASE Members' = Members /\ low' = low + 1
      BY <1>1, <2>1, <3>2
    <3>3. QED BY <1>3, <3>1, <3>2
  <2>4. QED BY <2>2, <2>3
<1>5. Sated /\ AtEnd
  BY DEF GroupInv
<1>6. Sated' /\ AtEnd'
  BY <1>1, <1>5 DEF Sated, AtEnd
<1>7. /\ feed' \in BOOLEAN /\ cancelled' \in BOOLEAN /\ phase' \in {"queued", "delayed", "finished"}
      /\ trying' \in {"no", "dec", "user", "fed dec", "fed user"}
  BY <1>1, GroupNames
<1>8. GroupInv'
  BY <1>3, <1>4, <1>6, <1>7, GroupBy
<1>9. QED BY <1>1, <1>8 DEF Grp!FedStep

\* What the user does, who does nothing to a group that is finished.
LEMMA UserKeeps ==
  ASSUME GroupInv, Grp!UserAdds \/ Grp!SetFeed \/ Grp!UserCancels
  PROVE  GroupInv' /\ Grp!FedStep
<1>1. /\ trying = "no" /\ phase # "finished"
      /\ phase' = phase /\ left' = left /\ results' = results /\ low' = low
      /\ limit' = limit \/ limit' \in Limits
      /\ feed' \in {feed, TRUE} /\ cancelled' \in {cancelled, TRUE}
      /\ \/ size' = size /\ waiting' = waiting
         \/ size' = size + 1 /\ waiting' = waiting + 1
  BY DEF Grp!UserAdds, Grp!SetFeed, Grp!UserCancels, Grp!Idle, Grp!Add
<1>2. Members' = Members /\ OnceThere'
  BY <1>1, SameResults
<1>3. /\ size' \in Int /\ limit' \in Int /\ left' \in Int /\ waiting' \in Nat /\ low' \in Nat
      /\ size' = waiting' + low' + Members'
  <2>1. /\ size \in Int /\ waiting \in Nat /\ low \in Nat /\ Members \in Nat
        /\ size = waiting + low + Members /\ limit \in Int /\ left \in Int
    BY GroupNumbers
  <2>2. size' \in Int /\ left' \in Int /\ waiting' \in Nat /\ low' \in Nat
    BY <1>1, <2>1
  <2>3. limit' \in Int
    BY <1>1, <2>1, EioAssumption
  <2>4. size' = waiting' + low' + Members'
    BY <1>1, <1>2, <2>1
  <2>5. QED BY <2>2, <2>3, <2>4
<1>4. ~feed \/ cancelled \/ size >= limit
  BY <1>1 DEF GroupInv, Sated
<1>5. /\ trying' \in {"no", "user"}
      /\ trying' = "user" \/ (feed' = feed /\ limit' = limit /\ size' >= size /\ (cancelled => cancelled'))
  <2>1. CASE Grp!UserAdds
    BY <2>1, GroupNumbers DEF Grp!UserAdds, Grp!Idle, Grp!Add
  <2>2. CASE Grp!SetFeed
    BY <2>2 DEF Grp!SetFeed
  <2>3. CASE Grp!UserCancels
    BY <2>3, GroupNumbers DEF Grp!UserCancels, Grp!Idle
  <2>4. QED BY <2>1, <2>2, <2>3
<1>6. Sated'
  <2>1. CASE trying' = "user"
    BY <2>1 DEF Sated
  <2>2. CASE trying' # "user"
    <3>1. size' >= limit' \/ ~feed' \/ cancelled'
      BY <1>3, <1>4, <1>5, <2>2, GroupNumbers
    <3>2. QED BY <3>1 DEF Sated
  <2>3. QED BY <2>1, <2>2
<1>7. AtEnd'
  BY <1>1 DEF AtEnd
<1>8. /\ feed' \in BOOLEAN /\ cancelled' \in BOOLEAN
      /\ phase' \in {"queued", "delayed", "finished"} /\ results' \in Seq(Kinds)
      /\ trying' \in {"no", "dec", "user", "fed dec", "fed user"}
  BY <1>1, <1>5, GroupNames
<1>9. GroupInv'
  BY <1>2, <1>3, <1>6, <1>7, <1>8, GroupBy
<1>10. QED BY <1>1, <1>9 DEF Grp!FedStep

LEMMA GroupKeeps ==
  ASSUME GroupInv, Grp!Next
  PROVE  GroupInv' /\ Grp!FedStep
BY RoundKeeps, FedKeeps, FedReturnKeeps, PollGroupKeeps, PollMemberKeeps, Work1Keeps, UserKeeps
   DEF Grp!Next, Grp!PollStep

LEMMA GroupStays ==
  ASSUME GroupInv, UNCHANGED groupOf
  PROVE  GroupInv'
BY DEF groupOf, GroupInv, GroupTypes, Counted, Members, OnceThere, Sated, AtEnd

----------------------------------------------------------------------------
(* Which pages a request on memory touches.                                 *)

\* What the pages are when the caller's bytes end a page before the last address.
Fits == given.addr + given.len + Page <= Word
Whole ==
  /\ \E p, q \in Nat : mem = Page * p /\ len = Page * q
  /\ mem <= given.addr /\ given.addr < mem + Page
  /\ given.addr + given.len <= mem + len
  /\ mem + len < given.addr + given.len + Page

\* n pages from the first one are touched: so far, and when the loop has ended.
Pages(n) == {mem + Page * k : k \in 0 .. n - 1}
Touched(n) ==
  /\ addr = mem + Page * n
  /\ touched = Pages(n) /\ IsFiniteSet(touched) /\ Cardinality(touched) = n
  /\ n > 0 => addr - Page < mem + len
  /\ at = "aligned" /\ n > 0 => addr < len
  /\ at = "done" /\ call = "mtouch" /\ n = 0 => len = 0
  /\ at = "done" /\ call = "mtouch" /\ n > 0 /\ ~halted => addr >= len

MemoryTypes ==
  /\ given \in Regions /\ call \in {"msync", "mlock", "mtouch"}
  /\ at \in {"called", "aligned", "done"}
  /\ at = "aligned" => call = "mtouch"
  /\ at = "called" => touched = {}

MemoryInv ==
  /\ MemoryTypes
  /\ at # "called" /\ Fits => Whole /\ \E n \in Nat : Touched(n)

\* Multiples of a page.
LEMMA PageIs ==
  ASSUME NEW x \in Nat
  PROVE  /\ x % Page \in Nat /\ x % Page < Page /\ x % Page <= x /\ x \div Page \in Nat
         /\ x = Page * (x \div Page) + (x % Page)
<1>1. Page \in Nat \ {0}
  BY EioAssumption
<1>2. x % Page \in Nat /\ x % Page < Page /\ x % Page <= x
  BY <1>1
<1>3. x \div Page \in Nat
  BY <1>1
<1>4. x = Page * (x \div Page) + (x % Page)
  BY <1>1
<1>5. QED BY <1>2, <1>3, <1>4

LEMMA MultipleIs ==
  ASSUME NEW q \in Nat
  PROVE  Page * q \in Nat /\ (Page * q) % Page = 0
<1>1. Page \in Nat \ {0}
  BY EioAssumption
<1>2. QED BY <1>1

LEMMA SmallIs ==
  ASSUME NEW x \in Nat, NEW w \in Nat, x < w
  PROVE  x % w = x
OBVIOUS

LEMMA MoreIs ==
  ASSUME NEW a \in Nat, NEW b \in Nat, a < b
  PROVE  Page * a + Page <= Page * b
<1>1. Page \in Nat \ {0}
  BY EioAssumption
<1>2. QED BY <1>1

LEMMA SumIs ==
  ASSUME NEW a \in Nat, NEW b \in Nat
  PROVE  Page * (a + b) = Page * a + Page * b
<1>1. Page \in Nat \ {0}
  BY EioAssumption
<1>2. QED BY <1>1

\* The page of an address, and the length that goes with it.
LEMMA DownIs ==
  ASSUME NEW x \in Nat
  PROVE  /\ Memory!Down(x) = x - (x % Page)
         /\ Memory!Down(x) = Page * (x \div Page)
<1>1. Memory!Down(x) = x - (x % Page)
  BY DEF Memory!Down
<1>2. /\ x % Page \in Nat /\ x \div Page \in Nat
      /\ x = Page * (x \div Page) + (x % Page)
  BY PageIs
<1>3. Page * (x \div Page) \in Nat
  BY <1>2, MultipleIs
<1>4. QED BY <1>1, <1>2, <1>3

LEMMA AlignedIs ==
  ASSUME MemoryTypes, Fits, mem' = Memory!Aligned(given).mem, len' = Memory!Aligned(given).len,
         given' = given
  PROVE  Whole'
<1>1. PICK a, l : a = given.addr /\ l = given.len
  OBVIOUS
<1>2. a \in Nat /\ l \in Nat /\ a + l + Page <= Word
  <2>1. given.addr \in 0 .. Word - 1 /\ given.len \in 0 .. Word - 1
    BY DEF MemoryTypes, Regions
  <2>2. Word \in Nat
    BY EioAssumption
  <2>3. QED BY <1>1, <2>1, <2>2 DEF Fits
<1>3. Page \in Nat \ {0} /\ Word \in Nat
  BY EioAssumption
<1>4. PICK x \in Nat : x = a % Page /\ x < Page /\ x <= a
  BY <1>2, PageIs
<1>5. PICK y \in Nat : y = l + x + Page - 1
  BY <1>2, <1>3, <1>4
<1>6. y < Word
  BY <1>2, <1>3, <1>4, <1>5
<1>7. mem' = Memory!Down(a) /\ len' = Memory!Down(y)
  <2>1. mem' = Memory!Down(a) /\ len' = Memory!Down((l + (a % Page) + Page - 1) % Word)
    BY <1>1 DEF Memory!Aligned
  <2>2. y % Word = y
    BY <1>3, <1>6, SmallIs
  <2>3. QED BY <1>4, <1>5, <2>1, <2>2
<1>8. PICK r \in Nat : r = y % Page /\ r < Page /\ r <= y
  BY PageIs
<1>9. mem' = a - x /\ len' = y - r
  BY <1>2, <1>4, <1>7, <1>8, DownIs
<1>10. \E p, q \in Nat : mem' = Page * p /\ len' = Page * q
  <2>1. a \div Page \in Nat /\ y \div Page \in Nat
    BY <1>2, PageIs
  <2>2. QED BY <1>2, <1>7, <2>1, DownIs
<1>11. /\ mem' <= a /\ a < mem' + Page
       /\ a + l <= mem' + len' /\ mem' + len' < a + l + Page
  BY <1>2, <1>3, <1>4, <1>5, <1>8, <1>9
<1>12. QED BY <1>1, <1>10, <1>11 DEF Whole

LEMMA MemoryInit == Memory!Init => MemoryInv
BY DEF Memory!Init, MemoryInv, MemoryTypes

LEMMA AlignKeeps ==
  ASSUME MemoryInv, Memory!Align
  PROVE  MemoryInv'
<1>1. /\ at = "called" /\ at' = IF call = "mtouch" THEN "aligned" ELSE "done"
      /\ mem' = Memory!Aligned(given).mem /\ len' = Memory!Aligned(given).len /\ addr' = mem'
      /\ given' = given /\ call' = call /\ touched' = touched /\ halted' = halted
  BY DEF Memory!Align
<1>2. MemoryTypes /\ touched = {}
  BY <1>1 DEF MemoryInv, MemoryTypes
<1>3. MemoryTypes'
  BY <1>1, <1>2 DEF MemoryTypes
<1>4. ASSUME Fits'
      PROVE  Whole' /\ \E n \in Nat : Touched(n)'
  <2>1. Fits
    BY <1>1, <1>4 DEF Fits
  <2>2. Whole'
    BY <1>1, <1>2, <2>1, AlignedIs
  <2>3. mem' \in Nat
    <3>1. PICK p \in Nat : mem' = Page * p
      BY <2>2 DEF Whole
    <3>2. QED BY <3>1, MultipleIs
  <2>4. addr' = mem' + Page * 0
    BY <1>1, <2>3, EioAssumption
  <2>5. touched' = Pages(0)' /\ IsFiniteSet(touched') /\ Cardinality(touched') = 0
    BY <1>1, <1>2, FS_EmptySet DEF Pages
  <2>6. ~(at' = "done" /\ call' = "mtouch")
    BY <1>1
  <2>7. Touched(0)'
    BY <2>4, <2>5, <2>6 DEF Touched
  <2>8. QED BY <2>2, <2>7
<1>5. QED BY <1>3, <1>4 DEF MemoryInv

LEMMA TouchKeeps ==
  ASSUME MemoryInv, Memory!Touch
  PROVE  MemoryInv'
<1>1. /\ at = "aligned" /\ given' = given /\ call' = call /\ mem' = mem /\ len' = len /\ halted' = halted
  BY DEF Memory!Touch
<1>2. MemoryTypes /\ call = "mtouch"
  BY <1>1 DEF MemoryInv, MemoryTypes
<1>3. at' \in {"aligned", "done"}
  BY DEF Memory!Touch
<1>4. MemoryTypes'
  BY <1>1, <1>2, <1>3 DEF MemoryTypes
<1>5. ASSUME Fits'
      PROVE  Whole' /\ \E n \in Nat : Touched(n)'
  <2>1. Whole /\ \E n \in Nat : Touched(n)
    BY <1>1, <1>5 DEF Fits, MemoryInv
  <2>2. Whole'
    BY <1>1, <2>1 DEF Whole
  <2>3. PICK n \in Nat : Touched(n)
    BY <2>1
  <2>4. /\ addr = mem + Page * n
        /\ touched = Pages(n) /\ IsFiniteSet(touched) /\ Cardinality(touched) = n
        /\ n > 0 => addr - Page < mem + len
        /\ n > 0 => addr < len
    BY <1>1, <2>3 DEF Touched
  <2>5. mem \in Nat /\ len \in Nat
    <3>1. PICK p \in Nat, q \in Nat : mem = Page * p /\ len = Page * q
      BY <2>1 DEF Whole
    <3>2. QED BY <3>1, MultipleIs
  <2>6. Page * n \in Nat /\ Page \in Nat \ {0} /\ addr \in Nat
    BY <2>4, <2>5, MultipleIs, EioAssumption
  <2>7. CASE addr = mem /\ touched = {} /\ ~(addr < mem + len)
    <3>1. at' = "done" /\ addr' = addr /\ touched' = touched
      BY <2>7 DEF Memory!Touch
    <3>2. n = 0
      BY <2>4, <2>7, FS_EmptySet
    <3>3. len = 0
      BY <2>5, <2>7
    <3>4. Pages(n)' = Pages(n)
      BY <1>1 DEF Pages
    <3>5. Touched(n)'
      BY <1>1, <2>4, <3>1, <3>2, <3>3, <3>4 DEF Touched
    <3>6. QED BY <2>2, <3>5
  <2>8. CASE ~(addr = mem /\ touched = {} /\ ~(addr < mem + len))
    <3>1. /\ touched' = touched \cup {addr} /\ addr' = addr + Page
          /\ at' = IF addr' < len /\ ~halted THEN "aligned" ELSE "done"
      BY <2>8 DEF Memory!Touch
    <3>2. addr < mem + len
      <4>1. CASE n > 0
        BY <2>4, <2>5, <2>6, <4>1
      <4>2. CASE n = 0
        <5>1. addr = mem /\ touched = {}
          BY <2>4, <2>5, <2>6, <4>2 DEF Pages
        <5>2. QED BY <2>8, <5>1
      <4>3. QED BY <4>1, <4>2
    <3>3. Page * (n + 1) = Page * n + Page * 1 /\ Page * 1 = Page
      BY <2>6, SumIs
    <3>4. addr' = mem' + Page * (n + 1)
      BY <1>1, <2>4, <2>5, <2>6, <3>1, <3>3
    <3>5. touched' = Pages(n + 1)'
      <4>1. \A k : k \in 0 .. (n + 1) - 1 <=> k \in 0 .. n - 1 \/ k = n
        OBVIOUS
      <4>2. Pages(n + 1)' = Pages(n) \cup {mem + Page * n}
        BY <1>1, <4>1 DEF Pages
      <4>3. QED BY <2>4, <3>1, <4>2
    <3>6. IsFiniteSet(touched') /\ Cardinality(touched') = n + 1
      <4>1. addr \notin touched
        <5>1. SUFFICES ASSUME NEW k \in 0 .. n - 1, addr = mem + Page * k PROVE FALSE
          BY <2>4 DEF Pages
        <5>2. k \in Nat /\ k < n
          BY <5>1
        <5>3. Page * k + Page <= Page * n /\ Page * k \in Nat
          BY <5>2, MoreIs, MultipleIs
        <5>4. QED BY <2>4, <2>5, <2>6, <5>1, <5>3
      <4>2. QED BY <2>4, <3>1, <4>1, FS_AddElement
    <3>7. addr' - Page < mem' + len'
      BY <1>1, <2>5, <2>6, <3>1, <3>2
    <3>8. at' = "aligned" => addr' < len'
      BY <1>1, <3>1
    <3>9. at' = "done" /\ ~halted' => addr' >= len'
      <4>1. addr' \in Nat
        BY <2>6, <3>1
      <4>2. QED BY <1>1, <2>5, <3>1, <4>1
    <3>10. n + 1 \in Nat /\ n + 1 # 0
      OBVIOUS
    <3>11. Touched(n + 1)'
      BY <3>4, <3>5, <3>6, <3>7, <3>8, <3>9, <3>10 DEF Touched
    <3>12. QED BY <2>2, <3>10, <3>11
  <2>9. QED BY <2>7, <2>8
<1>6. QED BY <1>4, <1>5 DEF MemoryInv

\* A request that is cancelled may touch fewer pages.
LEMMA HaltKeeps ==
  ASSUME MemoryInv, Memory!Cancel
  PROVE  MemoryInv'
<1>1. /\ at = "aligned" /\ halted' = TRUE /\ given' = given /\ call' = call /\ mem' = mem
      /\ len' = len /\ addr' = addr /\ touched' = touched /\ at' = at
  BY DEF Memory!Cancel
<1>2. MemoryTypes'
  BY <1>1 DEF MemoryInv, MemoryTypes
<1>3. ASSUME Fits'
      PROVE  Whole' /\ \E n \in Nat : Touched(n)'
  <2>1. Whole /\ \E n \in Nat : Touched(n)
    BY <1>1, <1>3 DEF Fits, MemoryInv
  <2>2. Whole'
    BY <1>1, <2>1 DEF Whole
  <2>3. PICK n \in Nat : Touched(n)
    BY <2>1
  <2>4. Pages(n)' = Pages(n)
    BY <1>1 DEF Pages
  <2>5. Touched(n)'
    BY <1>1, <2>3, <2>4 DEF Touched
  <2>6. QED BY <2>2, <2>5
<1>4. QED BY <1>2, <1>3 DEF MemoryInv

LEMMA MemoryStays ==
  ASSUME MemoryInv, UNCHANGED memoryOf
  PROVE  MemoryInv'
<1>1. /\ given' = given /\ call' = call /\ mem' = mem /\ len' = len /\ addr' = addr
      /\ touched' = touched /\ halted' = halted /\ at' = at
  BY DEF memoryOf
<1>2. MemoryTypes'
  BY <1>1 DEF MemoryInv, MemoryTypes
<1>3. ASSUME at' # "called", Fits'
      PROVE  Whole' /\ \E n \in Nat : Touched(n)'
  <2>1. Whole /\ \E n \in Nat : Touched(n)
    BY <1>1, <1>3 DEF Fits, MemoryInv
  <2>2. Whole'
    BY <1>1, <2>1 DEF Whole
  <2>3. PICK n \in Nat : Touched(n)
    BY <2>1
  <2>4. Pages(n)' = Pages(n)
    BY <1>1 DEF Pages
  <2>5. Touched(n)'
    BY <1>1, <2>3, <2>4 DEF Touched
  <2>6. QED BY <2>2, <2>5
<1>4. QED BY <1>2, <1>3 DEF MemoryInv

LEMMA MemoryKeeps ==
  ASSUME MemoryInv, [Memory!Next]_memoryOf
  PROVE  MemoryInv'
BY AlignKeeps, TouchKeeps, HaltKeeps, MemoryStays DEF Memory!Next

\* The cardinality EioMemory speaks of.
LEMMA SameCardinality == Memory!Cardinality(touched) = Cardinality(touched)
BY DEF Memory!Cardinality, Cardinality

LEMMA MemoryShows == MemoryInv => Memory!WholePages
<1>1. SUFFICES ASSUME MemoryInv, at # "called", Fits
               PROVE  /\ mem % Page = 0 /\ len % Page = 0
                      /\ mem <= given.addr /\ given.addr + given.len <= mem + len
                      /\ given.len > 0 => mem + Page > given.addr /\ mem + len < given.addr + given.len + Page
                      /\ \A a \in touched : a % Page = 0 /\ mem <= a /\ a < mem + len
                      /\ at = "done" /\ call = "mtouch" /\ given.len > 0 => touched # {}
                      /\ at = "done" /\ call = "mtouch" /\ ~halted /\ given.addr < Page =>
                           len = Page * Cardinality(touched)
  BY SameCardinality DEF Memory!WholePages, Fits
<1>2. Whole
  BY <1>1 DEF MemoryInv
<1>3. PICK n \in Nat : Touched(n)
  BY <1>1 DEF MemoryInv
<1>4. PICK p \in Nat, q \in Nat : mem = Page * p /\ len = Page * q
  BY <1>2 DEF Whole
<1>5. mem \in Nat /\ len \in Nat /\ mem % Page = 0 /\ len % Page = 0
  BY <1>4, MultipleIs
<1>6. given.addr \in Nat /\ given.len \in Nat /\ Page \in Nat \ {0} /\ Page * n \in Nat
  <2>1. given.addr \in 0 .. Word - 1 /\ given.len \in 0 .. Word - 1
    BY <1>1 DEF MemoryInv, MemoryTypes, Regions
  <2>2. Word \in Nat /\ Page \in Nat \ {0}
    BY EioAssumption
  <2>3. given.addr \in Nat /\ given.len \in Nat
    BY <2>1, <2>2
  <2>4. QED BY <2>2, <2>3, MultipleIs
<1>7. /\ mem <= given.addr /\ given.addr < mem + Page
      /\ given.addr + given.len <= mem + len /\ mem + len < given.addr + given.len + Page
  BY <1>2 DEF Whole
<1>8. mem + Page > given.addr
  BY <1>5, <1>6, <1>7
<1>9. ASSUME NEW a \in touched
      PROVE  a % Page = 0 /\ mem <= a /\ a < mem + len
  <2>1. PICK k \in 0 .. n - 1 : a = mem + Page * k
    BY <1>3, <1>9 DEF Touched, Pages
  <2>2. k \in Nat /\ k < n /\ n > 0 /\ p + k \in Nat
    BY <2>1
  <2>3. Page * k + Page <= Page * n /\ Page * k \in Nat
    BY <2>2, MoreIs, MultipleIs
  <2>4. a % Page = 0
    <3>1. a = Page * (p + k)
      BY <1>4, <2>1, <2>2, SumIs
    <3>2. QED BY <2>2, <3>1, MultipleIs
  <2>5. addr = mem + Page * n /\ addr - Page < mem + len
    BY <1>3, <2>2 DEF Touched
  <2>6. mem <= a /\ a < mem + len
    BY <1>5, <1>6, <2>1, <2>3, <2>5
  <2>7. QED BY <2>4, <2>6
<1>10. ASSUME at = "done", call = "mtouch", given.len > 0
       PROVE  touched # {}
  <2>1. len # 0
    BY <1>5, <1>6, <1>7, <1>10
  <2>2. n # 0
    BY <1>3, <1>10, <2>1 DEF Touched
  <2>3. QED BY <1>3, <2>2, FS_EmptySet DEF Touched
<1>11. ASSUME at = "done", call = "mtouch", ~halted, given.addr < Page
       PROVE  len = Page * Cardinality(touched)
  <2>1. Cardinality(touched) = n /\ addr = mem + Page * n
    BY <1>3 DEF Touched
  <2>2. CASE n = 0
    <3>1. len = 0
      BY <1>3, <1>11, <2>2 DEF Touched
    <3>2. QED BY <1>6, <2>1, <2>2, <3>1
  <2>3. CASE n # 0
    <3>1. addr >= len /\ addr - Page < mem + len
      BY <1>3, <1>11, <2>3 DEF Touched
    <3>2. mem = 0
      <4>1. p = 0
        <5>1. ASSUME p # 0 PROVE FALSE
          <6>1. Page * 0 + Page <= Page * p /\ Page * 0 = 0
            BY <1>6, <5>1, MoreIs
          <6>2. QED BY <1>4, <1>5, <1>6, <1>7, <1>11, <6>1
        <5>2. QED BY <5>1
      <4>2. QED BY <1>4, <1>6, <4>1
    <3>3. Page * n >= Page * q /\ Page * n - Page < Page * q
      BY <1>4, <1>5, <1>6, <2>1, <3>1, <3>2
    <3>4. ~(n < q)
      <4>1. ASSUME n < q PROVE FALSE
        <5>1. Page * n + Page <= Page * q
          BY <4>1, MoreIs
        <5>2. QED BY <1>4, <1>5, <1>6, <3>3, <5>1
      <4>2. QED BY <4>1
    <3>5. ~(q < n)
      <4>1. ASSUME q < n PROVE FALSE
        <5>1. Page * q + Page <= Page * n
          BY <4>1, MoreIs
        <5>2. QED BY <1>4, <1>5, <1>6, <3>3, <5>1
      <4>2. QED BY <4>1
    <3>6. n = q
      BY <3>4, <3>5
    <3>7. QED BY <1>4, <2>1, <3>6
  <2>4. QED BY <2>2, <2>3
<1>12. QED BY <1>5, <1>7, <1>8, <1>9, <1>10, <1>11

----------------------------------------------------------------------------
(* The requests together.                                                   *)

EInv ==
  /\ IF part = "sendfile" THEN SendfileInv ELSE NoFile
  /\ part = "op" => OpInv
  /\ part = "group" => GroupInv
  /\ part = "memory" => MemoryInv

LEMMA RequestsInit == EInit => EInv
BY InvInit, OpInit, GroupInit, MemoryInit DEF EInit, EInv

LEMMA EStepsAre ==
  ASSUME [ENext]_evars
  PROVE  /\ part' = part
         /\ part = "sendfile" => [Next]_fileVars
         /\ part # "sendfile" => UNCHANGED fileVars
         /\ part = "op" => [Ops!Next]_opOf
         /\ part = "group" => [Grp!Next]_groupOf
         /\ part = "memory" => [Memory!Next]_memoryOf
<1>1. part' = part
  BY DEF ENext, evars
<1>2. part = "sendfile" => [Next]_fileVars
  BY DEF ENext, evars
<1>3. part # "sendfile" => UNCHANGED fileVars
  BY DEF ENext, evars
<1>4. part = "op" => [Ops!Next]_opOf
  BY DEF ENext, evars
<1>5. part = "group" => [Grp!Next]_groupOf
  BY DEF ENext, evars
<1>6. part = "memory" => [Memory!Next]_memoryOf
  BY DEF ENext, evars
<1>7. QED BY <1>1, <1>2, <1>3, <1>4, <1>5, <1>6

LEMMA FileStays ==
  ASSUME NoFile, UNCHANGED fileVars
  PROVE  NoFile'
BY DEF NoFile, fileVars

LEMMA RequestsKeep ==
  ASSUME EInv, [ENext]_evars
  PROVE  EInv'
<1>1. (IF part = "sendfile" THEN SendfileInv ELSE NoFile)'
  BY EStepsAre, SendfileKeeps, FileStays DEF EInv
<1>2. (part = "op" => OpInv)'
  BY EStepsAre, OpKeeps DEF EInv
<1>3. (part = "group" => GroupInv)'
  BY EStepsAre, GroupKeeps, GroupStays DEF EInv
<1>4. (part = "memory" => MemoryInv)'
  BY EStepsAre, MemoryKeeps DEF EInv
<1>5. QED BY <1>1, <1>2, <1>3, <1>4 DEF EInv

\* eio__sendfile: the bytes of a file arrive in their order and without a gap,
\* whichever way they go, and the result is their number: for every length,
\* every size of the buffer, and however little each call of the kernel does.
THEOREM CopiesInOrderCorrect == ESpec => []CopiesInOrder
<1>1. EInv => CopiesInOrder
  <2>1. SendfileInv => CopiesInOrder
    BY DEF SendfileInv
  <2>2. NoFile => CopiesInOrder
    <3>1. SUFFICES ASSUME NoFile PROVE CopiesInOrder
      OBVIOUS
    <3>2. straight = TRUE /\ pc = ""
      BY <3>1 DEF NoFile
    <3>3. pc # "done"
      BY <3>2
    <3>4. arrived <= asked
      <4>1. arrived = 0 /\ asked = 0
        BY <3>1 DEF NoFile
      <4>2. QED BY <4>1
    <3>5. QED BY <3>2, <3>3, <3>4 DEF CopiesInOrder
  <2>3. QED BY <2>1, <2>2 DEF EInv
<1>2. QED BY <1>1, RequestsInit, RequestsKeep, PTL DEF ESpec

\* eio_execute and eio_destroy: a request of whatever type, that fails wherever
\* it may and is cancelled whenever the user likes, frees once what it holds and
\* nothing else, and what its callback hears of it is true.
THEOREM FreedOnceCorrect == ESpec => []FreedOnce
<1>1. EInv => FreedOnce
  BY OpShows DEF EInv, FreedOnce
<1>2. QED BY <1>1, RequestsInit, RequestsKeep, PTL DEF ESpec

\* grp_try_feed and grp_dec: a cancelled group is fed no more, and one finishes
\* once, with nothing of it left anywhere: for any limits, any number of members
\* and any number that the feeder adds at a time.
THEOREM GroupFedCorrect == ESpec => GroupFed
<1>1. ASSUME EInv, [ENext]_evars
      PROVE  [part = "group" => Grp!FedStep]_groupOf
  BY <1>1, EStepsAre, GroupKeeps DEF EInv
<1>2. QED BY <1>1, RequestsInit, RequestsKeep, PTL DEF ESpec, GroupFed

\* eio_page_align and eio__mtouch: the kernel gets the pages of the caller's
\* bytes, and mtouch touches no other: for every word, every size of a page and
\* every region that does not run past the last address.
THEOREM WholePagesCorrect == ESpec => []WholePages
<1>1. EInv => WholePages
  BY MemoryShows DEF EInv, WholePages
<1>2. QED BY <1>1, RequestsInit, RequestsKeep, PTL DEF ESpec

=============================================================================
