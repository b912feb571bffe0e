------------------------ MODULE KseTransceiveProofs ------------------------
(***************************************************************************)
(* Theorems about the exchange with the USB device (KseTransceive), for    *)
(* commands and answers of any length, any number of calls and any number  *)
(* of failures.                                                            *)
(***************************************************************************)
EXTENDS KseTransceive, TLAPS

(***************************************************************************)
(* Queues of reports: what a read leaves, and what the device adds.        *)
(***************************************************************************)
LEMMA TailFacts ==
  ASSUME NEW S, NEW q \in Seq(S), q # <<>>
  PROVE  /\ Len(q) \in Nat /\ Len(q) > 0 /\ Head(q) = q[1] /\ Head(q) \in S
         /\ Tail(q) \in Seq(S) /\ Len(Tail(q)) = Len(q) - 1
         /\ \A i \in 1 .. Len(q) - 1 : Tail(q)[i] = q[i + 1]
  OBVIOUS

LEMMA AppendFacts ==
  ASSUME NEW S, NEW q \in Seq(S), NEW r \in S
  PROVE  /\ Append(q, r) \in Seq(S) /\ Len(q) \in Nat /\ Len(Append(q, r)) = Len(q) + 1
         /\ \A i \in 1 .. Len(q) : Append(q, r)[i] = q[i]
         /\ Append(q, r)[Len(q) + 1] = r
  OBVIOUS

LEMMA ReportType ==
  ASSUME NEW code \in {"ack", "answer"}, NEW n \in 1 .. MaxBlocks, NEW k \in 0 .. n - 1,
         NEW c \in 1 .. MaxCalls
  PROVE  Report(code, k, n, c) \in Reports
<1>1. TypeOf(k, n) \in BlockTypes
  BY KseTransceiveAssumption DEF TypeOf, BlockTypes
<1>2. k \in Offsets
  BY KseTransceiveAssumption DEF Offsets
<1> QED
  BY <1>1, <1>2 DEF Report, Reports

-----------------------------------------------------------------------------
(***************************************************************************)
(* Types, and where the host is: a call in progress has no result, and     *)
(* asks for more only when its command is sent.                            *)
(***************************************************************************)
PcInv ==
  /\ pc # "idle" => call > 0 /\ result = "none"
  /\ pc = "send" => offset < blocks
  /\ pc = "await" => offset > 0
  /\ pc \in {"ask", "collect"} => offset = blocks

TypeInv ==
  /\ TypeOK /\ PcInv
  /\ answerNext < answerLen => devCall > 0
  /\ \A i \in 1 .. Len(inQueue) : inQueue[i].call <= call

\* The device answers a block with a report of the call.
LEMMA GetsBlock ==
  ASSUME TypeInv, pc = "send", DeviceGetsBlock
  PROVE  /\ \E r \in Reports : r.call = call /\ inQueue' = Append(inQueue, r)
         /\ devCall' \in {devCall, call} /\ devCall' \in 0 .. call
         /\ answerLen' \in 1 .. MaxBlocks /\ answerNext' \in 1 .. answerLen'
         /\ answerNext' < answerLen' => devCall' > 0
<1> USE KseTransceiveAssumption DEF TypeInv, TypeOK, PcInv
<1>1. CASE offset + 1 < blocks
  <2>1. Report("ack", offset, blocks, call) \in Reports
    BY <1>1, ReportType
  <2>2. Report("ack", offset, blocks, call).call = call
    BY DEF Report
  <2> QED
    BY <1>1, <2>1, <2>2 DEF DeviceGetsBlock
<1>2. CASE ~(offset + 1 < blocks)
  <2>1. PICK n \in 1 .. MaxBlocks : /\ answerLen' = n
                                    /\ inQueue' = Append(inQueue, Report("answer", 0, n, call))
    BY <1>2 DEF DeviceGetsBlock
  <2>2. Report("answer", 0, n, call) \in Reports
    BY ReportType
  <2>3. Report("answer", 0, n, call).call = call
    BY DEF Report
  <2>4. devCall' = call /\ answerNext' = 1
    BY <1>2 DEF DeviceGetsBlock
  <2> QED
    BY <2>1, <2>2, <2>3, <2>4
<1> QED
  BY <1>1, <1>2

\* It answers the host's own acknowledgement with a further block, or not at all.
LEMMA GetsAck ==
  ASSUME TypeInv, pc = "ask", DeviceGetsAck
  PROVE  /\ \/ inQueue' = inQueue
            \/ \E r \in Reports : r.call <= call /\ r.off > 0 /\ inQueue' = Append(inQueue, r)
         /\ devCall' = devCall /\ answerLen' = answerLen /\ answerNext' \in 1 .. answerLen
<1> USE KseTransceiveAssumption DEF TypeInv, TypeOK, PcInv
<1>1. CASE answerNext < answerLen
  <2> DEFINE r == Report("answer", answerNext, answerLen, devCall)
  <2>1. r \in Reports
    BY <1>1, ReportType
  <2>2. r.call <= call /\ r.off > 0
    BY DEF Report
  <2>3. /\ inQueue' = Append(inQueue, r) /\ answerNext' = answerNext + 1
        /\ devCall' = devCall /\ answerLen' = answerLen
    BY <1>1 DEF DeviceGetsAck
  <2> QED
    BY <1>1, <2>1, <2>2, <2>3
<1>2. CASE ~(answerNext < answerLen)
  BY <1>2 DEF DeviceGetsAck, devVars
<1> QED
  BY <1>1, <1>2

LEMMA TypeInit == Init => TypeInv
<1> SUFFICES ASSUME Init PROVE TypeInv
  OBVIOUS
<1>1. inQueue \in Seq(Reports) /\ Len(inQueue) = 0
  BY DEF Init
<1>2. data \in [Offsets -> 0 .. call]
  BY DEF Init
<1> QED
  BY <1>1, <1>2, KseTransceiveAssumption DEF Init, TypeInv, TypeOK, PcInv

\* What every reaction of the device and every read leaves of the queue.
QueueTyped == inQueue \in Seq(Reports) /\ \A i \in 1 .. Len(inQueue) : inQueue[i].call <= call

LEMMA QueueInts ==
  ASSUME QueueTyped
  PROVE  Len(inQueue) \in Nat /\ \A i \in 1 .. Len(inQueue) : inQueue[i].call \in Int
<1>1. inQueue \in Seq(Reports)
  BY DEF QueueTyped
<1>2. Len(inQueue) \in Nat
  BY <1>1
<1>3. ASSUME NEW i \in 1 .. Len(inQueue) PROVE inQueue[i].call \in Int
  <2>1. inQueue[i] \in Reports
    BY <1>1
  <2> QED
    BY <2>1 DEF Reports
<1> QED
  BY <1>2, <1>3

LEMMA QueueAfterRead ==
  ASSUME QueueTyped, inQueue # <<>>, inQueue' = Tail(inQueue), call' = call
  PROVE  QueueTyped' /\ Head(inQueue) \in Reports /\ Head(inQueue).call <= call
<1>1. /\ Head(inQueue) = inQueue[1] /\ Head(inQueue) \in Reports /\ Len(inQueue) > 0
      /\ inQueue' \in Seq(Reports) /\ Len(inQueue') = Len(inQueue) - 1 /\ Len(inQueue) \in Nat
      /\ \A i \in 1 .. Len(inQueue) - 1 : inQueue'[i] = inQueue[i + 1]
  BY TailFacts DEF QueueTyped
<1> QED
  BY <1>1 DEF QueueTyped

LEMMA QueueAfterReport ==
  ASSUME QueueTyped, NEW r \in Reports, r.call <= call, inQueue' = Append(inQueue, r),
         call' = call
  PROVE  QueueTyped'
<1>1. /\ inQueue' \in Seq(Reports) /\ Len(inQueue') = Len(inQueue) + 1 /\ Len(inQueue) \in Nat
      /\ \A i \in 1 .. Len(inQueue) : inQueue'[i] = inQueue[i]
      /\ inQueue'[Len(inQueue) + 1] = r
  BY AppendFacts DEF QueueTyped
<1> QED
  BY <1>1 DEF QueueTyped

LEMMA TypeStep == TypeInv /\ [Next]_vars => TypeInv'
<1> SUFFICES ASSUME TypeInv, [Next]_vars PROVE TypeInv'
  OBVIOUS
<1> USE KseTransceiveAssumption
<1>0. QueueTyped
  BY DEF TypeInv, TypeOK, QueueTyped
<1>1. CASE Call
  <2>1. data' \in [Offsets -> 0 .. call']
    BY <1>1 DEF Call, TypeInv, TypeOK
  <2>2. \A i \in 1 .. Len(inQueue) : inQueue[i].call <= call'
    <3> SUFFICES ASSUME NEW i \in 1 .. Len(inQueue) PROVE inQueue[i].call <= call'
      OBVIOUS
    <3>1. inQueue[i] \in Reports /\ inQueue[i].call <= call
      BY <1>0 DEF QueueTyped
    <3>2. inQueue[i].call \in Int
      BY <3>1 DEF Reports
    <3> QED
      BY <1>1, <3>1, <3>2 DEF Call, TypeInv, TypeOK
  <2>3. /\ call' \in 1 .. MaxCalls /\ blocks' \in 1 .. MaxBlocks /\ offset' = 0 /\ recvLen' = 0
        /\ result' = "none" /\ pc' = "send" /\ call' = call + 1
        /\ UNCHANGED <<inQueue, devCall, answerLen, answerNext, fails>>
    BY <1>1 DEF Call, devVars, TypeInv, TypeOK
  <2> QED
    BY <2>1, <2>2, <2>3 DEF TypeInv, TypeOK, PcInv
<1>2. CASE SendBlock
  <2>1. /\ \E r \in Reports : r.call = call /\ inQueue' = Append(inQueue, r)
        /\ devCall' \in 0 .. call
        /\ answerLen' \in 1 .. MaxBlocks /\ answerNext' \in 1 .. answerLen'
        /\ answerNext' < answerLen' => devCall' > 0
    BY <1>2, GetsBlock DEF SendBlock
  <2>2. QueueTyped'
    BY <1>0, <1>2, <2>1, QueueAfterReport DEF SendBlock, callVars, TypeInv, TypeOK
  <2> QED
    BY <1>2, <2>1, <2>2 DEF SendBlock, callVars, dataVars, TypeInv, TypeOK, PcInv, QueueTyped
<1>3. CASE ReadReport
  <2>1. QueueTyped' /\ Head(inQueue) \in Reports /\ Head(inQueue).call <= call
    BY <1>0, <1>3, QueueAfterRead DEF ReadReport, callVars
  <2> DEFINE r == Head(inQueue)
  <2>2. data' \in [Offsets -> 0 .. call] /\ recvLen' \in Nat
    <3>1. CASE UNCHANGED dataVars
      BY <3>1 DEF dataVars, TypeInv, TypeOK
    <3>2. CASE Copy(r)
      BY <2>1, <3>2 DEF Copy, Reports, TypeInv, TypeOK
    <3> QED
      BY <1>3, <3>1, <3>2 DEF ReadReport, dataVars
  <2>3. pc' \in {"idle", "send", "ask"} /\ result' \in {"none", "ok", "error"}
    BY <1>3 DEF ReadReport, Return, TypeInv, TypeOK
  <2>4. /\ pc' # "idle" => result' = "none"
        /\ pc' = "send" => offset < blocks
        /\ pc' = "ask" => offset = blocks
    BY <1>3 DEF ReadReport, Return, TypeInv, TypeOK, PcInv
  <2>5. UNCHANGED <<callVars, offset, devCall, answerLen, answerNext, fails>> /\ call > 0
    BY <1>3 DEF ReadReport, TypeInv, PcInv
  <2> QED
    BY <2>1, <2>2, <2>3, <2>4, <2>5 DEF callVars, TypeInv, TypeOK, PcInv, QueueTyped
<1>4. CASE Ask
  <2>1. /\ \/ inQueue' = inQueue
           \/ \E r \in Reports : r.call <= call /\ r.off > 0 /\ inQueue' = Append(inQueue, r)
        /\ devCall' = devCall /\ answerLen' = answerLen /\ answerNext' \in 1 .. answerLen
    BY <1>4, GetsAck DEF Ask
  <2>2. QueueTyped'
    BY <1>0, <1>4, <2>1, QueueAfterReport DEF Ask, callVars, QueueTyped
  <2>3. answerNext' < answerLen' => devCall' > 0
    BY <1>4, <2>1 DEF Ask, DeviceGetsAck, devVars, TypeInv, TypeOK
  <2> QED
    BY <1>4, <2>1, <2>2, <2>3 DEF Ask, callVars, dataVars, TypeInv, TypeOK, PcInv, QueueTyped
<1>5. CASE Collect
  <2>1. QueueTyped' /\ Head(inQueue) \in Reports /\ Head(inQueue).call <= call
    BY <1>0, <1>5, QueueAfterRead DEF Collect, callVars
  <2> DEFINE r == Head(inQueue)
  <2>2. data' \in [Offsets -> 0 .. call] /\ recvLen' \in Nat
    <3>1. CASE UNCHANGED dataVars
      BY <3>1 DEF dataVars, TypeInv, TypeOK
    <3>2. CASE Copy(r)
      BY <2>1, <3>2 DEF Copy, Reports, TypeInv, TypeOK
    <3> QED
      BY <1>5, <3>1, <3>2 DEF Collect
  <2>3. pc' \in {"idle", "ask"} /\ result' \in {"none", "ok", "error"}
    BY <1>5 DEF Collect, Return, TypeInv, TypeOK
  <2>4. /\ pc' # "idle" => result' = "none"
        /\ pc' = "ask" => offset = blocks
    BY <1>5 DEF Collect, Return, TypeInv, PcInv
  <2>5. UNCHANGED <<callVars, offset, devCall, answerLen, answerNext, fails>> /\ call > 0
    BY <1>5 DEF Collect, TypeInv, PcInv
  <2> QED
    BY <2>1, <2>2, <2>3, <2>4, <2>5 DEF callVars, TypeInv, TypeOK, PcInv, QueueTyped
<1>6. CASE SendFails
  <2>1. /\ pc \in {"send", "ask"} /\ fails < MaxFails /\ fails' = fails + 1
        /\ pc' = "idle" /\ result' = "error" /\ UNCHANGED <<callVars, offset, dataVars>>
    BY <1>6 DEF SendFails, Return
  <2>2. /\ QueueTyped' /\ devCall' \in 0 .. call
        /\ answerLen' \in 1 .. MaxBlocks /\ answerNext' \in 1 .. answerLen'
        /\ answerNext' < answerLen' => devCall' > 0
    <3>1. CASE UNCHANGED devVars
      BY <1>0, <2>1, <3>1 DEF devVars, callVars, QueueTyped, TypeInv, TypeOK
    <3>2. CASE pc = "send" /\ DeviceGetsBlock
      <4>1. /\ \E r \in Reports : r.call = call /\ inQueue' = Append(inQueue, r)
            /\ devCall' \in 0 .. call
            /\ answerLen' \in 1 .. MaxBlocks /\ answerNext' \in 1 .. answerLen'
            /\ answerNext' < answerLen' => devCall' > 0
        BY <3>2, GetsBlock
      <4> QED
        BY <1>0, <2>1, <4>1, QueueAfterReport DEF callVars, TypeInv, TypeOK
    <3>3. CASE pc = "ask" /\ DeviceGetsAck
      <4>1. /\ \/ inQueue' = inQueue
               \/ \E r \in Reports : r.call <= call /\ r.off > 0 /\ inQueue' = Append(inQueue, r)
            /\ devCall' = devCall /\ answerLen' = answerLen /\ answerNext' \in 1 .. answerLen
        BY <3>3, GetsAck
      <4>2. QueueTyped'
        BY <1>0, <2>1, <4>1, QueueAfterReport DEF callVars, QueueTyped
      <4>3. answerNext' < answerLen' => devCall' > 0
        BY <3>3, <4>1 DEF DeviceGetsAck, devVars, TypeInv, TypeOK
      <4> QED
        BY <4>1, <4>2, <4>3 DEF TypeInv, TypeOK
    <3> QED
      BY <1>6, <3>1, <3>2, <3>3 DEF SendFails
  <2> QED
    BY <2>1, <2>2 DEF callVars, dataVars, TypeInv, TypeOK, PcInv, QueueTyped
<1>7. CASE ReadFails
  <2>1. QueueTyped'
    BY <1>0, <1>7, QueueAfterRead DEF ReadFails, callVars, QueueTyped
  <2> QED
    BY <1>7, <2>1 DEF ReadFails, Return, callVars, dataVars, TypeInv, TypeOK, PcInv, QueueTyped
<1>8. CASE Swallowed
  BY <1>8 DEF Swallowed, callVars, dataVars, devVars, TypeInv, TypeOK, PcInv
<1>9. CASE ReadTimesOut
  BY <1>9 DEF ReadTimesOut, Return, callVars, dataVars, devVars, TypeInv, TypeOK, PcInv
<1>10. CASE UNCHANGED vars
  BY <1>10 DEF vars, callVars, dataVars, devVars, TypeInv, TypeOK, PcInv
<1> QED
  BY <1>1, <1>2, <1>3, <1>4, <1>5, <1>6, <1>7, <1>8, <1>9, <1>10 DEF Next, Transfer

LEMMA TypeAlways == Spec => []TypeInv
BY TypeInit, TypeStep, PTL DEF Spec

(***************************************************************************)
(* Every variable has its type, however late the answers come.             *)
(***************************************************************************)
THEOREM TypeCorrect == Spec => []TypeOK
<1>1. TypeInv => TypeOK
  BY DEF TypeInv
<1> QED
  BY <1>1, TypeAlways, PTL

-----------------------------------------------------------------------------
(***************************************************************************)
(* How late an answer can be.  A failure adds at most one report to the    *)
(* queue that nobody has read, or makes one call that adds none; a call    *)
(* without one takes a report for each it causes.  So a first block in the *)
(* queue, counted from the front, and the calls made since it was sent are *)
(* together no more than the failures, and one while a report is awaited.  *)
(***************************************************************************)
IsFirst(r) == r.code = "answer" /\ r.off = 0

\* q has at most n reports, and in the call c no first block is later than m.
Within(q, c, n, m) ==
  /\ Len(q) <= n
  /\ \A i \in 1 .. Len(q) : IsFirst(q[i]) => c - q[i].call + i <= m

AgeInv ==
  /\ pc \in {"await", "collect"} => Within(inQueue, call, fails + 1, fails + 1)
  /\ pc = "send" /\ offset = 0 => Within(inQueue, call, fails, fails + 1)
  /\ pc \in {"idle", "ask"} \/ (pc = "send" /\ offset > 0) => Within(inQueue, call, fails, fails)
  /\ pc \in {"ask", "collect"} \/ result = "ok" => call - data[0] <= fails

LEMMA WithinAfterRead ==
  ASSUME QueueTyped, NEW n \in Nat, Within(inQueue, call, n + 1, n + 1), inQueue # <<>>,
         inQueue' = Tail(inQueue), call' = call, call \in Nat
  PROVE  Within(inQueue', call', n, n) /\ (IsFirst(Head(inQueue)) => call - Head(inQueue).call <= n)
<1>1. /\ Head(inQueue) = inQueue[1] /\ Len(inQueue) > 0 /\ Len(inQueue) \in Nat
      /\ Len(inQueue') = Len(inQueue) - 1
      /\ \A i \in 1 .. Len(inQueue) - 1 : inQueue'[i] = inQueue[i + 1]
  BY TailFacts DEF QueueTyped
<1>2. \A i \in 1 .. Len(inQueue) : inQueue[i].call \in Int
  BY QueueInts
<1>3. IsFirst(inQueue[1]) => call - inQueue[1].call <= n
  BY <1>1, <1>2 DEF Within
<1>4. ASSUME NEW i \in 1 .. Len(inQueue'), IsFirst(inQueue'[i])
      PROVE  call' - inQueue'[i].call + i <= n
  <2>1. inQueue'[i] = inQueue[i + 1] /\ i + 1 \in 1 .. Len(inQueue)
    BY <1>1
  <2>2. call - inQueue[i + 1].call + (i + 1) <= n + 1
    BY <1>4, <2>1 DEF Within
  <2> QED
    BY <1>2, <2>1, <2>2
<1> QED
  BY <1>1, <1>3, <1>4 DEF Within

LEMMA WithinAfterReport ==
  ASSUME QueueTyped, NEW n \in Nat, Within(inQueue, call, n, n + 1), NEW r \in Reports,
         r.off = 0 => r.call = call, inQueue' = Append(inQueue, r), call' = call, call \in Nat
  PROVE  Within(inQueue', call', n + 1, n + 1)
<1>1. /\ Len(inQueue') = Len(inQueue) + 1 /\ Len(inQueue) \in Nat
      /\ \A i \in 1 .. Len(inQueue) : inQueue'[i] = inQueue[i]
      /\ inQueue'[Len(inQueue) + 1] = r
  BY AppendFacts DEF QueueTyped
<1>2. ASSUME NEW i \in 1 .. Len(inQueue'), IsFirst(inQueue'[i])
      PROVE  call' - inQueue'[i].call + i <= n + 1
  <2>1. CASE i \in 1 .. Len(inQueue)
    BY <1>1, <1>2, <2>1 DEF Within
  <2>2. CASE i = Len(inQueue) + 1
    BY <1>1, <1>2, <2>2 DEF Within, IsFirst
  <2> QED
    BY <1>1, <2>1, <2>2
<1> QED
  BY <1>1, <1>2 DEF Within

LEMMA WithinMore ==
  ASSUME NEW q \in Seq(Reports), NEW c \in Nat, NEW n \in Nat, Within(q, c, n, n)
  PROVE  Within(q, c, n, n + 1) /\ Within(q, c, n + 1, n + 1)
<1>1. Len(q) \in Nat
  OBVIOUS
<1>2. ASSUME NEW i \in 1 .. Len(q) PROVE q[i].call \in Int
  <2>1. q[i] \in Reports
    OBVIOUS
  <2> QED
    BY <2>1 DEF Reports
<1> QED
  BY <1>1, <1>2 DEF Within

\* The reports a step may add: a block of the call itself, or a further block.
LEMMA GetsBlockOwn ==
  ASSUME TypeInv, pc = "send", DeviceGetsBlock
  PROVE  \E r \in Reports : r.call = call /\ inQueue' = Append(inQueue, r)
  BY GetsBlock

LEMMA AgeInit == Init => AgeInv
<1> SUFFICES ASSUME Init PROVE AgeInv
  OBVIOUS
<1>1. pc = "idle" /\ fails = 0 /\ Len(inQueue) = 0 /\ result = "none"
  BY DEF Init
<1> QED
  BY <1>1 DEF AgeInv, Within

LEMMA AgeStep == TypeInv /\ AgeInv /\ [Next]_vars => AgeInv'
<1> SUFFICES ASSUME TypeInv, AgeInv, [Next]_vars PROVE AgeInv'
  OBVIOUS
<1>0. QueueTyped /\ call \in Nat /\ fails \in Nat /\ Len(inQueue) \in Nat
      /\ data \in [Offsets -> 0 .. call] /\ 0 \in Offsets
  <2>1. QueueTyped
    BY DEF TypeInv, TypeOK, QueueTyped
  <2> QED
    BY <2>1, QueueInts, KseTransceiveAssumption DEF TypeInv, TypeOK, Offsets
<1>1. CASE Call
  <2>1. pc = "idle" /\ pc' = "send" /\ result' = "none" /\ offset' = 0
        /\ inQueue' = inQueue /\ fails' = fails /\ call' = call + 1
    BY <1>1 DEF Call, devVars
  <2>2. \A i \in 1 .. Len(inQueue) : inQueue[i].call \in Int
    BY <1>0, QueueInts
  <2>3. Within(inQueue', call', fails, fails + 1)
    BY <1>0, <2>1, <2>2 DEF Within, AgeInv
  <2> QED
    BY <2>1, <2>3 DEF AgeInv
<1>2. CASE SendBlock
  <2>1. pc = "send" /\ pc' = "await" /\ offset' = offset + 1 /\ call' = call /\ fails' = fails
        /\ result' = result /\ result = "none" /\ offset \in Nat
    BY <1>2 DEF SendBlock, callVars, TypeInv, TypeOK, PcInv
  <2>2. Within(inQueue, call, fails, fails + 1)
    <3>1. (pc = "send" /\ offset = 0) \/ Within(inQueue, call, fails, fails)
      BY <2>1 DEF AgeInv
    <3> QED
      BY <1>0, <3>1, WithinMore DEF AgeInv, QueueTyped
  <2>3. PICK r \in Reports : r.call = call /\ inQueue' = Append(inQueue, r)
    BY <1>2, GetsBlockOwn DEF SendBlock
  <2>4. Within(inQueue', call', fails + 1, fails + 1)
    BY <1>0, <2>1, <2>2, <2>3, WithinAfterReport
  <2> QED
    BY <2>1, <2>4 DEF AgeInv
<1>3. CASE ReadReport
  <2> DEFINE r == Head(inQueue)
  <2>1. pc = "await" /\ inQueue # <<>> /\ inQueue' = Tail(inQueue) /\ call' = call
        /\ fails' = fails /\ offset' = offset /\ offset > 0 /\ result = "none"
        /\ pc' \in {"idle", "send", "ask"}
    BY <1>3 DEF ReadReport, Return, callVars, TypeInv, PcInv
  <2>2. Within(inQueue', call', fails, fails) /\ (IsFirst(r) => call - r.call <= fails)
    BY <1>0, <2>1, WithinAfterRead DEF AgeInv
  <2>3. CASE pc' = "ask" \/ result' = "ok"
    <3>1. Expects(r) /\ offset = blocks /\ Copy(r)
      BY <1>3, <2>1, <2>3 DEF ReadReport, Return
    <3>2. IsFirst(r) /\ data'[0] = r.call
      BY <1>0, <3>1 DEF Expects, Copy, IsFirst, TypeInv, TypeOK
    <3> QED
      BY <2>1, <2>2, <3>2 DEF AgeInv
  <2>4. CASE ~(pc' = "ask" \/ result' = "ok")
    BY <2>1, <2>2, <2>4 DEF AgeInv
  <2> QED
    BY <2>3, <2>4
<1>4. CASE Ask
  <2>1. pc = "ask" /\ pc' = "collect" /\ call' = call /\ fails' = fails /\ data' = data
        /\ result' = result /\ result = "none"
    BY <1>4 DEF Ask, callVars, dataVars, TypeInv, PcInv
  <2>2. Within(inQueue, call, fails, fails + 1) /\ Within(inQueue, call, fails + 1, fails + 1)
    BY <1>0, <2>1, WithinMore DEF AgeInv, QueueTyped
  <2>3. \/ inQueue' = inQueue
        \/ \E r \in Reports : r.call <= call /\ r.off > 0 /\ inQueue' = Append(inQueue, r)
    BY <1>4, GetsAck DEF Ask
  <2>4. Within(inQueue', call', fails + 1, fails + 1)
    <3>1. CASE inQueue' = inQueue
      BY <2>1, <2>2, <3>1 DEF Within
    <3>2. CASE \E r \in Reports : r.call <= call /\ r.off > 0 /\ inQueue' = Append(inQueue, r)
      <4>1. PICK r \in Reports : r.off > 0 /\ inQueue' = Append(inQueue, r)
        BY <3>2
      <4> QED
        BY <1>0, <2>1, <2>2, <4>1, WithinAfterReport
    <3> QED
      BY <2>3, <3>1, <3>2
  <2> QED
    BY <2>1, <2>4 DEF AgeInv
<1>5. CASE Collect
  <2> DEFINE r == Head(inQueue)
  <2>1. pc = "collect" /\ inQueue # <<>> /\ inQueue' = Tail(inQueue) /\ call' = call
        /\ fails' = fails /\ pc' \in {"idle", "ask"} /\ result = "none"
    BY <1>5 DEF Collect, Return, callVars, TypeInv, PcInv
  <2>2. Within(inQueue', call', fails, fails) /\ (IsFirst(r) => call - r.call <= fails)
    BY <1>0, <2>1, WithinAfterRead DEF AgeInv
  <2>3. CASE pc' = "ask" \/ result' = "ok"
    <3>1. r.code = "answer" /\ Copy(r)
      BY <1>5, <2>1, <2>3 DEF Collect, Return
    <3>2. r \in Reports
      BY <1>0, <2>1, TailFacts DEF QueueTyped
    <3>3. (data'[0] = r.call /\ IsFirst(r)) \/ data'[0] = data[0]
      BY <1>0, <3>1, <3>2 DEF Copy, IsFirst, Reports
    <3>4. call - data[0] <= fails
      BY <2>1 DEF AgeInv
    <3> QED
      BY <2>1, <2>2, <3>3, <3>4 DEF AgeInv
  <2>4. CASE ~(pc' = "ask" \/ result' = "ok")
    BY <2>1, <2>2, <2>4 DEF AgeInv
  <2> QED
    BY <2>3, <2>4
<1>6. CASE SendFails
  <2>1. pc \in {"send", "ask"} /\ pc' = "idle" /\ result' = "error" /\ call' = call
        /\ fails' = fails + 1 /\ offset \in Nat
    BY <1>6 DEF SendFails, Return, callVars, TypeInv, TypeOK
  <2>2. Within(inQueue, call, fails, fails + 1)
    <3>1. (pc = "send" /\ offset = 0) \/ Within(inQueue, call, fails, fails)
      BY <2>1 DEF AgeInv
    <3> QED
      BY <1>0, <3>1, WithinMore DEF AgeInv, QueueTyped
  <2>3. Within(inQueue', call', fails + 1, fails + 1)
    <3>1. CASE inQueue' = inQueue
      BY <1>0, <2>1, <2>2, <3>1 DEF Within
    <3>2. CASE pc = "send" /\ DeviceGetsBlock
      <4>1. PICK r \in Reports : r.call = call /\ inQueue' = Append(inQueue, r)
        BY <3>2, GetsBlockOwn
      <4> QED
        BY <1>0, <2>1, <2>2, <4>1, WithinAfterReport
    <3>3. CASE pc = "ask" /\ DeviceGetsAck /\ inQueue' # inQueue
      <4>1. PICK r \in Reports : r.off > 0 /\ inQueue' = Append(inQueue, r)
        BY <3>3, GetsAck
      <4> QED
        BY <1>0, <2>1, <2>2, <4>1, WithinAfterReport
    <3> QED
      BY <1>6, <3>1, <3>2, <3>3 DEF SendFails, devVars
  <2> QED
    BY <2>1, <2>3 DEF AgeInv, Within
<1>7. CASE ReadFails
  <2>1. pc \in {"await", "collect"} /\ inQueue # <<>> /\ inQueue' \in {inQueue, Tail(inQueue)}
        /\ pc' = "idle" /\ result' = "error" /\ call' = call /\ fails' = fails + 1
    BY <1>7 DEF ReadFails, Return, callVars
  <2>2. Within(inQueue, call, fails + 1, fails + 1)
    BY <2>1 DEF AgeInv
  <2>3. Within(inQueue', call', fails + 1, fails + 1)
    <3>1. CASE inQueue' = inQueue
      BY <2>1, <2>2, <3>1 DEF Within
    <3>2. CASE inQueue' = Tail(inQueue)
      <4>1. Within(inQueue', call', fails, fails)
        BY <1>0, <2>1, <2>2, <3>2, WithinAfterRead
      <4>2. QueueTyped'
        BY <1>0, <2>1, <3>2, QueueAfterRead
      <4>3. call' \in Nat
        BY <1>0, <2>1
      <4> QED
        BY <1>0, <2>1, <4>1, <4>2, <4>3, WithinMore DEF QueueTyped
    <3> QED
      BY <2>1, <3>1, <3>2
  <2> QED
    BY <2>1, <2>3 DEF AgeInv, Within
<1>8. CASE Swallowed
  <2>1. pc \in {"send", "ask"} /\ pc' \in {"await", "collect"} /\ inQueue' = inQueue
        /\ call' = call /\ fails' = fails + 1 /\ data' = data /\ result' = result
        /\ (pc = "send" <=> pc' = "await") /\ result = "none" /\ offset \in Nat
    BY <1>8 DEF Swallowed, callVars, dataVars, devVars, TypeInv, TypeOK, PcInv
  <2>2. Within(inQueue, call, fails, fails + 1)
    <3>1. (pc = "send" /\ offset = 0) \/ Within(inQueue, call, fails, fails)
      BY <2>1 DEF AgeInv
    <3> QED
      BY <1>0, <3>1, WithinMore DEF AgeInv, QueueTyped
  <2>3. Within(inQueue', call', fails + 1, fails + 1)
    BY <1>0, <2>1, <2>2 DEF Within
  <2>4. pc = "ask" => call - data[0] <= fails
    BY DEF AgeInv
  <2>5. data[0] \in Int
    BY <1>0
  <2>6. Within(inQueue', call', fails' + 1, fails' + 1)
    BY <1>0, <2>1, <2>3, WithinMore DEF QueueTyped
  <2> QED
    BY <1>0, <2>1, <2>4, <2>5, <2>6 DEF AgeInv
<1>9. CASE ReadTimesOut
  <2>1. pc' = "idle" /\ result' = "error" /\ inQueue' = <<>> /\ fails' = fails
    BY <1>9 DEF ReadTimesOut, Return, devVars
  <2>2. Len(inQueue') = 0
    BY <2>1
  <2> QED
    BY <1>0, <2>1, <2>2 DEF AgeInv, Within
<1>10. CASE UNCHANGED vars
  BY <1>10 DEF vars, callVars, dataVars, devVars, AgeInv, Within
<1> QED
  BY <1>1, <1>2, <1>3, <1>4, <1>5, <1>6, <1>7, <1>8, <1>9, <1>10 DEF Next, Transfer

LEMMA AgeAlways == Spec => []AgeInv
BY AgeInit, AgeStep, TypeAlways, PTL DEF Spec

(***************************************************************************)
(* A call that succeeds returns an answer that is no older than as many    *)
(* calls as transfers have failed since the start: late reports add up but *)
(* never run away.                                                         *)
(***************************************************************************)
THEOREM AgeTheorem == Spec => []AnswerAge
<1>1. AgeInv => AnswerAge
  BY DEF AgeInv, AnswerAge
<1> QED
  BY <1>1, AgeAlways, PTL

-----------------------------------------------------------------------------
(***************************************************************************)
(* Whose answer it is.  In a proper exchange the queue holds the one       *)
(* report the host waits for, and nothing else.  With one late report in   *)
(* front of it an exchange of more than one block is doomed: the late one  *)
(* may be taken for the first acknowledgement, but then the first          *)
(* acknowledgement is read in place of the second report, and is refused.  *)
(***************************************************************************)
Filled == \A o \in Offsets : data[o] = IF o < recvLen THEN call ELSE 0

Fresh == pc \in {"send", "await"} => recvLen = 0 /\ Filled

Proper ==
  /\ pc \in {"send", "ask"} => inQueue = <<>>
  /\ pc = "await" /\ offset < blocks => inQueue = <<Report("ack", offset - 1, blocks, call)>>
  /\ pc = "await" /\ offset = blocks =>
       /\ inQueue = <<Report("answer", 0, answerLen, call)>>
       /\ devCall = call /\ answerNext = 1
  /\ pc = "collect" =>
       inQueue = <<Report("answer", recvLen, answerLen, call)>> /\ answerNext = recvLen + 1
  /\ pc = "ask" => answerNext = recvLen /\ recvLen < answerLen
  /\ pc \in {"ask", "collect"} => devCall = call /\ recvLen > 0 /\ Filled
  /\ result = "ok" => WholeAnswer

FirstAck == Report("ack", 0, blocks, call)

Doomed ==
  /\ result = "none"
  /\ \/ pc = "send" /\ offset = 0 /\ Len(inQueue) <= 1
     \/ pc = "await" /\ offset = 1 /\ Len(inQueue) = 2 /\ inQueue[2] = FirstAck
     \/ pc = "send" /\ offset = 1 /\ Len(inQueue) = 1 /\ inQueue[1] = FirstAck
     \/ pc = "await" /\ offset = 2 /\ Len(inQueue) > 0 /\ inQueue[1] = FirstAck
     \/ pc \in {"await", "collect"} /\ inQueue = <<>>

OwnInv ==
  /\ Fresh
  /\ fails = 0 => Proper /\ (pc = "idle" => inQueue = <<>>)
  /\ fails = 1 /\ blocks > 1 => Proper \/ Doomed

LEMMA TypeOfFacts ==
  ASSUME NEW n \in Nat \ {0}, NEW k \in 0 .. n - 1
  PROVE  /\ TypeOf(k, n) = "first" <=> k = 0 /\ n > 1
         /\ TypeOf(k, n) = "middle" <=> 0 < k /\ k < n - 1
  BY DEF TypeOf

LEMMA SingleFacts ==
  ASSUME NEW x
  PROVE  <<x>> # <<>> /\ Head(<<x>>) = x /\ Tail(<<x>>) = <<>> /\ Append(<<>>, x) = <<x>>
  OBVIOUS

\* Copying the next block of the call's own answer.
LEMMA CopyFilled ==
  ASSUME TypeInv, call > 0, Filled, NEW r, r.off = recvLen, r.call = call, Copy(r), call' = call,
         recvLen \in Offsets
  PROVE  Filled' /\ recvLen' = recvLen + 1
<1>1. data \in [Offsets -> 0 .. call] /\ recvLen \in Nat /\ call \in Nat
  BY DEF TypeInv, TypeOK
<1>2. data' = [data EXCEPT ![recvLen] = call] /\ recvLen' = recvLen + 1
  BY DEF Copy
<1>3. ASSUME NEW o \in Offsets PROVE data'[o] = IF o < recvLen' THEN call' ELSE 0
  <2>1. o \in Int
    BY KseTransceiveAssumption DEF Offsets
  <2>2. data[o] = IF o < recvLen THEN call ELSE 0
    BY DEF Filled
  <2> QED
    BY <1>1, <1>2, <2>1, <2>2
<1> QED
  BY <1>2, <1>3 DEF Filled

LEMMA OwnInit == Init => OwnInv
<1> SUFFICES ASSUME Init PROVE OwnInv
  OBVIOUS
<1> QED
  BY DEF Init, OwnInv, Fresh, Proper

LEMMA FreshStep == TypeInv /\ Fresh /\ [Next]_vars => Fresh'
<1> SUFFICES ASSUME TypeInv, Fresh, [Next]_vars PROVE Fresh'
  OBVIOUS
<1>1. CASE Call
  BY <1>1, KseTransceiveAssumption DEF Call, Fresh, Filled, Offsets
<1>2. CASE SendBlock \/ Swallowed
  BY <1>2 DEF SendBlock, Swallowed, callVars, dataVars, Fresh, Filled
<1>3. CASE ReadReport
  <2>1. pc = "await" /\ call' = call
    BY <1>3 DEF ReadReport, callVars
  <2>2. pc' \in {"send", "await"} => UNCHANGED dataVars
    BY <1>3 DEF ReadReport, Return
  <2> QED
    BY <2>1, <2>2 DEF Fresh, Filled, dataVars
<1>4. CASE Ask \/ Collect \/ SendFails \/ ReadFails \/ ReadTimesOut
  <2>1. pc' \in {"collect", "ask", "idle"}
    BY <1>4 DEF Ask, Collect, SendFails, ReadFails, ReadTimesOut, Return
  <2> QED
    BY <2>1 DEF Fresh
<1>5. CASE UNCHANGED vars
  BY <1>5 DEF vars, callVars, dataVars, Fresh, Filled
<1> QED
  BY <1>1, <1>2, <1>3, <1>4, <1>5 DEF Next, Transfer

(***************************************************************************)
(* A proper exchange stays proper as long as no transfer fails, and leaves *)
(* nothing behind.                                                         *)
(***************************************************************************)
LEMMA ProperStep ==
  ASSUME TypeInv, Fresh, Proper, pc # "idle",
         SendBlock \/ ReadReport \/ Ask \/ Collect \/ ReadTimesOut
  PROVE  Proper' /\ (pc' = "idle" => inQueue' = <<>>)
<1> USE KseTransceiveAssumption
<1>0. /\ call \in Nat /\ call > 0 /\ blocks \in 1 .. MaxBlocks /\ offset \in 0 .. blocks
      /\ recvLen \in Nat /\ answerLen \in 1 .. MaxBlocks /\ answerNext \in 1 .. answerLen
      /\ result = "none"
  BY DEF TypeInv, TypeOK, PcInv
<1>1. CASE SendBlock
  <2>1. pc = "send" /\ offset < blocks /\ inQueue = <<>> /\ pc' = "await" /\ offset' = offset + 1
        /\ UNCHANGED <<call, blocks, recvLen, data, result>>
    BY <1>1 DEF SendBlock, Proper, TypeInv, PcInv, callVars, dataVars
  <2>2. CASE offset + 1 < blocks
    <3>1. inQueue' = <<Report("ack", offset' - 1, blocks', call')>>
      BY <1>0, <1>1, <2>1, <2>2, SingleFacts DEF SendBlock, DeviceGetsBlock
    <3> QED
      BY <1>0, <2>1, <2>2, <3>1 DEF Proper
  <2>3. CASE ~(offset + 1 < blocks)
    <3>1. inQueue' = <<Report("answer", 0, answerLen', call')>> /\ devCall' = call'
          /\ answerNext' = 1
      BY <1>1, <2>1, <2>3, SingleFacts DEF SendBlock, DeviceGetsBlock
    <3> QED
      BY <1>0, <2>1, <2>3, <3>1 DEF Proper
  <2> QED
    BY <2>2, <2>3
<1>2. CASE ReadReport
  <2> DEFINE r == Head(inQueue)
  <2>1. pc = "await" /\ inQueue' = Tail(inQueue)
        /\ UNCHANGED <<call, blocks, offset, devCall, answerLen, answerNext>>
    BY <1>2 DEF ReadReport, callVars
  <2>2. inQueue' = <<>>
    BY <1>0, <2>1, SingleFacts DEF Proper
  <2>3. CASE ~Expects(r)
    BY <1>2, <2>2, <2>3 DEF ReadReport, Return, Proper
  <2>4. CASE Expects(r) /\ offset < blocks
    BY <1>0, <1>2, <2>2, <2>4 DEF ReadReport, Return, Proper
  <2>5. CASE Expects(r) /\ offset = blocks
    <3>1. r = Report("answer", 0, answerLen, call) /\ devCall = call /\ answerNext = 1
      BY <2>1, <2>5, SingleFacts DEF Proper
    <3>2. r.off = 0 /\ r.call = call /\ r.type = TypeOf(0, answerLen)
      BY <3>1 DEF Report
    <3>3. recvLen = 0 /\ Filled /\ 0 \in Offsets
      BY <2>1 DEF Fresh, Offsets
    <3>4. Copy(r) /\ IF r.type = "first" THEN pc' = "ask" /\ UNCHANGED result ELSE Return("ok")
      BY <1>0, <1>2, <2>5 DEF ReadReport
    <3>5. Filled' /\ recvLen' = 1
      BY <1>0, <2>1, <3>2, <3>3, <3>4, CopyFilled
    <3>6. CASE answerLen > 1
      <4>1. r.type = "first"
        BY <1>0, <3>2, <3>6, TypeOfFacts
      <4> QED
        BY <1>0, <2>1, <2>2, <3>1, <3>4, <3>5, <3>6, <4>1 DEF Proper
    <3>7. CASE answerLen = 1
      <4>1. r.type # "first"
        BY <1>0, <3>2, <3>7, TypeOfFacts
      <4>2. WholeAnswer'
        BY <2>1, <3>1, <3>5, <3>7 DEF WholeAnswer, Filled
      <4> QED
        BY <2>1, <2>2, <3>4, <4>1, <4>2 DEF Proper, Return
    <3> QED
      BY <1>0, <3>6, <3>7
  <2> QED
    BY <1>0, <1>2, <2>3, <2>4, <2>5 DEF ReadReport
<1>3. CASE Ask
  <2>1. pc = "ask" /\ pc' = "collect" /\ inQueue = <<>> /\ answerNext = recvLen
        /\ recvLen < answerLen /\ devCall = call /\ recvLen > 0 /\ Filled
        /\ UNCHANGED <<call, blocks, offset, recvLen, data, result>>
    BY <1>3 DEF Ask, Proper, callVars, dataVars
  <2>2. inQueue' = <<Report("answer", recvLen, answerLen, call)>> /\ answerNext' = recvLen + 1
        /\ devCall' = devCall /\ answerLen' = answerLen
    BY <1>3, <2>1, SingleFacts DEF Ask, DeviceGetsAck
  <2>3. Filled'
    BY <2>1 DEF Filled
  <2> QED
    BY <1>0, <2>1, <2>2, <2>3 DEF Proper
<1>4. CASE Collect
  <2> DEFINE r == Head(inQueue)
  <2>1. pc = "collect" /\ inQueue' = Tail(inQueue)
        /\ UNCHANGED <<call, blocks, offset, devCall, answerLen, answerNext>>
    BY <1>4 DEF Collect, callVars
  <2>2. inQueue = <<Report("answer", recvLen, answerLen, call)>> /\ answerNext = recvLen + 1
        /\ devCall = call /\ recvLen > 0 /\ Filled
    BY <2>1 DEF Proper
  <2>3. inQueue' = <<>> /\ r = Report("answer", recvLen, answerLen, call)
    BY <2>1, <2>2, SingleFacts
  <2>4. r.code = "answer" /\ r.off = recvLen /\ r.call = call /\ r.type = TypeOf(recvLen, answerLen)
    BY <2>3 DEF Report
  <2>5. Copy(r) /\ IF r.type = "middle" THEN pc' = "ask" /\ UNCHANGED result ELSE Return("ok")
    BY <1>4, <2>4 DEF Collect
  <2>6. recvLen \in Offsets
    BY <1>0, <2>2 DEF Offsets
  <2>7. Filled' /\ recvLen' = recvLen + 1
    BY <1>0, <2>1, <2>2, <2>4, <2>5, <2>6, CopyFilled
  <2>8. CASE recvLen + 1 < answerLen
    <3>1. r.type = "middle"
      BY <1>0, <2>2, <2>4, <2>8, TypeOfFacts
    <3> QED
      BY <1>0, <2>1, <2>2, <2>3, <2>5, <2>7, <2>8, <3>1 DEF Proper
  <2>9. CASE recvLen + 1 = answerLen
    <3>1. r.type # "middle"
      BY <1>0, <2>2, <2>4, <2>9, TypeOfFacts
    <3>2. WholeAnswer'
      BY <2>1, <2>2, <2>7, <2>9 DEF WholeAnswer, Filled
    <3> QED
      BY <2>1, <2>3, <2>5, <3>1, <3>2 DEF Proper, Return
  <2> QED
    BY <1>0, <2>2, <2>8, <2>9
<1>5. CASE ReadTimesOut
  BY <1>0, <1>5, SingleFacts DEF ReadTimesOut, Proper
<1> QED
  BY <1>1, <1>2, <1>3, <1>4, <1>5

(***************************************************************************)
(* A doomed exchange succeeds only if it was none: when the queue was      *)
(* empty in fact, it is a proper one after its first block.                *)
(***************************************************************************)
LEMMA DoomedStep ==
  ASSUME TypeInv, Fresh, Doomed, blocks > 1,
         SendBlock \/ ReadReport \/ Ask \/ Collect \/ ReadTimesOut
  PROVE  Proper' \/ Doomed'
<1> USE KseTransceiveAssumption
<1>0. /\ call \in Nat /\ call > 0 /\ blocks \in 1 .. MaxBlocks /\ offset \in 0 .. blocks
      /\ inQueue \in Seq(Reports) /\ Len(inQueue) \in Nat /\ result = "none"
      /\ pc \in {"send", "await", "collect"}
  <2>1. QueueTyped /\ (pc # "idle" => call > 0)
    BY DEF QueueTyped, TypeInv, TypeOK, PcInv
  <2> QED
    BY <2>1, QueueInts DEF TypeInv, TypeOK, PcInv, Doomed
<1>1. CASE SendBlock
  <2>1. pc = "send" /\ pc' = "await" /\ offset' = offset + 1
        /\ UNCHANGED <<call, blocks, result>>
    BY <1>1 DEF SendBlock, callVars
  <2>2. CASE offset = 0
    <3>1. inQueue' = Append(inQueue, FirstAck)
      BY <1>0, <1>1, <2>2 DEF SendBlock, DeviceGetsBlock, FirstAck
    <3>2. FirstAck \in Reports
      BY <1>0, ReportType DEF FirstAck, TypeInv, TypeOK
    <3>3. CASE inQueue = <<>>
      <4>1. inQueue' = <<FirstAck>>
        BY <3>1, <3>3, SingleFacts
      <4>2. inQueue' = <<Report("ack", offset' - 1, blocks', call')>>
        BY <2>1, <2>2, <4>1 DEF FirstAck
      <4> QED
        BY <1>0, <2>1, <2>2, <4>2 DEF Proper
    <3>4. CASE inQueue # <<>>
      <4>1. Len(inQueue) > 0
        BY <1>0, <3>4, TailFacts
      <4>2. Len(inQueue) = 1
        <5>1. Len(inQueue) <= 1
          BY <2>1, <2>2 DEF Doomed
        <5>2. Len(inQueue) \in Nat
          BY <1>0
        <5>3. \A n \in Nat : n > 0 /\ n <= 1 => n = 1
          OBVIOUS
        <5> QED
          BY <4>1, <5>1, <5>2, <5>3
      <4>3. Len(inQueue') = Len(inQueue) + 1 /\ inQueue'[Len(inQueue) + 1] = FirstAck
        BY <1>0, <3>1, <3>2, AppendFacts
      <4>4. Len(inQueue') = 2 /\ inQueue'[2] = FirstAck
        BY <4>2, <4>3
      <4> QED
        BY <1>0, <2>1, <2>2, <4>4 DEF Doomed, FirstAck
    <3> QED
      BY <3>3, <3>4
  <2>3. CASE offset # 0
    <3>1. offset = 1 /\ Len(inQueue) = 1 /\ inQueue[1] = FirstAck
      BY <2>1, <2>3 DEF Doomed
    <3>2. PICK r \in Reports : inQueue' = Append(inQueue, r)
      BY <1>1, GetsBlockOwn DEF SendBlock
    <3>3. /\ Len(inQueue') = Len(inQueue) + 1
          /\ \A i \in 1 .. Len(inQueue) : inQueue'[i] = inQueue[i]
      BY <1>0, <3>2, AppendFacts
    <3>4. Len(inQueue') = 2 /\ inQueue'[1] = FirstAck
      BY <3>1, <3>3
    <3> QED
      BY <1>0, <2>1, <3>1, <3>4 DEF Doomed, FirstAck
  <2> QED
    BY <2>2, <2>3
<1>2. CASE ReadReport
  <2> DEFINE r == Head(inQueue)
  <2>1. pc = "await" /\ inQueue # <<>> /\ inQueue' = Tail(inQueue)
        /\ UNCHANGED <<call, blocks, offset>>
    BY <1>2 DEF ReadReport, callVars
  <2>2. r = inQueue[1] /\ Len(inQueue') = Len(inQueue) - 1
        /\ \A i \in 1 .. Len(inQueue) - 1 : inQueue'[i] = inQueue[i + 1]
    BY <1>0, <2>1, TailFacts
  <2>3. CASE ~Expects(r)
    BY <1>2, <2>3 DEF ReadReport, Return, Proper
  <2>4. CASE Expects(r)
    <3>1. CASE offset = 1
      <4>1. Len(inQueue) = 2 /\ inQueue[2] = FirstAck
        BY <2>1, <3>1 DEF Doomed
      <4>2. Len(inQueue') = 1 /\ inQueue'[1] = FirstAck
        BY <2>2, <4>1
      <4>3. pc' = "send" /\ result' = result
        BY <1>0, <1>2, <2>4, <3>1 DEF ReadReport
      <4> QED
        BY <1>0, <2>1, <3>1, <4>2, <4>3 DEF Doomed, FirstAck
    <3>2. CASE offset # 1
      <4>1. offset = 2 /\ r = FirstAck
        BY <2>1, <2>2, <3>2 DEF Doomed
      <4>2. r.code = "ack" /\ r.off = 0
        BY <4>1 DEF FirstAck, Report
      <4> QED
        BY <2>4, <4>1, <4>2 DEF Expects
    <3> QED
      BY <3>1, <3>2
  <2> QED
    BY <2>3, <2>4
<1>3. CASE Ask
  BY <1>0, <1>3 DEF Ask
<1>4. CASE Collect
  BY <1>4 DEF Collect, Doomed
<1>5. CASE ReadTimesOut
  BY <1>5 DEF ReadTimesOut, Return, Proper
<1> QED
  BY <1>1, <1>2, <1>3, <1>4, <1>5

LEMMA OwnStep == TypeInv /\ AgeInv /\ OwnInv /\ [Next]_vars => OwnInv'
<1> SUFFICES ASSUME TypeInv, AgeInv, OwnInv, [Next]_vars PROVE OwnInv'
  OBVIOUS
<1>0. Fresh /\ Fresh' /\ fails \in Nat
  BY FreshStep DEF OwnInv, TypeInv, TypeOK
<1>1. CASE Call
  <2>1. pc = "idle" /\ pc' = "send" /\ offset' = 0 /\ result' = "none" /\ inQueue' = inQueue
        /\ fails' = fails
    BY <1>1 DEF Call, devVars
  <2>2. fails = 0 => Proper'
    BY <2>1 DEF OwnInv, Proper
  <2>3. fails = 1 => Doomed'
    BY <2>1 DEF AgeInv, Within, Doomed
  <2> QED
    BY <1>0, <2>1, <2>2, <2>3 DEF OwnInv
<1>2. CASE SendBlock \/ ReadReport \/ Ask \/ Collect \/ ReadTimesOut
  <2>1. fails' = fails /\ blocks' = blocks /\ pc # "idle"
    BY <1>2 DEF SendBlock, ReadReport, Ask, Collect, ReadTimesOut, callVars
  <2>2. CASE fails = 0
    BY <1>0, <1>2, <2>1, <2>2, ProperStep DEF OwnInv
  <2>3. CASE fails = 1 /\ blocks > 1
    BY <1>0, <1>2, <2>1, <2>3, ProperStep, DoomedStep DEF OwnInv
  <2> QED
    BY <1>0, <2>1, <2>2, <2>3 DEF OwnInv
<1>3. CASE SendFails \/ ReadFails
  <2>1. fails' = fails + 1 /\ pc' = "idle" /\ result' = "error"
    BY <1>3 DEF SendFails, ReadFails, Return
  <2>2. Proper'
    BY <2>1 DEF Proper
  <2> QED
    BY <1>0, <2>1, <2>2 DEF OwnInv
<1>4. CASE Swallowed
  <2>1. fails' = fails + 1 /\ pc \in {"send", "ask"} /\ pc' \in {"await", "collect"}
        /\ inQueue' = inQueue /\ result' = "none"
    BY <1>4 DEF Swallowed, devVars, TypeInv, PcInv
  <2>2. fails = 0 => Doomed'
    BY <2>1 DEF OwnInv, Proper, Doomed
  <2> QED
    BY <1>0, <2>1, <2>2 DEF OwnInv
<1>5. CASE UNCHANGED vars
  BY <1>0, <1>5 DEF vars, callVars, dataVars, devVars, OwnInv, Proper, Doomed, Filled,
    FirstAck, WholeAnswer
<1> QED
  BY <1>1, <1>2, <1>3, <1>4, <1>5 DEF Next, Transfer

LEMMA OwnAlways == Spec => []OwnInv
BY OwnInit, OwnStep, TypeAlways, AgeAlways, PTL DEF Spec

(***************************************************************************)
(* Before the first failure every call that succeeds returns the whole     *)
(* answer to its own command; after it commands of more than one block     *)
(* still do, because the acknowledgements expose the late report.          *)
(***************************************************************************)
THEOREM OwnTheorem == Spec => []OwnAnswer
<1>1. TypeInv /\ OwnInv => OwnAnswer
  <2> SUFFICES ASSUME TypeInv, OwnInv, result = "ok", fails = 0 \/ (fails = 1 /\ blocks > 1)
               PROVE  WholeAnswer
    BY DEF OwnAnswer
  <2>1. Proper
    BY DEF OwnInv, Doomed
  <2> QED
    BY <2>1 DEF Proper
<1> QED
  BY <1>1, TypeAlways, OwnAlways, PTL
=============================================================================
