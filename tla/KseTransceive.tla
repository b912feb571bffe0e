--------------------------- MODULE KseTransceive ---------------------------
(***************************************************************************)
(* _kseTransceive of the kse library: every command to the USB device and  *)
(* its answer go through it, in reports of at most 60 bytes.  The host     *)
(* sends a block of the command and reads one report: an acknowledgement,  *)
(* or after the last block the first block of the answer.  It asks for     *)
(* each further block of the answer with an acknowledgement of its own.    *)
(*                                                                         *)
(* Every transfer has a timeout.  A call whose transfer fails returns, but *)
(* the device knows nothing of that: a report that comes late stays in its *)
(* queue and is what the next call reads.  Reports carry no number of the  *)
(* call they belong to; the model's do, and the host does not look at it.  *)
(*                                                                         *)
(* A step is one transfer and what the host does with its result; the      *)
(* device reacts at once to a report it gets.  Calls follow one another    *)
(* (DimServer is about those that overlap).  Left out: the length of a     *)
(* block, and with it KSE_FAIL_RECV_BUF_OVERFLOW (the device of the model  *)
(* answers with at most MaxBlocks blocks), and a device that is not open.  *)
(***************************************************************************)
EXTENDS Integers, Sequences

CONSTANTS
  MaxBlocks,  \* blocks of the longest command or answer
  MaxCalls,   \* bound: calls
  MaxFails    \* bound: transfers that fail or that the device ignores

ASSUME KseTransceiveAssumption ==
  MaxBlocks \in Nat \ {0} /\ MaxCalls \in Nat /\ MaxFails \in Nat

VARIABLES
  pc,         \* where the host is in the call
  call,       \* number of the present, or last, call
  blocks,     \* blocks of its command
  offset,     \* usOffset: blocks sent
  data,       \* pbRecvData: offset -> the call whose block was copied, or 0
  recvLen,    \* usRecvLen in blocks
  result,     \* result of the last call, "none" while it runs
  \* The device.
  inQueue,    \* reports it has ready and the host has not read
  devCall,    \* the command it answered last
  answerLen,  \* blocks of that answer
  answerNext, \* the next of them to send
  \* History.
  fails       \* how many have failed so far

callVars == <<call, blocks>>
dataVars == <<data, recvLen>>
devVars == <<inQueue, devCall, answerLen, answerNext>>
vars == <<pc, callVars, offset, dataVars, result, devVars, fails>>

Offsets == 0 .. MaxBlocks - 1
BlockTypes == {"one", "first", "middle", "last"}
Reports == [code : {"ack", "answer"}, type : BlockTypes, off : Offsets, call : 1 .. MaxCalls]

\* REP_ONE_BLOCK ... REP_LAST_BLOCK: block k of n.
TypeOf(k, n) ==
  CASE n = 1 -> "one"
    [] n > 1 /\ k = 0 -> "first"
    [] n > 1 /\ k = n - 1 -> "last"
    [] OTHER -> "middle"

Report(code, k, n, c) == [code |-> code, type |-> TypeOf(k, n), off |-> k, call |-> c]

Init ==
  /\ pc = "idle" /\ call = 0 /\ blocks = 1 /\ offset = 0
  /\ data = [o \in Offsets |-> 0] /\ recvLen = 0 /\ result = "none"
  /\ inQueue = <<>> /\ devCall = 0 /\ answerLen = 1 /\ answerNext = 1
  /\ fails = 0

-----------------------------------------------------------------------------
(* The device.                                                             *)

\* It acknowledges a block that is not the last, and answers the last one.
DeviceGetsBlock ==
  IF offset + 1 < blocks
    THEN /\ inQueue' = Append(inQueue, Report("ack", offset, blocks, call))
         /\ UNCHANGED <<devCall, answerLen, answerNext>>
    ELSE /\ devCall' = call /\ answerNext' = 1
         /\ \E n \in 1 .. MaxBlocks :
              /\ answerLen' = n
              /\ inQueue' = Append(inQueue, Report("answer", 0, n, call))

\* Asked for more, it sends the next block of its last answer, if there is one.
DeviceGetsAck ==
  IF answerNext < answerLen
    THEN /\ inQueue' = Append(inQueue, Report("answer", answerNext, answerLen, devCall))
         /\ answerNext' = answerNext + 1
         /\ UNCHANGED <<devCall, answerLen>>
    ELSE UNCHANGED devVars

-----------------------------------------------------------------------------
(* The host.                                                               *)

Return(r) == pc' = "idle" /\ result' = r

\* The library builds a command and calls _kseTransceive.
Call ==
  /\ pc = "idle" /\ call < MaxCalls
  /\ call' = call + 1 /\ blocks' \in 1 .. MaxBlocks
  /\ offset' = 0 /\ recvLen' = 0 /\ data' = [o \in Offsets |-> 0]
  /\ result' = "none"
  /\ pc' = "send"
  /\ UNCHANGED <<devVars, fails>>

\* Mutant: the acknowledgement of a block is not read.
SendWithoutRead ==
  /\ pc = "send"
  /\ DeviceGetsBlock
  /\ offset' = offset + 1
  /\ pc' = IF offset + 1 < blocks THEN "send" ELSE "await"
  /\ UNCHANGED <<callVars, dataVars, result, fails>>

SendBlock ==
  /\ pc = "send"
  /\ DeviceGetsBlock
  /\ offset' = offset + 1
  /\ pc' = "await"
  /\ UNCHANGED <<callVars, dataVars, result, fails>>

\* Mutant: any report is taken for the answer.
ExpectsAny(r) ==
  IF offset < blocks
    THEN r.code = "ack" /\ r.type = TypeOf(offset - 1, blocks) /\ r.off = offset - 1
    ELSE r.off = 0

\* The check of the report after a block: KSE_FAIL_UNEXPECTED_RESP otherwise.
Expects(r) ==
  IF offset < blocks
    THEN r.code = "ack" /\ r.type = TypeOf(offset - 1, blocks) /\ r.off = offset - 1
    ELSE r.code = "answer" /\ r.off = 0

\* A block of the answer is copied to its place.
Copy(r) == data' = [data EXCEPT ![r.off] = r.call] /\ recvLen' = recvLen + 1

ReadReport ==
  /\ pc = "await" /\ inQueue # <<>>
  /\ inQueue' = Tail(inQueue)
  /\ LET r == Head(inQueue) IN
       \/ ~Expects(r) /\ Return("error") /\ UNCHANGED dataVars
       \/ Expects(r) /\ offset < blocks /\ pc' = "send" /\ UNCHANGED <<dataVars, result>>
       \/ /\ Expects(r) /\ offset = blocks /\ Copy(r)
          /\ IF r.type = "first" THEN pc' = "ask" /\ UNCHANGED result ELSE Return("ok")
  /\ UNCHANGED <<callVars, offset, devCall, answerLen, answerNext, fails>>

\* The acknowledgement that asks for the next block.
Ask ==
  /\ pc = "ask"
  /\ DeviceGetsAck
  /\ pc' = "collect"
  /\ UNCHANGED <<callVars, offset, dataVars, result, fails>>

\* do ... while (abInReport[0] == REP_MIDDLE_BLOCK)
Collect ==
  /\ pc = "collect" /\ inQueue # <<>>
  /\ inQueue' = Tail(inQueue)
  /\ LET r == Head(inQueue) IN
       \/ r.code # "answer" /\ Return("error") /\ UNCHANGED dataVars
       \/ /\ r.code = "answer" /\ Copy(r)
          /\ IF r.type = "middle" THEN pc' = "ask" /\ UNCHANGED result ELSE Return("ok")
  /\ UNCHANGED <<callVars, offset, devCall, answerLen, answerNext, fails>>

\* A transfer to the device fails, perhaps after the device got the report.
SendFails ==
  /\ pc \in {"send", "ask"} /\ fails < MaxFails
  /\ \/ UNCHANGED devVars
     \/ pc = "send" /\ DeviceGetsBlock
     \/ pc = "ask" /\ DeviceGetsAck
  /\ Return("error") /\ fails' = fails + 1
  /\ UNCHANGED <<callVars, offset, dataVars>>

\* A transfer from the device fails: the report stays for later, or is lost.
ReadFails ==
  /\ pc \in {"await", "collect"} /\ inQueue # <<>> /\ fails < MaxFails
  /\ inQueue' \in {inQueue, Tail(inQueue)}
  /\ Return("error") /\ fails' = fails + 1
  /\ UNCHANGED <<callVars, offset, dataVars, devCall, answerLen, answerNext>>

\* The device does not react to a report it was sent.
Swallowed ==
  /\ pc \in {"send", "ask"} /\ fails < MaxFails
  /\ \/ pc = "send" /\ offset' = offset + 1 /\ pc' = "await"
     \/ pc = "ask" /\ pc' = "collect" /\ UNCHANGED offset
  /\ fails' = fails + 1
  /\ UNCHANGED <<callVars, dataVars, result, devVars>>

\* Mutant: the read is tried again.
ReadAgain ==
  /\ pc \in {"await", "collect"} /\ inQueue = <<>>
  /\ UNCHANGED vars

\* The device has nothing to send: the transfer times out.
ReadTimesOut ==
  /\ pc \in {"await", "collect"} /\ inQueue = <<>>
  /\ Return("error")
  /\ UNCHANGED <<callVars, offset, dataVars, devVars, fails>>

Transfer ==
  \/ SendBlock \/ ReadReport \/ Ask \/ Collect
  \/ SendFails \/ Swallowed \/ ReadFails \/ ReadTimesOut

Next == Call \/ Transfer

Spec == Init /\ [][Next]_vars

\* Every transfer ends, if only by its timeout of TIMEOUT_MS.
FairSpec == Spec /\ WF_vars(Transfer)

-----------------------------------------------------------------------------

\* Every variable has its type.  Late answers may add to usRecvLen.
TypeOK ==
  /\ pc \in {"idle", "send", "await", "ask", "collect"}
  /\ call \in 0 .. MaxCalls /\ blocks \in 1 .. MaxBlocks /\ offset \in 0 .. blocks
  /\ data \in [Offsets -> 0 .. call] /\ recvLen \in Nat
  /\ result \in {"none", "ok", "error"}
  /\ inQueue \in Seq(Reports)
  /\ devCall \in 0 .. call /\ answerLen \in 1 .. MaxBlocks /\ answerNext \in 1 .. answerLen
  /\ fails \in 0 .. MaxFails

\* The host holds the whole answer to its own command, every block in its place.
WholeAnswer ==
  /\ devCall = call /\ recvLen = answerLen
  /\ \A o \in Offsets : data[o] = IF o < answerLen THEN call ELSE 0

(***************************************************************************)
(* As long as no transfer has failed, a call that succeeds returns the     *)
(* whole answer to its own command, whatever the lengths of the two.  The  *)
(* acknowledgements protect commands of more than one block (every TLS     *)
(* record, a handshake) even after a first failure.                        *)
(***************************************************************************)
OwnAnswer ==
  result = "ok" /\ (fails = 0 \/ (fails = 1 /\ blocks > 1)) => WholeAnswer

(***************************************************************************)
(* A failed transfer leaves a late report behind, and the library never    *)
(* gets rid of it: from then on calls may succeed with the answer to an    *)
(* earlier command.  But the first block of an answer is never older than  *)
(* as many calls as transfers have failed.                                 *)
(***************************************************************************)
AnswerAge == result = "ok" => call - data[0] <= fails

(***************************************************************************)
(* Every call returns: the answer loop ends and no read waits for ever.    *)
(***************************************************************************)
CallReturns == pc # "idle" ~> pc = "idle"
=============================================================================
