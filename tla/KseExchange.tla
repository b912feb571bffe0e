---------------------------- MODULE KseExchange ----------------------------
(***************************************************************************)
(* What the commands of the kse library (kse_ubuntu.c) have in common.  A  *)
(* command is put into the buffer, goes to the device through              *)
(* _kseTransceive, and its answer, two bytes of status and perhaps data,   *)
(* is in the buffer when that returns.  The commands differ in the inputs  *)
(* they refuse and in the lengths of answer they accept.                   *)
(*                                                                         *)
(* KseTransceive has the transfers; here an exchange is one step.  What    *)
(* that module shows of a first failed transfer is kept: it leaves a       *)
(* report in the device, and what the host reads is one report behind from *)
(* then on.  The device is external.                                       *)
(***************************************************************************)
EXTENDS Integers

CONSTANT MayFail   \* bound: one transfer of the whole run may fail, or none

VARIABLES
  power,   \* gusKsePower: the device is powered on
  ret,     \* result of the last command
  late,    \* device: a report it has ready and the host has not read
  failed   \* history: whether a transfer has failed

exchangeVars == <<power, late, failed>>

Block == 60       \* bytes of a command or an answer that go into one report
NoData == <<>>

Success == "KSE_SUCCESS"
NotPoweredOn == "KSE_FAIL_NOT_POWERED_ON"
WrongInput == "KSE_FAIL_WRONG_INPUT"
TransferFails == "KSE_FAIL_USB_REPORT"   \* SEND_REPORT and RECV_REPORT
UnexpectedResp == "KSE_FAIL_UNEXPECTED_RESP"
UnexpectedLen == "KSE_FAIL_UNEXPECTED_RESP_LEN"
Refused == "KSE_FAIL_STATE"   \* any status of the device but success
Results == {Success, NotPoweredOn, WrongInput, TransferFails, UnexpectedResp, UnexpectedLen, Refused}

\* Answers: n bytes after the status.
Answer(n, d) == [status |-> Success, usLen |-> n + 2, data |-> d]
Done == Answer(0, NoData)
Refusal == [status |-> Refused, usLen |-> 2, data |-> NoData]
IsLong(n) == n > Block

\* Other reports that may be late, and results without an answer.
NoReport == [status |-> "none", usLen |-> 0, data |-> NoData]
Acknowledgement == [status |-> "ack", usLen |-> 0, data |-> NoData]
Fragment == [status |-> "rest of an answer", usLen |-> 0, data |-> NoData]
Without(result) == [status |-> result, usLen |-> 0, data |-> NoData]

ExchangeInit ==
  /\ power \in BOOLEAN /\ ret = Success /\ late = NoReport /\ failed = FALSE

-----------------------------------------------------------------------------

\* Mutant: whatever comes where an acknowledgement is expected is the answer.
ExchangesUnchecked(n, own, done) ==
  LET end(g, r, f) == [got |-> g, late |-> r, failed |-> f]
  IN  {IF late = NoReport THEN end(own, NoReport, FALSE) ELSE end(late, own, FALSE)}
      \cup (IF MayFail /\ ~failed THEN {end(Without(TransferFails), own, TRUE)} ELSE {})

\* How _kseTransceive may end for a command of n bytes that the device answers
\* with own; done: the device gets all of it and carries it out.
Exchanges(n, own, done) ==
  LET end(g, r, f) == [got |-> g, late |-> r, failed |-> f]
      \* Only the first block of the late answer is there, and the host asks
      \* for the next one: it gets the first block of its own answer.
      mixed == [status |-> own.status, data |-> NoData,
                usLen |-> Block + (IF IsLong(own.usLen) THEN Block ELSE own.usLen)]
      behind ==
        IF late \in {Acknowledgement, Fragment} THEN end(Without(UnexpectedResp), own, FALSE)
        ELSE IF IsLong(late.usLen)
        THEN end(mixed, IF IsLong(own.usLen) THEN Fragment ELSE NoReport, FALSE)
        ELSE end(late, own, FALSE)
      \* The late report where an acknowledgement is expected: the command is
      \* cut off, unless the report passes for one and this block is the last
      \* but one.
      cut == IF done THEN {} ELSE {end(Without(UnexpectedResp), Acknowledgement, FALSE)}
      passed == IF late = Acknowledgement /\ ~IsLong(n - Block)
                THEN {end(Without(UnexpectedResp), own, FALSE)} ELSE {}
      fails == {end(Without(TransferFails), r, TRUE) :
                  r \in {NoReport, own} \cup (IF IsLong(n) THEN {Acknowledgement} ELSE {})
                                        \cup (IF IsLong(own.usLen) THEN {Fragment} ELSE {})}
  IN  (IF late = NoReport THEN {end(own, NoReport, FALSE)}
       ELSE IF IsLong(n) THEN cut \cup passed ELSE {behind})
      \cup (IF MayFail /\ ~failed THEN fails ELSE {})

\* The result for what came back.  An answer of a length the command does not
\* expect (okLens with success, else 2) is refused.
StatusOf(got, okLens) ==
  IF got.status \in {TransferFails, UnexpectedResp} THEN got.status
  ELSE IF got.usLen \notin (IF got.status = Success THEN okLens ELSE {2}) THEN UnexpectedLen
  ELSE got.status

\* The checks every command begins with.
Guarded(inputOk) ==
  IF ~power THEN NotPoweredOn ELSE IF ~inputOk THEN WrongInput ELSE Success

ExchangeWith(x) == late' = x.late /\ failed' = (failed \/ x.failed) /\ UNCHANGED power

-----------------------------------------------------------------------------

\* The part of the type invariant the commands share.
ExchangeTypeOK ==
  /\ power \in BOOLEAN /\ ret \in Results
  /\ late.status \in {Success, Refused, "none", "ack", "rest of an answer"}
  /\ failed \in BOOLEAN /\ (failed => MayFail)
=============================================================================
