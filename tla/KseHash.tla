------------------------------ MODULE KseHash ------------------------------
(***************************************************************************)
(* The hash and signature functions of the kse library (kse_ubuntu.c       *)
(* 2004-2229): SHA2-256, HMAC and its verification, ECDSA signature and    *)
(* verification.  A message that fits one exchange is done in one step; a  *)
(* longer one begins a computation in the device, feeds it, and ends it    *)
(* with the rest.  A step is one exchange (KseExchange).                   *)
(*                                                                         *)
(* A message is a sequence of blocks, and a result is the algorithm, the   *)
(* key and the message it is of.                                           *)
(***************************************************************************)
EXTENDS KseExchange, Sequences

CONSTANTS
  MAX_IO,    \* MAX_IO_DATA_SIZE in blocks
  MaxSize,   \* bound: blocks of a message
  MaxCalls,  \* bound: calls
  Keys       \* bound: usKeyIndex, some too large

VARIABLES
  pc,      \* "idle", or the step the call is at: "one", "begin", "mid", "end"
  call,    \* number of the present, or last, call
  job,     \* its algorithm, key, size, and whether the value to verify is right
  pos,     \* blocks of the message that have been sent
  output,  \* pbInOut1 and pbInOut2, when they are output
  dev,     \* device: the computation that has begun
  behind   \* history: the call has had a late answer for its own

jobVars == <<call, job>>
vars == <<exchangeVars, ret, pc, jobVars, pos, output, dev, behind>>

MAX_KCMVP_KEY_COUNT == 8
\* Bytes of a block: a message of one, with a value to verify, fits a report,
\* a step of MAX_IO does not.
BlockSize == 22

Algs == {"SHA", "HMAC_GEN", "HMAC_VERI", "ECDSA_SIGN", "ECDSA_VERI"}
Verifies == {"HMAC_VERI", "ECDSA_VERI"}
Ecdsa == {"ECDSA_SIGN", "ECDSA_VERI"}

Message(c, from, to) == [i \in 1 .. to - from + 1 |-> <<c, from + i - 1>>]
NoKey == -1
KeyOf(j) == IF j.alg = "SHA" THEN NoKey ELSE j.key
Result(alg, key, message) == [alg |-> alg, key |-> key, message |-> message]
None == Result("none", NoKey, <<>>)

-----------------------------------------------------------------------------
(* The device (external).                                                  *)

\* Its answer to the last step of a computation.
ResultAnswer(alg, key, message) ==
  IF alg \in Verifies THEN (IF job.valid THEN Done ELSE Refusal)
  ELSE Answer(IF alg = "ECDSA_SIGN" THEN 64 ELSE 32, Result(alg, key, message))

\* A part is added to the computation that has begun; there may be none.
Feeds(alg) == dev.alg = alg

-----------------------------------------------------------------------------
(* The call.                                                               *)

Init ==
  /\ ExchangeInit
  /\ pc = "idle" /\ call = 0 /\ pos = 0 /\ output = None /\ dev = None /\ behind = FALSE
  /\ job = [alg |-> "SHA", key |-> 0, size |-> 0, valid |-> TRUE]

Call ==
  /\ pc = "idle" /\ call < MaxCalls
  /\ call' = call + 1
  /\ \E alg \in Algs, key \in Keys, size \in 0 .. MaxSize, valid \in BOOLEAN :
       /\ valid \/ alg \in Verifies
       /\ job' = [alg |-> alg, key |-> key, size |-> size, valid |-> valid]
       /\ LET guard == Guarded(alg = "SHA" \/ key < MAX_KCMVP_KEY_COUNT) IN
            IF guard = Success
            THEN pc' = (IF size <= MAX_IO THEN "one" ELSE "begin") /\ UNCHANGED ret
            ELSE ret' = guard /\ UNCHANGED pc
  /\ pos' = 0 /\ output' = None /\ behind' = FALSE
  /\ UNCHANGED <<exchangeVars, dev>>

\* A command with blocks of the message and other bytes is sent and answered
\* with own; the next state of the device is then new.  If the answer passes
\* the check the call goes on at the step next, after the blocks.
Step(blocks, others, own, new, okLens, next) ==
  \E done \in BOOLEAN :
  \E x \in Exchanges(BlockSize * blocks + others, own, done) :
    LET result == StatusOf(x.got, okLens) IN
    /\ ExchangeWith(x)
    /\ done \/ x.got # own
    /\ dev' = IF done THEN new ELSE dev
    /\ behind' = (behind \/ (result = Success /\ x.got # own))
    /\ IF result # Success \/ next = "idle"
       THEN pc' = "idle" /\ ret' = result ELSE pc' = next /\ UNCHANGED ret
    /\ pos' = IF result = Success THEN pos + blocks ELSE pos
    /\ output' = IF result = Success /\ next = "idle" /\ job.alg \notin Verifies
                 THEN x.got.data ELSE output
    /\ UNCHANGED jobVars

\* The bytes of a key index and of the values to verify.
KeyBytes(algs) == IF job.alg \in algs THEN 2 ELSE 0
ValueBytes == CASE job.alg = "HMAC_VERI" -> 32 [] job.alg = "ECDSA_VERI" -> 64 [] OTHER -> 0
ResultLens ==
  CASE job.alg \in {"SHA", "HMAC_GEN"} -> {34} [] job.alg = "ECDSA_SIGN" -> {66} [] OTHER -> {2}

OneStep ==
  /\ pc = "one"
  /\ LET own == ResultAnswer(job.alg, KeyOf(job), Message(call, 1, job.size))
     IN  \E a \in {own, Refusal} :
           Step(job.size, 4 + KeyBytes(Algs \ {"SHA"}) + ValueBytes, a, None, ResultLens, "idle")

\* What is left after the next full part decides on the step after it.
AfterPart == IF job.size - (pos + MAX_IO) > MAX_IO THEN "mid" ELSE "end"

\* The key of an HMAC goes with the first part.
Begin ==
  /\ pc = "begin"
  /\ LET hmac == {"HMAC_GEN", "HMAC_VERI"}
         begun == Result(job.alg, IF job.alg \in hmac THEN KeyOf(job) ELSE NoKey,
                         Message(call, 1, MAX_IO))
     IN  \/ Step(MAX_IO, 4 + KeyBytes(hmac), Done, begun, {2}, AfterPart)
         \/ Step(MAX_IO, 4 + KeyBytes(hmac), Refusal, None, {2}, AfterPart)

Mid ==
  /\ pc = "mid"
  /\ Step(MAX_IO, 4, IF Feeds(job.alg) THEN Done ELSE Refusal,
          [dev EXCEPT !.message = @ \o Message(call, pos + 1, pos + MAX_IO)], {2}, AfterPart)

\* Mutant: the key of a signature is left out at the end.
KeyAtEndLost == dev.key

\* The key of a signature goes with the last part.
KeyAtEnd == IF job.alg \in Ecdsa THEN KeyOf(job) ELSE dev.key

End ==
  /\ pc = "end"
  /\ LET own == IF Feeds(job.alg)
                THEN ResultAnswer(job.alg, KeyAtEnd,
                                  dev.message \o Message(call, pos + 1, job.size))
                ELSE Refusal
     IN  Step(job.size - pos, 4 + KeyBytes(Ecdsa) + ValueBytes, own, None, ResultLens, "idle")

Next == Call \/ OneStep \/ Begin \/ Mid \/ End
Spec == Init /\ [][Next]_vars

-----------------------------------------------------------------------------

TypeOK ==
  /\ ExchangeTypeOK
  /\ pc \in {"idle", "one", "begin", "mid", "end"} /\ call \in 0 .. MaxCalls
  /\ pos \in 0 .. job.size /\ job.size <= MaxSize
  /\ output.alg \in Algs \cup {"none"} /\ dev.alg \in Algs \cup {"none"}

(***************************************************************************)
(* A result is of the whole message, in order, and of the key that was     *)
(* asked for, whether it took one step or many, and a verification that    *)
(* succeeds is of a right value.  One case is excepted: a call that has    *)
(* taken a late answer for its own (behind).  Then a failed transfer has   *)
(* gone before, and a one-step hash returns the result of another message  *)
(* and a one-step verification may succeed for a wrong value.  For a call  *)
(* of several steps nothing is excepted (SeveralStepsOwn).                 *)
(***************************************************************************)
ResultOfMessage ==
  pc = "idle" /\ call > 0 /\ ret = Success /\ ~behind =>
    /\ pos = job.size
    /\ IF job.alg \in Verifies THEN job.valid
       ELSE output = Result(job.alg, KeyOf(job), Message(call, 1, job.size))

(***************************************************************************)
(* In the middle of a call the device's computation is this call's: what a *)
(* call that failed has left there is gone.                                *)
(***************************************************************************)
ComputationIsOwn ==
  pc \in {"mid", "end"} => /\ dev.alg = job.alg
                           /\ dev.message = Message(call, 1, pos)

(***************************************************************************)
(* A late answer is never taken for one of several steps: the first of     *)
(* them is a command of many blocks.  Only a call whose one step fits a    *)
(* report may take it, and only after a failed transfer.                   *)
(***************************************************************************)
SeveralStepsOwn == behind => failed /\ job.size <= MAX_IO
=============================================================================
