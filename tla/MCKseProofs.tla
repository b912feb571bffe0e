----------------------------- MODULE MCKseProofs -----------------------------
(***************************************************************************)
(* Theorems about the commands of the kse library (MCKse).                 *)
(*                                                                         *)
(* All groups use the same exchange, and as long as no transfer has failed *)
(* no report is late (LateInv): then the device and the host are in step,  *)
(* and an exchange brings the command's own answer or fails (EndsInStep).  *)
(* Out of step a command of several blocks does not succeed                *)
(* (LongOutOfStep), and only a short one may take a late answer.  The      *)
(* invariants of the groups follow from these facts; the initial state     *)
(* chooses the group, and what is not its own stays as it began.           *)
(*                                                                         *)
(* The sizes (SizeInv) need less of an exchange: what comes back is the    *)
(* command's own answer, the late one, or a mixture of the two (EndsAre),  *)
(* and no mixture has a length that a cipher or a hash accepts.            *)
(*                                                                         *)
(* The ciphers.  What a mode makes of a message is the one output in which *)
(* each block follows from the message, the IV and the block before        *)
(* (ApplyRuns, RunsUnique, by the least block that would differ); with the *)
(* IV handed on, a chunk runs by the blocks of the whole message (RunsOn). *)
(***************************************************************************)
EXTENDS MCKse, Sequences, SequenceTheorems, WellFoundedInduction, TLAPS

Exchange == INSTANCE KseExchange
Memory == INSTANCE KseStore

-----------------------------------------------------------------------------
(* How an exchange may end.  The five groups of commands share it.         *)

Ends(n, own, ok) == Exchange!Exchanges(n, own, ok)
InStep == late = Exchange!NoReport

LEMMA Same ==
  /\ \A n, own, ok : KeyStore!Exchanges(n, own, ok) = Ends(n, own, ok)
  /\ \A n, own, ok : CertStore!Exchanges(n, own, ok) = Ends(n, own, ok)
  /\ \A n, own, ok : InfoFile!Exchanges(n, own, ok) = Ends(n, own, ok)
  /\ \A n, own, ok : Ciphers!Exchanges(n, own, ok) = Ends(n, own, ok)
  /\ \A n, own, ok : Hash!Exchanges(n, own, ok) = Ends(n, own, ok)
<1>1. \A n, own, ok : KeyStore!Exchanges(n, own, ok) = Ends(n, own, ok)
  BY DEF Ends, KeyStore!Exchanges, KeyStore!NoReport, KeyStore!Acknowledgement, KeyStore!Fragment,
         KeyStore!Without, KeyStore!TransferFails, KeyStore!UnexpectedResp, KeyStore!IsLong,
         KeyStore!Block, KeyStore!NoData, Exchange!Exchanges, Exchange!NoReport,
         Exchange!Acknowledgement, Exchange!Fragment, Exchange!Without, Exchange!TransferFails,
         Exchange!UnexpectedResp, Exchange!IsLong, Exchange!Block, Exchange!NoData
<1>2. \A n, own, ok : CertStore!Exchanges(n, own, ok) = Ends(n, own, ok)
  BY DEF Ends, CertStore!Exchanges, CertStore!NoReport, CertStore!Acknowledgement,
         CertStore!Fragment, CertStore!Without, CertStore!TransferFails,
         CertStore!UnexpectedResp, CertStore!IsLong, CertStore!Block, CertStore!NoData,
         Exchange!Exchanges, Exchange!NoReport, Exchange!Acknowledgement, Exchange!Fragment,
         Exchange!Without, Exchange!TransferFails, Exchange!UnexpectedResp, Exchange!IsLong,
         Exchange!Block, Exchange!NoData
<1>3. \A n, own, ok : InfoFile!Exchanges(n, own, ok) = Ends(n, own, ok)
  BY DEF Ends, InfoFile!Exchanges, InfoFile!NoReport, InfoFile!Acknowledgement, InfoFile!Fragment,
         InfoFile!Without, InfoFile!TransferFails, InfoFile!UnexpectedResp, InfoFile!IsLong,
         InfoFile!Block, InfoFile!NoData, Exchange!Exchanges, Exchange!NoReport,
         Exchange!Acknowledgement, Exchange!Fragment, Exchange!Without, Exchange!TransferFails,
         Exchange!UnexpectedResp, Exchange!IsLong, Exchange!Block, Exchange!NoData
<1>4. \A n, own, ok : Ciphers!Exchanges(n, own, ok) = Ends(n, own, ok)
  BY DEF Ends, Ciphers!Exchanges, Ciphers!NoReport, Ciphers!Acknowledgement, Ciphers!Fragment,
         Ciphers!Without, Ciphers!TransferFails, Ciphers!UnexpectedResp, Ciphers!IsLong,
         Ciphers!Block, Ciphers!NoData, Exchange!Exchanges, Exchange!NoReport,
         Exchange!Acknowledgement, Exchange!Fragment, Exchange!Without, Exchange!TransferFails,
         Exchange!UnexpectedResp, Exchange!IsLong, Exchange!Block, Exchange!NoData
<1>5. \A n, own, ok : Hash!Exchanges(n, own, ok) = Ends(n, own, ok)
  BY DEF Ends, Hash!Exchanges, Hash!NoReport, Hash!Acknowledgement, Hash!Fragment, Hash!Without,
         Hash!TransferFails, Hash!UnexpectedResp, Hash!IsLong, Hash!Block, Hash!NoData,
         Exchange!Exchanges, Exchange!NoReport, Exchange!Acknowledgement, Exchange!Fragment,
         Exchange!Without, Exchange!TransferFails, Exchange!UnexpectedResp, Exchange!IsLong,
         Exchange!Block, Exchange!NoData
<1> QED
  BY <1>1, <1>2, <1>3, <1>4, <1>5

LEMMA EndsInStep ==
  ASSUME NEW n, NEW own, NEW ok, NEW x \in Ends(n, own, ok), InStep
  PROVE  \/ x.got = own /\ x.late = Exchange!NoReport /\ x.failed = FALSE
         \/ x.got = Exchange!Without(Exchange!TransferFails) /\ x.failed = TRUE
BY DEF Ends, Exchange!Exchanges, InStep

LEMMA LongOutOfStep ==
  ASSUME NEW n, NEW own, NEW ok, NEW x \in Ends(n, own, ok), ~InStep, Exchange!IsLong(n)
  PROVE  x.got \in {Exchange!Without(Exchange!UnexpectedResp),
                    Exchange!Without(Exchange!TransferFails)}
BY DEF Ends, Exchange!Exchanges, InStep

\* The result for what came back: success only for an answer of an accepted length.
ResultFor(got, lens) == Exchange!StatusOf(got, lens)

LEMMA SameResult ==
  /\ \A got, lens : KeyStore!StatusOf(got, lens) = ResultFor(got, lens)
  /\ \A got, lens : CertStore!StatusOf(got, lens) = ResultFor(got, lens)
  /\ \A got, lens : InfoFile!StatusOf(got, lens) = ResultFor(got, lens)
  /\ \A got, lens : Ciphers!StatusOf(got, lens) = ResultFor(got, lens)
  /\ \A got, lens : Hash!StatusOf(got, lens) = ResultFor(got, lens)
<1>1. \A got, lens : KeyStore!StatusOf(got, lens) = ResultFor(got, lens)
  BY DEF ResultFor, KeyStore!StatusOf, KeyStore!TransferFails, KeyStore!UnexpectedResp,
         KeyStore!Success,
         KeyStore!UnexpectedLen, Exchange!StatusOf, Exchange!TransferFails,
         Exchange!UnexpectedResp, Exchange!Success, Exchange!UnexpectedLen
<1>2. \A got, lens : CertStore!StatusOf(got, lens) = ResultFor(got, lens)
  BY DEF ResultFor, CertStore!StatusOf, CertStore!TransferFails, CertStore!UnexpectedResp,
         CertStore!Success, CertStore!UnexpectedLen, Exchange!StatusOf, Exchange!TransferFails,
         Exchange!UnexpectedResp, Exchange!Success, Exchange!UnexpectedLen
<1>3. \A got, lens : InfoFile!StatusOf(got, lens) = ResultFor(got, lens)
  BY DEF ResultFor, InfoFile!StatusOf, InfoFile!TransferFails, InfoFile!UnexpectedResp,
         InfoFile!Success,
         InfoFile!UnexpectedLen, Exchange!StatusOf, Exchange!TransferFails,
         Exchange!UnexpectedResp, Exchange!Success, Exchange!UnexpectedLen
<1>4. \A got, lens : Ciphers!StatusOf(got, lens) = ResultFor(got, lens)
  BY DEF ResultFor, Ciphers!StatusOf, Ciphers!TransferFails, Ciphers!UnexpectedResp,
         Ciphers!Success,
         Ciphers!UnexpectedLen, Exchange!StatusOf, Exchange!TransferFails,
         Exchange!UnexpectedResp, Exchange!Success, Exchange!UnexpectedLen
<1>5. \A got, lens : Hash!StatusOf(got, lens) = ResultFor(got, lens)
  BY DEF ResultFor, Hash!StatusOf, Hash!TransferFails, Hash!UnexpectedResp, Hash!Success,
         Hash!UnexpectedLen, Exchange!StatusOf, Exchange!TransferFails,
         Exchange!UnexpectedResp, Exchange!Success, Exchange!UnexpectedLen
<1> QED
  BY <1>1, <1>2, <1>3, <1>4, <1>5

LEMMA SuccessMeans ==
  ASSUME NEW got, NEW lens, ResultFor(got, lens) = "KSE_SUCCESS"
  PROVE  /\ got.status = "KSE_SUCCESS" /\ got.usLen \in lens
         /\ got # Exchange!Without(Exchange!TransferFails)
         /\ got # Exchange!Without(Exchange!UnexpectedResp)
BY DEF ResultFor, Exchange!StatusOf, Exchange!Without, Exchange!TransferFails,
       Exchange!UnexpectedResp, Exchange!UnexpectedLen, Exchange!Success

\* An exchange that succeeds: in step, it brings the command's own answer; out
\* of step, it is that of a command of one block.
LEMMA SuccessInStep ==
  ASSUME NEW n, NEW own, NEW ok, NEW x \in Ends(n, own, ok), NEW lens,
         ResultFor(x.got, lens) = "KSE_SUCCESS"
  PROVE  /\ InStep => x.got = own /\ x.late = Exchange!NoReport
         /\ Exchange!IsLong(n) => InStep
BY EndsInStep, LongOutOfStep, SuccessMeans

LEMMA OtherAnswer ==
  ASSUME NEW n, NEW own, NEW ok, NEW x \in Ends(n, own, ok), NEW lens,
         ResultFor(x.got, lens) = "KSE_SUCCESS", x.got # own
  PROVE  ~InStep /\ ~Exchange!IsLong(n)
<1>1. InStep => x.got = own
  BY SuccessInStep
<1>2. Exchange!IsLong(n) => InStep
  BY SuccessInStep
<1> QED
  BY <1>1, <1>2

LateInv == (failed = FALSE => InStep) /\ failed \in BOOLEAN

\* What every exchange does to the device's late report.
LateStep(x) == late' = x.late /\ failed' = (failed \/ x.failed)

LEMMA EndsBoolean ==
  ASSUME NEW n, NEW own, NEW ok, NEW x \in Ends(n, own, ok)
  PROVE  x.failed = TRUE \/ x.failed = FALSE
<1>1. CASE InStep
  BY <1>1, EndsInStep
<1>2. CASE ~InStep /\ Exchange!IsLong(n)
  BY <1>2 DEF Ends, Exchange!Exchanges, InStep
<1>3. CASE ~InStep /\ ~Exchange!IsLong(n)
  BY <1>3 DEF Ends, Exchange!Exchanges, InStep
<1> QED
  BY <1>1, <1>2, <1>3

LEMMA LateKept ==
  ASSUME LateInv, NEW n, NEW own, NEW ok, NEW x \in Ends(n, own, ok), LateStep(x)
  PROVE  LateInv'
<1>1. CASE failed = TRUE
  BY <1>1, EndsBoolean DEF LateInv, LateStep
<1>2. CASE failed = FALSE /\ x.failed = TRUE
  BY <1>2 DEF LateInv, LateStep
<1>3. CASE failed = FALSE /\ x.failed = FALSE
  <2>1. x.late = Exchange!NoReport
    BY <1>3, EndsInStep DEF LateInv
  <2> QED
    BY <1>3, <2>1 DEF LateInv, LateStep, InStep, Exchange!NoReport, Exchange!NoData
<1> QED
  BY <1>1, <1>2, <1>3, EndsBoolean DEF LateInv

-----------------------------------------------------------------------------
(* Hashes and signatures.                                                  *)

Upto(n) == Hash!Message(hashCall, 1, n)
HmacAlgs == {"HMAC_GEN", "HMAC_VERI"}
\* The key the device is given with the first part of an algorithm.
FirstKey == IF hashJob.alg \in HmacAlgs THEN Hash!KeyOf(hashJob) ELSE Hash!NoKey

HashTyped ==
  /\ hashPc \in {"idle", "one", "begin", "mid", "end"} /\ hashCall \in Nat
  /\ hashJob.alg \in Hash!Algs /\ hashJob.size \in Nat /\ pos \in Nat
HashUnderway ==
  /\ hashPc # "idle" => ~hashBehind
  /\ hashPc = "one" => pos = 0 /\ hashJob.size <= HASH_IO
  /\ hashPc = "begin" => pos = 0 /\ hashJob.size > HASH_IO
  /\ hashPc \in {"mid", "end"} =>
       /\ InStep /\ dev = Hash!Result(hashJob.alg, FirstKey, Upto(pos))
       /\ pos < hashJob.size
  /\ hashPc = "mid" => hashJob.size - pos > HASH_IO
  /\ hashPc = "end" => hashJob.size - pos <= HASH_IO
HashOwn == hashBehind => failed /\ hashJob.size <= HASH_IO
HashInv == HashTyped /\ HashUnderway /\ HashOwn /\ Hash!ResultOfMessage
\* In a run of another group nothing is hashed.
NoHash == hashPc = "idle" /\ hashCall = 0 /\ ~hashBehind
HashPart == IF part = "hash" THEN HashInv ELSE NoHash

LEMMA HashSizes == HASH_IO \in Nat /\ HASH_IO > 2
BY MCKseAssumption

LEMMA SeqOf ==
  ASSUME NEW S, NEW n \in Nat, NEW f \in [1 .. n -> S]
  PROVE  f \in Seq(S) /\ Len(f) = n
OBVIOUS

LEMMA SameSeq ==
  ASSUME NEW S, NEW n, NEW s \in Seq(S), NEW t \in Seq(S), Len(s) = n, Len(t) = n,
         \A i \in 1 .. n : s[i] = t[i]
  PROVE  s = t
OBVIOUS

\* Parts of a message follow each other.
LEMMA Parts ==
  ASSUME NEW c, NEW m \in Nat, NEW n \in Nat, m <= n
  PROVE  Hash!Message(c, 1, m) \o Hash!Message(c, m + 1, n) = Hash!Message(c, 1, n)
<1> DEFINE S == {<<c, i>> : i \in Nat}
           a == Hash!Message(c, 1, m)
           b == Hash!Message(c, m + 1, n)
           w == Hash!Message(c, 1, n)
<1>1. a \in [1 .. m -> S] /\ b \in [1 .. n - m -> S] /\ w \in [1 .. n -> S]
  BY DEF Hash!Message
<1> HIDE DEF S
<1>2. a \in Seq(S) /\ Len(a) = m
  BY <1>1, SeqOf
<1>3. b \in Seq(S) /\ Len(b) = n - m
  BY <1>1, SeqOf
<1>4. w \in Seq(S) /\ Len(w) = n
  BY <1>1, SeqOf
<1>5. /\ \A i \in 1 .. m : a[i] = <<c, i>>
      /\ \A i \in 1 .. n - m : b[i] = <<c, m + i>>
      /\ \A i \in 1 .. n : w[i] = <<c, i>>
  BY DEF Hash!Message
<1> HIDE DEF a, b, w
<1>6. a \o b \in Seq(S) /\ Len(a \o b) = n
  BY <1>2, <1>3
<1>7. \A i \in 1 .. n : (a \o b)[i] = <<c, i>>
  <2> SUFFICES ASSUME NEW i \in 1 .. n PROVE (a \o b)[i] = <<c, i>>
    OBVIOUS
  <2>1. CASE i <= m
    <3>1. (a \o b)[i] = a[i]
      BY <1>2, <1>3, <2>1
    <3>2. i \in 1 .. m
      BY <2>1
    <3> QED
      BY <1>5, <3>1, <3>2
  <2>2. CASE i > m
    <3>1. (a \o b)[i] = b[i - m] /\ i - m \in 1 .. n - m
      BY <1>2, <1>3, <2>2
    <3>2. b[i - m] = <<c, m + (i - m)>>
      BY <1>5, <3>1
    <3>3. m + (i - m) = i
      OBVIOUS
    <3>4. b[i - m] = <<c, i>>
      BY <3>2, <3>3
    <3> QED
      BY <3>1, <3>4
  <2>3. i <= m \/ i > m
    OBVIOUS
  <2> QED
    BY <2>1, <2>2, <2>3
<1>8. \A i \in 1 .. n : (a \o b)[i] = w[i]
  BY <1>5, <1>7
<1>9. a \o b = w
  BY <1>4, <1>6, <1>8, SameSeq
<1> QED
  BY <1>9 DEF a, b, w

\* What a step of a call does: it fails, it takes an answer that is not its
\* own, or the device carries it out and answers.
Bytes(blocks, others) == Hash!BlockSize * blocks + others
StepFails ==
  hashPc' = "idle" /\ (hashBehind' => hashBehind) /\ ret' # "KSE_SUCCESS" /\ pos' = pos
StepTakes(size, blocks, go) ==
  /\ ~InStep /\ ~Exchange!IsLong(size) /\ hashBehind' = TRUE
  /\ hashPc' = go /\ pos' = pos + blocks /\ failed' = TRUE
StepDone(size, blocks, own, new, lens, go) ==
  /\ ResultFor(own, lens) = "KSE_SUCCESS" /\ (Exchange!IsLong(size) => InStep)
  /\ InStep => late' = Exchange!NoReport
  /\ (hashBehind' => hashBehind) /\ dev' = new /\ pos' = pos + blocks /\ hashPc' = go
  /\ go = "idle" => ret' = "KSE_SUCCESS"
  /\ go = "idle" /\ hashJob.alg \notin Hash!Verifies => digest' = own.data

LEMMA HashStep ==
  ASSUME LateInv, NEW blocks, NEW others, NEW own, NEW new, NEW lens, NEW go,
         Hash!Step(blocks, others, own, new, lens, go)
  PROVE  /\ UNCHANGED <<hashCall, hashJob>>
         /\ failed => failed'
         /\ \/ StepFails \/ StepTakes(Bytes(blocks, others), blocks, go)
            \/ StepDone(Bytes(blocks, others), blocks, own, new, lens, go)
<1> DEFINE size == Bytes(blocks, others)
<1> DEFINE Effect(ok, x) ==
        LET result == ResultFor(x.got, lens) IN
        /\ late' = x.late /\ failed' = (failed \/ x.failed)
        /\ ok \/ x.got # own
        /\ dev' = IF ok THEN new ELSE dev
        /\ hashBehind' = (hashBehind \/ (result = "KSE_SUCCESS" /\ x.got # own))
        /\ IF result # "KSE_SUCCESS" \/ go = "idle"
           THEN hashPc' = "idle" /\ ret' = result ELSE hashPc' = go /\ UNCHANGED ret
        /\ pos' = IF result = "KSE_SUCCESS" THEN pos + blocks ELSE pos
        /\ digest' = IF result = "KSE_SUCCESS" /\ go = "idle" /\ hashJob.alg \notin Hash!Verifies
                     THEN x.got.data ELSE digest
        /\ UNCHANGED <<hashCall, hashJob>>
<1>1. PICK ok \in BOOLEAN : \E x \in Ends(size, own, ok) : Effect(ok, x)
  BY Same, SameResult DEF Hash!Step, Hash!ExchangeWith, Hash!Success, Hash!jobVars, Bytes
<1>2. PICK x \in Ends(size, own, ok) : Effect(ok, x)
  BY <1>1
<1> DEFINE result == ResultFor(x.got, lens)
<1>3. failed => failed'
  BY <1>2 DEF LateInv
<1>4. CASE result # "KSE_SUCCESS"
  BY <1>2, <1>3, <1>4 DEF StepFails
<1>5. CASE result = "KSE_SUCCESS" /\ x.got = own
  <2>1. InStep => x.late = Exchange!NoReport
    BY <1>5, SuccessInStep
  <2>2. Exchange!IsLong(size) => InStep
    BY <1>5, SuccessInStep
  <2>3. ok = TRUE
    BY <1>2, <1>5
  <2>4. hashBehind' => hashBehind
    BY <1>2, <1>5
  <2>5. StepDone(size, blocks, own, new, lens, go)
    BY <1>2, <1>5, <2>1, <2>2, <2>3, <2>4 DEF StepDone
  <2> QED
    BY <1>2, <1>3, <2>5
<1>6. CASE result = "KSE_SUCCESS" /\ x.got # own
  <2>1. ~InStep /\ ~Exchange!IsLong(size)
    BY <1>6, OtherAnswer
  <2>2. failed = TRUE
    BY <2>1 DEF LateInv
  <2> QED
    BY <1>2, <1>6, <2>1, <2>2 DEF StepTakes
<1> QED
  BY <1>2, <1>4, <1>5, <1>6, <1>3

LEMMA AfterFail ==
  ASSUME HashInv, UNCHANGED <<hashCall, hashJob>>, failed => failed', StepFails
  PROVE  HashInv'
BY DEF HashInv, HashTyped, HashUnderway, HashOwn, StepFails, Hash!ResultOfMessage, Hash!Success

\* A full part is too long for a late answer.
LEMMA PartIsLong ==
  ASSUME NEW n \in Nat
  PROVE  Exchange!IsLong(Bytes(HASH_IO, n))
BY HashSizes DEF Exchange!IsLong, Exchange!Block, Bytes, Hash!BlockSize

LEMMA KeyBytesNat == \A algs : Hash!KeyBytes(algs) \in Nat
BY DEF Hash!KeyBytes

LEMMA RefusalFails == \A lens : ResultFor(Hash!Refusal, lens) # "KSE_SUCCESS"
<1> SUFFICES ASSUME NEW lens, ResultFor(Hash!Refusal, lens) = "KSE_SUCCESS" PROVE FALSE
  OBVIOUS
<1>1. Hash!Refusal.status = "KSE_SUCCESS"
  BY SuccessMeans
<1> QED
  BY <1>1 DEF Hash!Refusal, Hash!Refused

LEMMA CallStep ==
  ASSUME HashInv, Hash!Call
  PROVE  HashInv'
<1>1. PICK alg \in Hash!Algs, key \in HashKeys, size \in 0 .. HashSize, valid \in BOOLEAN :
        /\ hashJob' = [alg |-> alg, key |-> key, size |-> size, valid |-> valid]
        /\ LET guard == Hash!Guarded(alg = "SHA" \/ key < Hash!MAX_KCMVP_KEY_COUNT) IN
             IF guard = "KSE_SUCCESS"
             THEN hashPc' = (IF size <= HASH_IO THEN "one" ELSE "begin") /\ UNCHANGED ret
             ELSE ret' = guard /\ UNCHANGED hashPc
  BY DEF Hash!Call, Hash!Success
<1>2. hashJob'.alg = alg /\ hashJob'.size = size /\ size \in Nat
  BY <1>1, MCKseAssumption
<1>3. /\ hashPc = "idle" /\ hashCall' \in Nat /\ pos' = 0 /\ hashBehind' = FALSE
  BY DEF Hash!Call, HashInv, HashTyped
<1>4. \/ hashPc' = "one" /\ size <= HASH_IO
      \/ hashPc' = "begin" /\ size > HASH_IO
      \/ hashPc' = "idle" /\ ret' # "KSE_SUCCESS"
  BY <1>1, <1>2, <1>3, HashSizes
<1>5. HashTyped'
  BY <1>2, <1>3, <1>4 DEF HashTyped
<1>6. HashUnderway'
  BY <1>2, <1>3, <1>4 DEF HashUnderway
<1>7. HashOwn' /\ Hash!ResultOfMessage'
  BY <1>3, <1>4 DEF HashOwn, Hash!ResultOfMessage, Hash!Success
<1> QED
  BY <1>5, <1>6, <1>7 DEF HashInv

LEMMA BeginStep ==
  ASSUME LateInv, HashInv, Hash!Begin
  PROVE  HashInv'
<1> DEFINE others == 4 + Hash!KeyBytes(HmacAlgs)
           go == IF hashJob.size - (pos + HASH_IO) > HASH_IO THEN "mid" ELSE "end"
           begun == Hash!Result(hashJob.alg, FirstKey, Upto(HASH_IO))
<1>1. /\ hashPc = "begin"
      /\ \/ Hash!Step(HASH_IO, others, Hash!Done, begun, {2}, go)
         \/ Hash!Step(HASH_IO, others, Hash!Refusal, Hash!None, {2}, go)
  BY DEF Hash!Begin, Hash!AfterPart, FirstKey, HmacAlgs, Upto
<1>2. others \in Nat
  BY KeyBytesNat
<1>3. /\ UNCHANGED <<hashCall, hashJob>> /\ (failed => failed')
      /\ \/ StepFails \/ StepTakes(Bytes(HASH_IO, others), HASH_IO, go)
         \/ StepDone(Bytes(HASH_IO, others), HASH_IO, Hash!Done, begun, {2}, go)
         \/ StepDone(Bytes(HASH_IO, others), HASH_IO, Hash!Refusal, Hash!None, {2}, go)
  <2> HIDE DEF others, go, begun
  <2> QED
    BY <1>1, HashStep
<1>4. Exchange!IsLong(Bytes(HASH_IO, others))
  BY <1>2, PartIsLong
<1> HIDE DEF others, begun
<1>5. CASE StepFails
  BY <1>3, <1>5, AfterFail
<1>6. CASE StepDone(Bytes(HASH_IO, others), HASH_IO, Hash!Done, begun, {2}, go)
  <2>1. /\ InStep /\ late' = Exchange!NoReport /\ ~hashBehind' /\ dev' = begun
        /\ pos' = HASH_IO /\ hashPc' = go /\ hashPc' \in {"mid", "end"}
        /\ hashCall' = hashCall /\ hashJob' = hashJob /\ hashJob.size > HASH_IO
    BY <1>1, <1>3, <1>4, <1>6, HashSizes DEF StepDone, HashInv, HashUnderway
  <2>2. InStep' /\ dev' = Hash!Result(hashJob.alg, FirstKey, Upto(HASH_IO))'
    BY <2>1 DEF InStep, begun, FirstKey, Hash!KeyOf, Upto
  <2>3. hashJob.size \in Nat /\ pos = 0
    BY <1>1 DEF HashInv, HashTyped, HashUnderway
  <2>4. HashTyped'
    BY <2>1, HashSizes DEF HashInv, HashTyped
  <2>5. HashUnderway'
    <3>1. dev' = Hash!Result(hashJob.alg, FirstKey, Upto(pos))'
      BY <2>1, <2>2 DEF Upto
    <3> QED
      BY <2>1, <2>2, <2>3, <3>1, HashSizes DEF HashUnderway
  <2> QED
    BY <2>1, <2>4, <2>5 DEF HashInv, HashOwn, Hash!ResultOfMessage
<1>7. ~StepTakes(Bytes(HASH_IO, others), HASH_IO, go)
  BY <1>4 DEF StepTakes
<1>8. ~StepDone(Bytes(HASH_IO, others), HASH_IO, Hash!Refusal, Hash!None, {2}, go)
  BY RefusalFails DEF StepDone
<1> QED
  BY <1>3, <1>5, <1>6, <1>7, <1>8

LEMMA MidStep ==
  ASSUME LateInv, HashInv, Hash!Mid
  PROVE  HashInv'
<1> DEFINE go == IF hashJob.size - (pos + HASH_IO) > HASH_IO THEN "mid" ELSE "end"
           own == IF Hash!Feeds(hashJob.alg) THEN Hash!Done ELSE Hash!Refusal
           new == [dev EXCEPT !.message = @ \o Hash!Message(hashCall, pos + 1, pos + HASH_IO)]
<1>1. hashPc = "mid" /\ Hash!Step(HASH_IO, 4, own, new, {2}, go)
  BY DEF Hash!Mid, Hash!AfterPart
<1>2. /\ InStep /\ dev = Hash!Result(hashJob.alg, FirstKey, Upto(pos))
      /\ pos \in Nat /\ hashJob.size \in Nat /\ hashJob.size - pos > HASH_IO /\ ~hashBehind
  BY <1>1 DEF HashInv, HashTyped, HashUnderway
<1>3. new = Hash!Result(hashJob.alg, FirstKey, Upto(pos + HASH_IO))
  <2>1. dev.message = Upto(pos)
    BY <1>2 DEF Hash!Result
  <2> DEFINE longer == Upto(pos) \o Hash!Message(hashCall, pos + 1, pos + HASH_IO)
  <2>5. new = [dev EXCEPT !.message = longer]
    BY <2>1
  <2> HIDE DEF longer
  <2>2. new = [alg |-> hashJob.alg, key |-> FirstKey, message |-> longer]
    BY <1>2, <2>5 DEF Hash!Result
  <2>3. pos + HASH_IO \in Nat /\ pos <= pos + HASH_IO
    BY <1>2, HashSizes
  <2>4. longer = Upto(pos + HASH_IO)
    BY <1>2, <2>3, Parts DEF Upto, longer
  <2> QED
    BY <2>2, <2>4 DEF Hash!Result
<1> HIDE DEF own, new
<1>4. /\ UNCHANGED <<hashCall, hashJob>> /\ (failed => failed')
      /\ \/ StepFails \/ StepTakes(Bytes(HASH_IO, 4), HASH_IO, go)
         \/ StepDone(Bytes(HASH_IO, 4), HASH_IO, own, new, {2}, go)
  <2> HIDE DEF go
  <2> QED
    BY <1>1, HashStep
<1>5. CASE StepFails
  BY <1>4, <1>5, AfterFail
<1>6. CASE StepDone(Bytes(HASH_IO, 4), HASH_IO, own, new, {2}, go)
  <2>1. /\ late' = Exchange!NoReport /\ ~hashBehind' /\ dev' = new
        /\ pos' = pos + HASH_IO /\ hashPc' = go /\ hashPc' \in {"mid", "end"}
        /\ hashCall' = hashCall /\ hashJob' = hashJob
    BY <1>2, <1>4, <1>6 DEF StepDone
  <2>2. InStep' /\ dev' = Hash!Result(hashJob.alg, FirstKey, Upto(pos))'
    BY <1>3, <2>1 DEF InStep, FirstKey, Hash!KeyOf, Upto
  <2>3. HashTyped'
    BY <1>2, <2>1, HashSizes DEF HashInv, HashTyped
  <2>4. HashUnderway'
    BY <1>2, <2>1, <2>2, HashSizes DEF HashUnderway
  <2> QED
    BY <2>1, <2>3, <2>4 DEF HashInv, HashOwn, Hash!ResultOfMessage
<1>7. ~StepTakes(Bytes(HASH_IO, 4), HASH_IO, go)
  BY <1>2 DEF StepTakes
<1> QED
  BY <1>4, <1>5, <1>6, <1>7

\* What the answer to the last step says.
Says(key, message) == Hash!ResultAnswer(hashJob.alg, key, message)
LEMMA LastAnswer ==
  ASSUME NEW key, NEW message, NEW lens,
         ResultFor(Says(key, message), lens) = "KSE_SUCCESS"
  PROVE  IF hashJob.alg \in Hash!Verifies THEN hashJob.valid
         ELSE Says(key, message).data = Hash!Result(hashJob.alg, key, message)
<1>1. CASE hashJob.alg \in Hash!Verifies
  <2>1. ~hashJob.valid => Says(key, message) = Hash!Refusal
    BY <1>1 DEF Says, Hash!ResultAnswer
  <2> QED
    BY <1>1, <2>1, RefusalFails
<1>2. CASE hashJob.alg \notin Hash!Verifies
  BY <1>2 DEF Says, Hash!ResultAnswer, Hash!Answer
<1> QED
  BY <1>1, <1>2

\* The last step, after which the call is over.
LEMMA AfterLast ==
  ASSUME HashInv, UNCHANGED <<hashCall, hashJob>>, ~hashBehind, NEW size, NEW lens, NEW new,
         NEW blocks, blocks = hashJob.size - pos, pos <= hashJob.size,
         StepDone(size, blocks, Says(Hash!KeyOf(hashJob), Upto(hashJob.size)), new, lens, "idle")
  PROVE  HashInv'
<1> DEFINE own == Says(Hash!KeyOf(hashJob), Upto(hashJob.size))
<1>1. /\ hashPc' = "idle" /\ ~hashBehind' /\ pos' = hashJob.size /\ ret' = "KSE_SUCCESS"
      /\ hashCall' = hashCall /\ hashJob' = hashJob
  BY DEF StepDone, HashInv, HashTyped
<1>2. hashJob.alg \notin Hash!Verifies => digest' = own.data
  BY DEF StepDone
<1>3. IF hashJob.alg \in Hash!Verifies THEN hashJob.valid
      ELSE own.data = Hash!Result(hashJob.alg, Hash!KeyOf(hashJob), Upto(hashJob.size))
  BY LastAnswer DEF StepDone
<1>4. Hash!ResultOfMessage'
  BY <1>1, <1>2, <1>3 DEF Hash!ResultOfMessage, Upto, Hash!KeyOf
<1> QED
  BY <1>1, <1>4 DEF HashInv, HashTyped, HashUnderway, HashOwn

LEMMA OneStepStep ==
  ASSUME LateInv, HashInv, Hash!OneStep
  PROVE  HashInv'
<1> DEFINE others == 4 + Hash!KeyBytes(Hash!Algs \ {"SHA"}) + Hash!ValueBytes
           own == Says(Hash!KeyOf(hashJob), Upto(hashJob.size))
           size == Bytes(hashJob.size, others)
<1>1. hashPc = "one" /\ pos = 0 /\ hashJob.size <= HASH_IO /\ ~hashBehind /\ hashJob.size \in Nat
  BY DEF Hash!OneStep, HashInv, HashTyped, HashUnderway
<1>2. PICK a \in {own, Hash!Refusal} :
        Hash!Step(hashJob.size, others, a, Hash!None, Hash!ResultLens, "idle")
  BY DEF Hash!OneStep, Says, Upto
<1> HIDE DEF others, own
<1>3. /\ UNCHANGED <<hashCall, hashJob>> /\ (failed => failed')
      /\ \/ StepFails \/ StepTakes(size, hashJob.size, "idle")
         \/ StepDone(size, hashJob.size, a, Hash!None, Hash!ResultLens, "idle")
  BY <1>2, HashStep
<1> HIDE DEF size
<1>4. CASE StepFails
  BY <1>3, <1>4, AfterFail
<1>5. CASE StepTakes(size, hashJob.size, "idle")
  <2>1. /\ hashPc' = "idle" /\ hashBehind' = TRUE /\ failed' = TRUE /\ pos' = hashJob.size
        /\ hashCall' = hashCall /\ hashJob' = hashJob
    BY <1>1, <1>3, <1>5 DEF StepTakes
  <2> QED
    BY <1>1, <2>1 DEF HashInv, HashTyped, HashUnderway, HashOwn, Hash!ResultOfMessage
<1>6. CASE StepDone(size, hashJob.size, a, Hash!None, Hash!ResultLens, "idle")
  <2>1. a = own
    BY <1>6, RefusalFails DEF StepDone
  <2>2. hashJob.size = hashJob.size - pos /\ pos <= hashJob.size
    BY <1>1
  <2> QED
    BY <1>1, <1>3, <1>6, <2>1, <2>2, AfterLast DEF own
<1> QED
  BY <1>3, <1>4, <1>5, <1>6

LEMMA EndStep ==
  ASSUME LateInv, HashInv, Hash!End
  PROVE  HashInv'
<1> DEFINE others == 4 + Hash!KeyBytes(Hash!Ecdsa) + Hash!ValueBytes
           rest == hashJob.size - pos
           told1 == Says(Hash!KeyAtEnd,
                         dev.message \o Hash!Message(hashCall, pos + 1, hashJob.size))
           own == IF Hash!Feeds(hashJob.alg) THEN told1 ELSE Hash!Refusal
           size == Bytes(rest, others)
<1>1. /\ hashPc = "end" /\ InStep /\ dev = Hash!Result(hashJob.alg, FirstKey, Upto(pos))
      /\ pos \in Nat /\ hashJob.size \in Nat /\ pos < hashJob.size /\ ~hashBehind
      /\ hashJob.alg \in Hash!Algs
  BY DEF Hash!End, HashInv, HashTyped, HashUnderway
<1>2. Hash!Step(rest, others, own, Hash!None, Hash!ResultLens, "idle")
  BY DEF Hash!End, Says
<1>3. told1 = Says(Hash!KeyOf(hashJob), Upto(hashJob.size))
  <2>1. dev.message = Upto(pos) /\ dev.key = FirstKey
    BY <1>1 DEF Hash!Result
  <2>4. pos \in Nat /\ hashJob.size \in Nat /\ pos <= hashJob.size
    BY <1>1
  <2>2. Upto(pos) \o Hash!Message(hashCall, pos + 1, hashJob.size) = Upto(hashJob.size)
    BY <2>4, Parts DEF Upto
  <2>3. Hash!KeyAtEnd = Hash!KeyOf(hashJob)
    BY <1>1, <2>1 DEF Hash!KeyAtEnd, FirstKey, HmacAlgs, Hash!Ecdsa, Hash!Algs, Hash!KeyOf
  <2> QED
    BY <2>1, <2>2, <2>3
<1> HIDE DEF others, told1
<1>4. /\ UNCHANGED <<hashCall, hashJob>> /\ (failed => failed')
      /\ \/ StepFails \/ StepTakes(size, rest, "idle")
         \/ StepDone(size, rest, own, Hash!None, Hash!ResultLens, "idle")
  <2> HIDE DEF own, rest
  <2> QED
    BY <1>2, HashStep
<1> HIDE DEF size
<1>5. CASE StepFails
  BY <1>4, <1>5, AfterFail
<1>6. CASE StepDone(size, rest, own, Hash!None, Hash!ResultLens, "idle")
  <2>1. own = told1
    BY <1>6, RefusalFails DEF StepDone
  <2>2. pos <= hashJob.size
    BY <1>1
  <2> QED
    BY <1>1, <1>3, <1>4, <1>6, <2>1, <2>2, AfterLast
<1>7. ~StepTakes(size, rest, "idle")
  BY <1>1 DEF StepTakes
<1> QED
  BY <1>4, <1>5, <1>6, <1>7

-----------------------------------------------------------------------------
(* The late report, in all groups.                                         *)

\* What a step of any group does to it.
Exchanged == \E n, own, ok : \E x \in Ends(n, own, ok) : LateStep(x)
LateUsed == Exchanged \/ UNCHANGED <<late, failed>>

LEMMA UsedKept ==
  ASSUME LateInv, LateUsed
  PROVE  LateInv'
<1>1. CASE Exchanged
  BY <1>1, LateKept DEF Exchanged
<1>2. CASE UNCHANGED <<late, failed>>
  BY <1>2 DEF LateInv, InStep, Exchange!NoReport, Exchange!NoData
<1> QED
  BY <1>1, <1>2 DEF LateUsed

LEMMA StepUses ==
  ASSUME NEW blocks, NEW others, NEW own, NEW new, NEW lens, NEW go,
         Hash!Step(blocks, others, own, new, lens, go)
  PROVE  LateUsed
<1>1. PICK ok \in BOOLEAN : \E x \in Hash!Exchanges(Bytes(blocks, others), own, ok) : LateStep(x)
  BY DEF Hash!Step, Hash!ExchangeWith, LateStep, Bytes
<1> QED
  BY <1>1, Same DEF Exchanged, LateUsed

LEMMA HashUses ==
  ASSUME Hash!Next
  PROVE  LateUsed
<1>1. CASE Hash!Call
  BY <1>1 DEF Hash!Call, Hash!exchangeVars, LateUsed
<1>2. CASE Hash!OneStep
  BY <1>2, StepUses DEF Hash!OneStep
<1>3. CASE Hash!Begin
  BY <1>3, StepUses DEF Hash!Begin
<1>4. CASE Hash!Mid
  BY <1>4, StepUses DEF Hash!Mid
<1>5. CASE Hash!End
  BY <1>5, StepUses DEF Hash!End
<1> QED
  BY <1>1, <1>2, <1>3, <1>4, <1>5 DEF Hash!Next

LEMMA CipherUses ==
  ASSUME Ciphers!Next
  PROVE  LateUsed
<1>1. CASE Ciphers!Call
  BY <1>1 DEF Ciphers!Call, Ciphers!exchangeVars, LateUsed
<1>2. CASE Ciphers!Chunk
  <2>1. PICK a : \E x \in Ciphers!Exchanges(Ciphers!CommandSize, a, FALSE) : LateStep(x)
    BY <1>2 DEF Ciphers!Chunk, Ciphers!ExchangeWith, LateStep
  <2> QED
    BY <2>1, Same DEF Exchanged, LateUsed
<1> QED
  BY <1>1, <1>2 DEF Ciphers!Next

-----------------------------------------------------------------------------
(* Ciphers.                                                                *)

\* A call goes on with a whole number of full chunks behind it, and none of
\* them was a late answer.
CipherTyped ==
  /\ pc \in {"idle", "run"} /\ done \in Nat /\ job.size \in Nat
CipherUnderway ==
  pc = "run" => /\ ~behind /\ done % Ciphers!ChunkLimit = 0
                /\ done < job.size \/ (done = 0 /\ job.size = 0)
CipherInv == CipherTyped /\ CipherUnderway /\ Ciphers!MixedOnlyAtEnd
CipherPart == IF part = "ciphers" THEN CipherInv ELSE ~behind

LEMMA LimitSize == Ciphers!ChunkLimit \in Nat /\ Ciphers!ChunkLimit > 1
BY MCKseAssumption DEF Ciphers!ChunkLimit

LEMMA Multiple ==
  ASSUME NEW q \in Nat, NEW d \in Nat, d > 0
  PROVE  (d * q) % d = 0
OBVIOUS

LEMMA NextMultiple ==
  ASSUME NEW m \in Nat, NEW d \in Nat, d > 0, m % d = 0
  PROVE  (m + d) % d = 0
<1> DEFINE q == m \div d
<1>1. m = d * q /\ q \in Nat
  OBVIOUS
<1> HIDE DEF q
<1>2. m + d = d * (q + 1) /\ q + 1 \in Nat
  BY <1>1
<1>3. (d * (q + 1)) % d = 0
  BY <1>2, Multiple
<1> QED
  BY <1>2, <1>3

LEMMA MinOfTwo ==
  ASSUME NEW a \in Int, NEW b \in Int
  PROVE  Ciphers!Min({a, b}) = IF a <= b THEN a ELSE b
BY DEF Ciphers!Min

LEMMA CipherCall ==
  ASSUME CipherInv, Ciphers!Call
  PROVE  CipherInv'
<1>1. PICK j \in Ciphers!Jobs : job' = j
  BY DEF Ciphers!Call
<1>2. /\ job'.size \in Nat /\ done' = 0 /\ behind' = FALSE /\ pc = "idle"
      /\ pc' \in {"idle", "run"}
  BY <1>1, MCKseAssumption DEF Ciphers!Call, Ciphers!Jobs
<1>3. CipherTyped'
  BY <1>2 DEF CipherTyped
<1>4. 0 % Ciphers!ChunkLimit' = 0
  <2> DEFINE limit == Ciphers!ChunkLimit'
  <2>1. limit \in Nat /\ limit > 0
    BY MCKseAssumption DEF Ciphers!ChunkLimit
  <2> HIDE DEF limit
  <2>2. (limit * 0) % limit = 0 /\ limit * 0 = 0
    BY <2>1, Multiple
  <2>3. 0 % limit = 0
    BY <2>2
  <2> QED
    BY <2>3 DEF limit
<1>5. CipherUnderway'
  BY <1>2, <1>4 DEF CipherUnderway
<1> QED
  BY <1>2, <1>3, <1>5 DEF CipherInv, Ciphers!MixedOnlyAtEnd

\* A chunk: the call fails, or goes on after n blocks, or is over.
LEMMA CipherChunk ==
  ASSUME LateInv, CipherInv, Ciphers!Chunk
  PROVE  CipherInv'
<1> DEFINE n == Ciphers!ChunkSize
           L == Ciphers!ChunkLimit
           Effect(a, x) ==
             LET result == ResultFor(x.got, {Ciphers!BlockSize * n + 2}) IN
             /\ failed' = (failed \/ x.failed)
             /\ behind' = (behind \/ (result = "KSE_SUCCESS" /\ x.got # a))
             /\ IF result # "KSE_SUCCESS" THEN pc' = "idle" /\ UNCHANGED done
                ELSE /\ done' = done + n
                     /\ IF done' = job.size THEN pc' = "idle" ELSE UNCHANGED pc
<1>1. /\ pc = "run" /\ UNCHANGED job
      /\ \E a : \E x \in Ends(Ciphers!CommandSize, a, FALSE) : Effect(a, x)
  BY Same, SameResult DEF Ciphers!Chunk, Ciphers!ExchangeWith, Ciphers!Fail, Ciphers!Success,
                          Ciphers!jobVars
<1>2. PICK a : \E x \in Ends(Ciphers!CommandSize, a, FALSE) : Effect(a, x)
  BY <1>1
<1>3. PICK x \in Ends(Ciphers!CommandSize, a, FALSE) : Effect(a, x)
  BY <1>2
<1> DEFINE result == ResultFor(x.got, {Ciphers!BlockSize * n + 2})
<1>4. /\ behind = FALSE /\ done % L = 0 /\ done \in Nat /\ job.size \in Nat
      /\ done < job.size \/ (done = 0 /\ job.size = 0)
  <2>1. ~behind
    BY <1>1 DEF CipherInv, CipherUnderway
  <2> QED
    BY <1>1 DEF CipherInv, CipherTyped, CipherUnderway
<1>5. L \in Nat /\ L > 1 /\ L > 0 /\ L' = L
  BY <1>1, LimitSize DEF Ciphers!ChunkLimit
<1>6. n = IF job.size - done <= L THEN job.size - done ELSE L
  BY <1>4, <1>5, MinOfTwo DEF Ciphers!ChunkSize
<1> HIDE DEF n, L
<1>7. CASE result # "KSE_SUCCESS"
  <2>1. pc' = "idle" /\ done' = done /\ job' = job /\ ~behind'
    BY <1>1, <1>3, <1>4, <1>7
  <2> QED
    BY <1>4, <2>1 DEF CipherInv, CipherTyped, CipherUnderway, Ciphers!MixedOnlyAtEnd
<1>8. CASE result = "KSE_SUCCESS" /\ x.got = a
  <2>1. ~behind' /\ done' = done + n /\ job' = job
    BY <1>1, <1>3, <1>4, <1>8
  <2>2. done' \in Nat /\ (done' = job.size \/ (n = L /\ done' < job.size))
    BY <1>4, <1>5, <1>6, <2>1
  <2>3. CASE done' = job.size
    <3>1. pc' = "idle"
      BY <1>3, <1>8, <2>3
    <3> QED
      BY <1>4, <2>1, <2>2, <3>1 DEF CipherInv, CipherTyped, CipherUnderway,
                                    Ciphers!MixedOnlyAtEnd
  <2>4. CASE n = L /\ done' < job.size
    <3>1. (done + L) % L = 0
      BY <1>4, <1>5, NextMultiple
    <3>2. done' % L' = 0
      BY <1>5, <2>1, <2>4, <3>1
    <3>3. pc' = "run"
      BY <1>1, <1>3, <1>4, <1>8, <2>2, <2>4
    <3> QED
      BY <1>4, <2>1, <2>2, <2>4, <3>2, <3>3 DEF CipherInv, CipherTyped, CipherUnderway,
                                    Ciphers!MixedOnlyAtEnd, L
  <2> QED
    BY <2>2, <2>3, <2>4
<1>9. CASE result = "KSE_SUCCESS" /\ x.got # a
  <2>1. ~InStep /\ ~Exchange!IsLong(Ciphers!CommandSize)
    BY <1>9, OtherAnswer
  <2>2. failed' = TRUE /\ done' = done + n /\ job' = job
    BY <1>1, <1>3, <1>9, <2>1 DEF LateInv
  <2>3. n \in Nat /\ n <= 1
    <3>1. n \in Nat
      BY <1>4, <1>5, <1>6
    <3>2. Ciphers!CommandSize <= 60
      BY <2>1, <3>1 DEF Exchange!IsLong, Exchange!Block, Ciphers!CommandSize,
                        Ciphers!BlockSize, n
    <3> QED
      BY <3>1, <3>2 DEF Ciphers!CommandSize, Ciphers!BlockSize, n
  <2>4. n = job.size - done
    BY <1>4, <1>5, <1>6, <2>3
  <2>5. done' = job.size /\ (job.size = 0 \/ (job.size - 1) % L = 0)
    <3>1. done' = job.size
      BY <1>4, <2>2, <2>4
    <3>2. CASE job.size = 0
      BY <3>1, <3>2
    <3>3. CASE job.size # 0
      <4>1. done = job.size - 1
        BY <1>4, <2>3, <2>4, <3>3
      <4> QED
        BY <1>4, <3>1, <4>1
    <3> QED
      BY <3>2, <3>3
  <2>6. pc' = "idle"
    BY <1>3, <1>9, <2>2, <2>5
  <2>7. CipherTyped' /\ CipherUnderway'
    BY <1>4, <2>2, <2>5, <2>6 DEF CipherTyped, CipherUnderway
  <2>8. Ciphers!MixedOnlyAtEnd'
    BY <1>5, <2>2, <2>5 DEF Ciphers!MixedOnlyAtEnd, L
  <2> QED
    BY <2>7, <2>8 DEF CipherInv
<1> QED
  BY <1>7, <1>8, <1>9

-----------------------------------------------------------------------------
(* The device's memory.  Its three instances have the same steps.          *)

LEMMA SameInMemory ==
  /\ \A n, own, ok : Memory!Exchanges(n, own, ok) = Ends(n, own, ok)
  /\ \A got, lens : Memory!StatusOf(got, lens) = ResultFor(got, lens)
<1>1. \A n, own, ok : Memory!Exchanges(n, own, ok) = Ends(n, own, ok)
  BY DEF Ends, Memory!Exchanges, Memory!NoReport, Memory!Acknowledgement, Memory!Fragment,
         Memory!Without, Memory!TransferFails, Memory!UnexpectedResp, Memory!IsLong,
         Memory!Block, Memory!NoData, Exchange!Exchanges, Exchange!NoReport,
         Exchange!Acknowledgement, Exchange!Fragment, Exchange!Without,
         Exchange!TransferFails, Exchange!UnexpectedResp, Exchange!IsLong, Exchange!Block,
         Exchange!NoData
<1>2. \A got, lens : Memory!StatusOf(got, lens) = ResultFor(got, lens)
  BY DEF ResultFor, Memory!StatusOf, Memory!TransferFails, Memory!UnexpectedResp, Memory!Success,
         Memory!UnexpectedLen, Exchange!StatusOf, Exchange!TransferFails,
         Exchange!UnexpectedResp, Exchange!Success, Exchange!UnexpectedLen
<1> QED
  BY <1>1, <1>2

LEMMA SameStore ==
  /\ \A ok, n, new, asked :
       KeyStore!Store(ok, n, new, asked)
         => Memory!Store(ok, n, new, asked)
  /\ \A ok, n, new, asked :
       CertStore!Store(ok, n, new, asked)
         => Memory!Store(ok, n, new, asked)
  /\ \A ok, n, new, asked :
       InfoFile!Store(ok, n, new, asked)
         => Memory!Store(ok, n, new, asked)
<1>1. ASSUME NEW ok, NEW n, NEW new, NEW asked,
            KeyStore!Store(ok, n, new, asked)
     PROVE  Memory!Store(ok, n, new, asked)
  BY <1>1, Same, SameResult, SameInMemory
     DEF KeyStore!Store, KeyStore!Guarded, KeyStore!NotPoweredOn, KeyStore!WrongInput,
         KeyStore!Success, KeyStore!Done, KeyStore!Answer, KeyStore!NoData, KeyStore!Refusal,
         KeyStore!Refused, KeyStore!ExchangeWith, KeyStore!NoExchange, KeyStore!exchangeVars,
         KeyStore!NoCommand, KeyStore!Over, KeyStore!Unknown, KeyStore!Content, Memory!Store,
         Memory!Guarded, Memory!NotPoweredOn, Memory!WrongInput, Memory!Success, Memory!Done,
         Memory!Answer, Memory!NoData, Memory!Refusal, Memory!Refused, Memory!ExchangeWith,
         Memory!NoExchange, Memory!exchangeVars, Memory!NoCommand, Memory!Over,
         Memory!Unknown, Memory!Content
<1>2. ASSUME NEW ok, NEW n, NEW new, NEW asked,
            CertStore!Store(ok, n, new, asked)
     PROVE  Memory!Store(ok, n, new, asked)
  BY <1>2, Same, SameResult, SameInMemory
     DEF CertStore!Store, CertStore!Guarded, CertStore!NotPoweredOn, CertStore!WrongInput,
         CertStore!Success, CertStore!Done, CertStore!Answer, CertStore!NoData,
         CertStore!Refusal, CertStore!Refused, CertStore!ExchangeWith, CertStore!NoExchange,
         CertStore!exchangeVars, CertStore!NoCommand, CertStore!Over, CertStore!Unknown,
         CertStore!Content, Memory!Store, Memory!Guarded, Memory!NotPoweredOn,
         Memory!WrongInput, Memory!Success, Memory!Done, Memory!Answer, Memory!NoData,
         Memory!Refusal, Memory!Refused, Memory!ExchangeWith, Memory!NoExchange,
         Memory!exchangeVars, Memory!NoCommand, Memory!Over, Memory!Unknown, Memory!Content
<1>3. ASSUME NEW ok, NEW n, NEW new, NEW asked,
            InfoFile!Store(ok, n, new, asked)
     PROVE  Memory!Store(ok, n, new, asked)
  BY <1>3, Same, SameResult, SameInMemory
     DEF InfoFile!Store, InfoFile!Guarded, InfoFile!NotPoweredOn, InfoFile!WrongInput,
         InfoFile!Success, InfoFile!Done, InfoFile!Answer, InfoFile!NoData, InfoFile!Refusal,
         InfoFile!Refused, InfoFile!ExchangeWith, InfoFile!NoExchange, InfoFile!exchangeVars,
         InfoFile!NoCommand, InfoFile!Over, InfoFile!Unknown, InfoFile!Content, Memory!Store,
         Memory!Guarded, Memory!NotPoweredOn, Memory!WrongInput, Memory!Success, Memory!Done,
         Memory!Answer, Memory!NoData, Memory!Refusal, Memory!Refused, Memory!ExchangeWith,
         Memory!NoExchange, Memory!exchangeVars, Memory!NoCommand, Memory!Over,
         Memory!Unknown, Memory!Content
<1> QED
  BY <1>1, <1>2, <1>3

LEMMA SameFetch ==
  /\ \A ok, n, lens, answers, array, slots :
       KeyStore!Fetch(ok, n, lens, answers, array, slots)
         => Memory!Fetch(ok, n, lens, answers, array, slots)
  /\ \A ok, n, lens, answers, array, slots :
       CertStore!Fetch(ok, n, lens, answers, array, slots)
         => Memory!Fetch(ok, n, lens, answers, array, slots)
  /\ \A ok, n, lens, answers, array, slots :
       InfoFile!Fetch(ok, n, lens, answers, array, slots)
         => Memory!Fetch(ok, n, lens, answers, array, slots)
<1>1. ASSUME NEW ok, NEW n, NEW lens, NEW answers, NEW array, NEW slots,
            KeyStore!Fetch(ok, n, lens, answers, array, slots)
     PROVE  Memory!Fetch(ok, n, lens, answers, array, slots)
  BY <1>1, Same, SameResult, SameInMemory
     DEF KeyStore!Fetch, KeyStore!Guarded, KeyStore!NotPoweredOn, KeyStore!WrongInput,
         KeyStore!Success, KeyStore!Answer, KeyStore!NoData, KeyStore!Refusal,
         KeyStore!Refused, KeyStore!ExchangeWith, KeyStore!NoExchange, KeyStore!exchangeVars,
         KeyStore!NoCommand, KeyStore!Over, KeyStore!Other, KeyStore!Content,
         KeyStore!Copied, Memory!Fetch, Memory!Guarded, Memory!NotPoweredOn,
         Memory!WrongInput, Memory!Success, Memory!Answer, Memory!NoData, Memory!Refusal,
         Memory!Refused, Memory!ExchangeWith, Memory!NoExchange, Memory!exchangeVars,
         Memory!NoCommand, Memory!Over, Memory!Other, Memory!Content, Memory!Copied
<1>2. ASSUME NEW ok, NEW n, NEW lens, NEW answers, NEW array, NEW slots,
            CertStore!Fetch(ok, n, lens, answers, array, slots)
     PROVE  Memory!Fetch(ok, n, lens, answers, array, slots)
  BY <1>2, Same, SameResult, SameInMemory
     DEF CertStore!Fetch, CertStore!Guarded, CertStore!NotPoweredOn, CertStore!WrongInput,
         CertStore!Success, CertStore!Answer, CertStore!NoData, CertStore!Refusal,
         CertStore!Refused, CertStore!ExchangeWith, CertStore!NoExchange,
         CertStore!exchangeVars, CertStore!NoCommand, CertStore!Over, CertStore!Other,
         CertStore!Content, CertStore!Copied, Memory!Fetch, Memory!Guarded,
         Memory!NotPoweredOn, Memory!WrongInput, Memory!Success, Memory!Answer,
         Memory!NoData, Memory!Refusal, Memory!Refused, Memory!ExchangeWith,
         Memory!NoExchange, Memory!exchangeVars, Memory!NoCommand, Memory!Over, Memory!Other,
         Memory!Content, Memory!Copied
<1>3. ASSUME NEW ok, NEW n, NEW lens, NEW answers, NEW array, NEW slots,
            InfoFile!Fetch(ok, n, lens, answers, array, slots)
     PROVE  Memory!Fetch(ok, n, lens, answers, array, slots)
  BY <1>3, Same, SameResult, SameInMemory
     DEF InfoFile!Fetch, InfoFile!Guarded, InfoFile!NotPoweredOn, InfoFile!WrongInput,
         InfoFile!Success, InfoFile!Answer, InfoFile!NoData, InfoFile!Refusal,
         InfoFile!Refused, InfoFile!ExchangeWith, InfoFile!NoExchange, InfoFile!exchangeVars,
         InfoFile!NoCommand, InfoFile!Over, InfoFile!Other, InfoFile!Content,
         InfoFile!Copied, Memory!Fetch, Memory!Guarded, Memory!NotPoweredOn,
         Memory!WrongInput, Memory!Success, Memory!Answer, Memory!NoData, Memory!Refusal,
         Memory!Refused, Memory!ExchangeWith, Memory!NoExchange, Memory!exchangeVars,
         Memory!NoCommand, Memory!Over, Memory!Other, Memory!Content, Memory!Copied
<1> QED
  BY <1>1, <1>2, <1>3

\* What the host is told of a slot may differ from what is in it for an HMAC
\* key that the device has made.
Alike(a, b) == a = b \/ (a.value = Memory!SizeIgnored /\ b.value = Memory!SizeIgnored)
AskedFor(asked, new) ==
  DOMAIN asked = DOMAIN new /\ \A s \in DOMAIN new : Alike(asked[s], new[s])

\* A command that writes, and one that reads slots and is told what is there.
Writes == \E ok, n, new, asked : Memory!Store(ok, n, new, asked) /\ AskedFor(asked, new)
TellsTrue(answers, slots) ==
  \A own \in answers, s \in slots : s \in DOMAIN own.data /\ own.data[s] = store[s]
Reads ==
  \E ok, n, lens, answers, array, slots :
    /\ Memory!Fetch(ok, n, lens, answers, array, slots)
    /\ ok => TellsTrue(answers, slots)

LEMMA TellsNothing == \A answers : TellsTrue(answers, {})
BY DEF TellsTrue

LEMMA AskedSame == \A new : AskedFor(new, new)
BY DEF AskedFor, Alike

LEMMA KeySteps ==
  ASSUME KeyStore!Next
  PROVE  Writes \/ Reads
<1>0. CASE KeyStore!GenerateKey
  <2> DEFINE Made(type, i, n) ==
        [s \in KeyStore!SlotsOf(type, i) |->
           IF type = "HMAC" THEN KeyStore!Content(n, KeyStore!SizeIgnored)
           ELSE KeyStore!Content(KeyStore!Min(KeyStore!SizesOf(s[1])), KeyStore!Generated)]
             ok(type, i, n) ==
        /\ type \in KeyStore!Cipher \cup {"HMAC"} \cup KeyStore!Pairs
        /\ i < KeyStore!MAX_KCMVP_KEY_COUNT
        /\ type = "HMAC" => n <= 255
             bytes(type) == IF type = "HMAC" THEN 7 ELSE 5
  <2>1. PICK type \in KeyKinds, i \in KeyIndices, n \in HmacSizes :
          KeyStore!Store(ok(type, i, n), bytes(type), Made(type, i, i), Made(type, i, n))
    BY <1>0 DEF KeyStore!GenerateKey
  <2>2. AskedFor(Made(type, i, n), Made(type, i, i))
    BY DEF AskedFor, Alike, KeyStore!Content, KeyStore!SizeIgnored, Memory!SizeIgnored
  <2> HIDE DEF Made, ok, bytes
  <2> QED
    BY <2>1, <2>2, SameStore DEF Writes
<1>1. CASE KeyStore!PutKey \/ KeyStore!EraseKey
  <2> SUFFICES ASSUME NEW ok, NEW n, NEW new, KeyStore!Store(ok, n, new, new)
               PROVE  Writes
    BY <1>1 DEF KeyStore!PutKey, KeyStore!EraseKey
  <2> QED
    BY SameStore, AskedSame DEF Writes
<1>2. CASE KeyStore!GetKey
  <2> DEFINE answers(type, i) ==
        {KeyStore!Answer(store[s].size, [t \in {s} |-> store[t]]) :
           s \in {t \in KeyStore!SlotsOf(type, i) : store[t] # KeyStore!Empty}}
             valid(type, i) == type \notin KeyStore!Pairs /\ i < KeyStore!MAX_KCMVP_KEY_COUNT
  <2>1. ASSUME NEW type, NEW i, type \notin KeyStore!Pairs
        PROVE  TellsTrue(answers(type, i), KeyStore!SlotsOf(type, i))
    <3> SUFFICES ASSUME NEW s \in KeyStore!SlotsOf(type, i), NEW t \in KeyStore!SlotsOf(type, i)
                 PROVE  LET data == KeyStore!Answer(store[t].size, [u \in {t} |-> store[u]]).data
                        IN  s \in DOMAIN data /\ data[s] = store[s]
      BY DEF TellsTrue
    <3>1. s = <<type, i>> /\ t = <<type, i>>
      BY <2>1 DEF KeyStore!SlotsOf, KeyStore!Slots, KeyStore!Pairs
    <3> QED
      BY <3>1 DEF KeyStore!Answer
  <2>2. PICK type \in KeyKinds, i \in KeyIndices, array \in Rooms :
          KeyStore!Fetch(valid(type, i), 5, KeyStore!GetKeyLens(type),
                         answers(type, i), array, KeyStore!SlotsOf(type, i))
    BY <1>2 DEF KeyStore!GetKey
  <2> HIDE DEF answers
  <2>3. valid(type, i) => TellsTrue(answers(type, i), KeyStore!SlotsOf(type, i))
    BY <2>1
  <2> HIDE DEF valid
  <2>4. Memory!Fetch(valid(type, i), 5, KeyStore!GetKeyLens(type),
                     answers(type, i), array, KeyStore!SlotsOf(type, i))
    BY <2>2, SameFetch
  <2>5. Reads
    BY <2>3, <2>4 DEF Reads
  <2> QED
    BY <2>5
<1>3. ASSUME NEW ok, NEW n, NEW size, NEW answers,
             KeyStore!FetchExactly(ok, n, size, answers, {})
      PROVE  Reads
  BY <1>3, SameFetch, TellsNothing DEF Reads, KeyStore!FetchExactly
<1>4. CASE KeyStore!Drbg
  <2> DEFINE answers(n) == {KeyStore!Answer(n, KeyStore!NoData)}
             ok(n) == n # 0 /\ n <= 256
  <2>1. PICK n : KeyStore!FetchExactly(ok(n), 4, n, answers(n), {})
    BY <1>4 DEF KeyStore!Drbg
  <2> HIDE DEF answers, ok
  <2> QED
    BY <1>3, <2>1
<1>5. CASE KeyStore!EcdhExchKey
  BY <1>3, <1>5 DEF KeyStore!EcdhExchKey
<1>6. CASE KeyStore!GetClibState
  BY <1>3, <1>6 DEF KeyStore!GetClibState
<1> QED
  BY <1>0, <1>1, <1>2, <1>4, <1>5, <1>6 DEF KeyStore!Next

LEMMA CertSteps ==
  ASSUME CertStore!Next
  PROVE  Writes \/ Reads
<1>1. ASSUME NEW ok, NEW n, NEW new, CertStore!Store(ok, n, new, new)
      PROVE  Writes
  BY <1>1, SameStore, AskedSame DEF Writes
<1>2. CASE \/ CertStore!GenerateKeypair \/ CertStore!PutPriKey \/ CertStore!PutPubKey
           \/ CertStore!PutCert \/ CertStore!PutCertPubKey
  <2>1. CASE CertStore!GenerateKeypair
    BY <1>1, <2>1 DEF CertStore!GenerateKeypair
  <2>2. CASE CertStore!PutPriKey
    BY <1>1, <2>2 DEF CertStore!PutPriKey
  <2>3. CASE CertStore!PutPubKey
    BY <1>1, <2>3 DEF CertStore!PutPubKey
  <2>4. CASE CertStore!PutCert
    BY <1>1, <2>4 DEF CertStore!PutCert
  <2>5. CASE CertStore!PutCertPubKey
    BY <1>1, <2>5 DEF CertStore!PutCertPubKey
  <2> QED
    BY <1>2, <2>1, <2>2, <2>3, <2>4, <2>5
<1>3. CASE CertStore!EraseCertKey \/ CertStore!WriteInfoFile
  BY <1>1, <1>3 DEF CertStore!EraseCertKey, CertStore!WriteInfoFile
<1>4. ASSUME NEW ok, NEW n, NEW size, NEW answers, NEW slots, TellsTrue(answers, slots),
             CertStore!FetchExactly(ok, n, size, answers, slots)
      PROVE  Reads
  BY <1>4, SameFetch DEF Reads, CertStore!FetchExactly
<1>5. ASSUME NEW kind, NEW n, NEW evenEmpty, CertStore!GetSlot(kind, n, evenEmpty)
      PROVE  Reads
  <2> DEFINE slots(i) == {<<kind, i>>} \cap CertStore!Slots
             answers(i) == {CertStore!Answer(n, CertStore!Said(slots(i))) :
                              s \in {t \in slots(i) : evenEmpty \/ store[t] # CertStore!Empty}}
             ok(i) == CertStore!InRange(i)
  <2>1. PICK i : CertStore!FetchExactly(ok(i), 4, n, answers(i), slots(i))
    BY <1>5 DEF CertStore!GetSlot
  <2>2. TellsTrue(answers(i), slots(i))
    BY DEF TellsTrue, CertStore!Said, CertStore!Answer
  <2> HIDE DEF slots, answers, ok
  <2> QED
    BY <1>4, <2>1, <2>2
<1>6. CASE CertStore!GetPriKey \/ CertStore!GetPubKey \/ CertStore!GetCert
  BY <1>5, <1>6 DEF CertStore!GetPriKey, CertStore!GetPubKey, CertStore!GetCert
<1>7. CASE CertStore!GetPriKeyState \/ CertStore!GetPubKeyCsr
  <2> SUFFICES ASSUME NEW ok, NEW n, NEW size, NEW answers,
                      CertStore!FetchExactly(ok, n, size, answers, {})
               PROVE  Reads
    BY <1>7 DEF CertStore!GetPriKeyState, CertStore!GetPubKeyCsr
  <2> QED
    BY <1>4, TellsNothing
<1>8. CASE CertStore!GetCertField
  <2> SUFFICES ASSUME NEW ok, NEW n, NEW lens, NEW answers, NEW array,
                      CertStore!Fetch(ok, n, lens, answers, array, {})
               PROVE  Reads
    BY <1>8 DEF CertStore!GetCertField
  <2> QED
    BY SameFetch, TellsNothing DEF Reads
<1>9. CASE CertStore!ReadInfoFile
  <2> DEFINE slots(offset, size) == CertStore!Covered(offset, size)
             answers(offset, size) == {CertStore!Answer(size, CertStore!Said(slots(offset, size)))}
             ok(offset, size) == CertStore!InFile(offset, size)
  <2>1. PICK offset, size :
          CertStore!FetchExactly(ok(offset, size), 6, size, answers(offset, size),
                                 slots(offset, size))
    BY <1>9 DEF CertStore!ReadInfoFile
  <2>2. slots(offset, size) \subseteq CertStore!Slots
    BY DEF CertStore!Covered, CertStore!Slots, CertStore!Info
  <2>3. TellsTrue(answers(offset, size), slots(offset, size))
    <3> HIDE DEF slots
    <3> QED
      BY <2>2 DEF TellsTrue, CertStore!Said, CertStore!Answer
  <2> HIDE DEF slots, answers, ok
  <2> QED
    BY <1>4, <2>1, <2>3
<1> QED
  BY <1>2, <1>3, <1>6, <1>7, <1>8, <1>9 DEF CertStore!Next

LEMMA FileSteps ==
  ASSUME InfoFile!Next
  PROVE  Writes \/ Reads
<1>1. ASSUME NEW ok, NEW n, NEW new, InfoFile!Store(ok, n, new, new)
      PROVE  Writes
  BY <1>1, SameStore, AskedSame DEF Writes
<1>2. CASE \/ InfoFile!GenerateKeypair \/ InfoFile!PutPriKey \/ InfoFile!PutPubKey
           \/ InfoFile!PutCert \/ InfoFile!PutCertPubKey
  <2>1. CASE InfoFile!GenerateKeypair
    BY <1>1, <2>1 DEF InfoFile!GenerateKeypair
  <2>2. CASE InfoFile!PutPriKey
    BY <1>1, <2>2 DEF InfoFile!PutPriKey
  <2>3. CASE InfoFile!PutPubKey
    BY <1>1, <2>3 DEF InfoFile!PutPubKey
  <2>4. CASE InfoFile!PutCert
    BY <1>1, <2>4 DEF InfoFile!PutCert
  <2>5. CASE InfoFile!PutCertPubKey
    BY <1>1, <2>5 DEF InfoFile!PutCertPubKey
  <2> QED
    BY <1>2, <2>1, <2>2, <2>3, <2>4, <2>5
<1>3. CASE InfoFile!EraseCertKey \/ InfoFile!WriteInfoFile
  BY <1>1, <1>3 DEF InfoFile!EraseCertKey, InfoFile!WriteInfoFile
<1>4. ASSUME NEW ok, NEW n, NEW size, NEW answers, NEW slots, TellsTrue(answers, slots),
             InfoFile!FetchExactly(ok, n, size, answers, slots)
      PROVE  Reads
  BY <1>4, SameFetch DEF Reads, InfoFile!FetchExactly
<1>5. ASSUME NEW kind, NEW n, NEW evenEmpty, InfoFile!GetSlot(kind, n, evenEmpty)
      PROVE  Reads
  <2> DEFINE slots(i) == {<<kind, i>>} \cap InfoFile!Slots
             answers(i) == {InfoFile!Answer(n, InfoFile!Said(slots(i))) :
                              s \in {t \in slots(i) : evenEmpty \/ store[t] # InfoFile!Empty}}
             ok(i) == InfoFile!InRange(i)
  <2>1. PICK i : InfoFile!FetchExactly(ok(i), 4, n, answers(i), slots(i))
    BY <1>5 DEF InfoFile!GetSlot
  <2>2. TellsTrue(answers(i), slots(i))
    BY DEF TellsTrue, InfoFile!Said, InfoFile!Answer
  <2> HIDE DEF slots, answers, ok
  <2> QED
    BY <1>4, <2>1, <2>2
<1>6. CASE InfoFile!GetPriKey \/ InfoFile!GetPubKey \/ InfoFile!GetCert
  BY <1>5, <1>6 DEF InfoFile!GetPriKey, InfoFile!GetPubKey, InfoFile!GetCert
<1>7. CASE InfoFile!GetPriKeyState \/ InfoFile!GetPubKeyCsr
  <2> SUFFICES ASSUME NEW ok, NEW n, NEW size, NEW answers,
                      InfoFile!FetchExactly(ok, n, size, answers, {})
               PROVE  Reads
    BY <1>7 DEF InfoFile!GetPriKeyState, InfoFile!GetPubKeyCsr
  <2> QED
    BY <1>4, TellsNothing
<1>8. CASE InfoFile!GetCertField
  <2> SUFFICES ASSUME NEW ok, NEW n, NEW lens, NEW answers, NEW array,
                      InfoFile!Fetch(ok, n, lens, answers, array, {})
               PROVE  Reads
    BY <1>8 DEF InfoFile!GetCertField
  <2> QED
    BY SameFetch, TellsNothing DEF Reads
<1>9. CASE InfoFile!ReadInfoFile
  <2> DEFINE slots(offset, size) == InfoFile!Covered(offset, size)
             answers(offset, size) == {InfoFile!Answer(size, InfoFile!Said(slots(offset, size)))}
             ok(offset, size) == InfoFile!InFile(offset, size)
  <2>1. PICK offset, size :
          InfoFile!FetchExactly(ok(offset, size), 6, size, answers(offset, size),
                                 slots(offset, size))
    BY <1>9 DEF InfoFile!ReadInfoFile
  <2>2. slots(offset, size) \subseteq InfoFile!Slots
    BY DEF InfoFile!Covered, InfoFile!Slots, InfoFile!Info
  <2>3. TellsTrue(answers(offset, size), slots(offset, size))
    <3> HIDE DEF slots
    <3> QED
      BY <2>2 DEF TellsTrue, InfoFile!Said, InfoFile!Answer
  <2> HIDE DEF slots, answers, ok
  <2> QED
    BY <1>4, <2>1, <2>3
<1> QED
  BY <1>2, <1>3, <1>6, <1>7, <1>8, <1>9 DEF InfoFile!Next

\* A command that writes, succeeds and leaves no report unread: the answer is its own.
LEMMA BackInStep ==
  ASSUME NEW n, NEW own \in {Memory!Done, Memory!Refusal}, NEW ok, NEW x \in Ends(n, own, ok),
         ResultFor(x.got, {2}) = "KSE_SUCCESS", x.late = Exchange!NoReport
  PROVE  x.got = own
<1>1. CASE InStep
  BY <1>1, SuccessInStep
<1>2. CASE ~InStep /\ Exchange!IsLong(n)
  BY <1>2, SuccessInStep
<1>3. CASE ~InStep /\ ~Exchange!IsLong(n)
  <2>1. /\ own.status # "none" /\ own.usLen = 2
    BY DEF Memory!Done, Memory!Answer, Memory!Refusal, Memory!Success, Memory!Refused
  <2>2. \/ x.got \in {Exchange!Without(Exchange!UnexpectedResp),
                      Exchange!Without(Exchange!TransferFails)}
        \/ x.got.usLen = 62 \/ x.late = own
    BY <1>3, <2>1 DEF Ends, Exchange!Exchanges, InStep, Exchange!IsLong, Exchange!Block
  <2>3. own # Exchange!NoReport
    BY <2>1 DEF Exchange!NoReport
  <2> QED
    BY <2>2, <2>3, SuccessMeans
<1> QED
  BY <1>1, <1>2, <1>3

\* The memory and what the host knows of it.
StoreInv ==
  /\ DOMAIN store \subseteq DOMAIN told
  /\ Memory!KnownIsStored /\ Memory!SuccessIsTrue

\* What a step must show of the memory.
LEMMA KnownNow ==
  ASSUME Memory!KnownIsStored, ~failed, NEW s \in DOMAIN store
  PROVE  told[s] = Memory!Unknown \/ Alike(told[s], store[s])
BY DEF Memory!KnownIsStored, Memory!ToldTrue, Alike

LEMMA KnownNext ==
  ASSUME ~failed' => \A s \in DOMAIN store' :
                       told'[s] = Memory!Unknown \/ Alike(told'[s], store'[s])
  PROVE  Memory!KnownIsStored'
BY DEF Memory!KnownIsStored, Memory!ToldTrue, Alike, Memory!Unknown, Memory!Content,
       Memory!SizeIgnored

LEMMA TrueNext ==
  ASSUME /\ ret' = "KSE_SUCCESS"
         /\ Exchange!IsLong(last'.n) \/ late' = Exchange!NoReport
         => \A s \in last'.slots : Alike(told'[s], store'[s])
  PROVE  Memory!SuccessIsTrue'
BY DEF Memory!SuccessIsTrue, Memory!ToldTrue, Alike, Memory!SizeIgnored, Memory!IsLong,
       Memory!Block, Exchange!IsLong, Exchange!Block, Memory!Success, Memory!NoReport,
       Memory!NoData, Exchange!NoReport, Exchange!NoData

LEMMA NothingTold ==
  ASSUME StoreInv, ret' # "KSE_SUCCESS" \/ last'.slots = {},
         failed' = failed, store' = store, told' = told
  PROVE  StoreInv'
<1>1. Memory!KnownIsStored'
  BY DEF StoreInv, Memory!KnownIsStored, Memory!ToldTrue, Memory!Unknown, Memory!Content,
         Memory!SizeIgnored
<1>2. Memory!SuccessIsTrue'
  BY TrueNext
<1> QED
  BY <1>1, <1>2 DEF StoreInv

LEMMA WritesKeep ==
  ASSUME LateInv, StoreInv, Writes
  PROVE  StoreInv' /\ LateUsed
<1>1. PICK ok, n, new, asked : Memory!Store(ok, n, new, asked) /\ AskedFor(asked, new)
  BY DEF Writes
<1>2. CASE Memory!Guarded(ok) # "KSE_SUCCESS"
  <2>1. ret' # "KSE_SUCCESS" /\ UNCHANGED <<late, failed, store, told>>
    BY <1>1, <1>2 DEF Memory!Store, Memory!NoExchange, Memory!exchangeVars, Memory!Success
  <2> QED
    BY <2>1, NothingTold DEF LateUsed
<1>3. CASE Memory!Guarded(ok) = "KSE_SUCCESS"
  <2> DEFINE own(carried) == IF carried THEN Memory!Done ELSE Memory!Refusal
             Unknowns == [s \in DOMAIN asked |-> Memory!Unknown]
             Effect(carried, x) ==
               /\ late' = x.late /\ failed' = (failed \/ x.failed)
               /\ store' = IF carried THEN Memory!Over(new, store) ELSE store
               /\ ret' = ResultFor(x.got, {2})
               /\ told' = Memory!Over(IF ret' = "KSE_SUCCESS" THEN asked ELSE Unknowns, told)
               /\ last'.n = n /\ last'.slots = DOMAIN new
  <2>1. PICK carried \in BOOLEAN : \E x \in Ends(n, own(carried), carried) : Effect(carried, x)
    <3>1. PICK carried \in BOOLEAN :
            \E x \in Memory!Exchanges(n, own(carried), carried) :
              /\ Memory!ExchangeWith(x)
              /\ store' = IF carried THEN Memory!Over(new, store) ELSE store
              /\ ret' = Memory!StatusOf(x.got, {2})
              /\ told' = Memory!Over(IF ret' = "KSE_SUCCESS" THEN asked ELSE Unknowns, told)
              /\ last' = [n |-> n, slots |-> DOMAIN new, room |-> 0, copied |-> 0]
      BY <1>1, <1>3 DEF Memory!Store, Memory!Success
    <3>2. PICK x \in Memory!Exchanges(n, own(carried), carried) :
            /\ Memory!ExchangeWith(x)
            /\ store' = IF carried THEN Memory!Over(new, store) ELSE store
            /\ ret' = Memory!StatusOf(x.got, {2})
            /\ told' = Memory!Over(IF ret' = "KSE_SUCCESS" THEN asked ELSE Unknowns, told)
            /\ last' = [n |-> n, slots |-> DOMAIN new, room |-> 0, copied |-> 0]
      BY <3>1
    <3>3. last'.n = n /\ last'.slots = DOMAIN new
      BY <3>2
    <3> HIDE DEF Unknowns, own
    <3>4. x \in Ends(n, own(carried), carried) /\ Effect(carried, x)
      BY <3>2, <3>3, SameInMemory DEF Memory!ExchangeWith
    <3> HIDE DEF Effect
    <3> QED
      BY <3>4
  <2>2. PICK x \in Ends(n, own(carried), carried) : Effect(carried, x)
    BY <2>1
  <2>10. DOMAIN asked = DOMAIN new /\ \A s \in DOMAIN new : Alike(asked[s], new[s])
    BY <1>1 DEF AskedFor
  <2>3. DOMAIN store' \subseteq DOMAIN told'
    <3>1. DOMAIN told' = DOMAIN asked \cup DOMAIN told
      BY <2>2 DEF Memory!Over
    <3>2. DOMAIN store' \subseteq DOMAIN new \cup DOMAIN store
      BY <2>2 DEF Memory!Over
    <3> QED
      BY <2>10, <3>1, <3>2 DEF StoreInv
  <2>4. ~failed' => InStep /\ x.got = own(carried)
    BY <2>2, EndsInStep DEF LateInv
  <2>5. ret' = "KSE_SUCCESS" /\ x.got = own(carried) => carried
    <3> SUFFICES ASSUME ret' = "KSE_SUCCESS", x.got = own(carried), ~carried PROVE FALSE
      OBVIOUS
    <3>1. ResultFor(Memory!Refusal, {2}) = "KSE_SUCCESS"
      BY <2>2
    <3>2. Memory!Refusal.status = "KSE_SUCCESS"
      BY <3>1, SuccessMeans
    <3> QED
      BY <3>2 DEF Memory!Refusal, Memory!Refused
  <2>6. carried /\ x.got = own(carried) => ret' = "KSE_SUCCESS"
    BY <2>2 DEF ResultFor, Exchange!StatusOf, Memory!Done, Memory!Answer, Memory!Success,
                Exchange!Success, Exchange!TransferFails, Exchange!UnexpectedResp
  <2>7. Memory!KnownIsStored'
    <3> SUFFICES ASSUME ~failed', NEW s \in DOMAIN store'
                 PROVE  told'[s] = Memory!Unknown \/ Alike(told'[s], store'[s])
      BY KnownNext
    <3>1. ~failed /\ (s \in DOMAIN store => told[s] = Memory!Unknown \/ Alike(told[s], store[s]))
      BY <2>2, KnownNow DEF StoreInv, LateInv
    <3>2. CASE carried
      <4>1. told' = Memory!Over(asked, told) /\ store' = Memory!Over(new, store)
        BY <2>2, <2>4, <2>6, <3>2
      <4> QED
        BY <2>10, <3>1, <4>1 DEF Memory!Over, StoreInv
    <3>3. CASE ~carried
      <4>1. told' = Memory!Over(Unknowns, told) /\ store' = store
        BY <2>2, <2>4, <2>5, <3>3
      <4> QED
        BY <2>10, <3>1, <4>1 DEF Memory!Over, StoreInv
    <3> QED
      BY <3>2, <3>3
  <2>8. Memory!SuccessIsTrue'
    <3> SUFFICES ASSUME ret' = "KSE_SUCCESS", Exchange!IsLong(n) \/ late' = Exchange!NoReport,
                        NEW s \in DOMAIN new
                 PROVE  Alike(told'[s], store'[s])
      BY <2>2, TrueNext
    <3>1. x.got = own(carried)
      <4>1. own(carried) \in {Memory!Done, Memory!Refusal}
        OBVIOUS
      <4>2. x \in Ends(n, own(carried), carried) /\ ResultFor(x.got, {2}) = "KSE_SUCCESS"
            /\ x.late = late'
        BY <2>2
      <4> HIDE DEF own, Effect
      <4>3. CASE Exchange!IsLong(n)
        BY <4>2, <4>3, SuccessInStep
      <4>4. CASE late' = Exchange!NoReport
        BY <4>1, <4>2, <4>4, BackInStep
      <4> QED
        BY <4>3, <4>4
    <3>2. carried
      BY <2>5, <3>1
    <3>3. told' = Memory!Over(asked, told) /\ store' = Memory!Over(new, store)
      BY <2>2, <3>2
    <3> QED
      BY <2>10, <3>3 DEF Memory!Over
  <2>9. LateUsed
    BY <2>2 DEF LateUsed, Exchanged, LateStep
  <2> QED
    BY <2>3, <2>7, <2>8, <2>9 DEF StoreInv
<1> QED
  BY <1>2, <1>3

LEMMA ReadsKeep ==
  ASSUME LateInv, StoreInv, Reads
  PROVE  StoreInv' /\ LateUsed
<1>1. PICK ok, n, lens, answers, array, slots :
        /\ Memory!Fetch(ok, n, lens, answers, array, slots)
        /\ ok => TellsTrue(answers, slots)
  BY DEF Reads
<1>2. CASE Memory!Guarded(ok) # "KSE_SUCCESS"
  <2>1. ret' # "KSE_SUCCESS" /\ UNCHANGED <<late, failed, store, told>>
    BY <1>1, <1>2 DEF Memory!Fetch, Memory!NoExchange, Memory!exchangeVars, Memory!Success
  <2> QED
    BY <2>1, NothingTold DEF LateUsed
<1>3. CASE Memory!Guarded(ok) = "KSE_SUCCESS"
  <2> DEFINE Heard(x) == [s \in slots |-> IF s \in DOMAIN x.got.data THEN x.got.data[s]
                                          ELSE Memory!Other]
             Effect(x) ==
               /\ late' = x.late /\ failed' = (failed \/ x.failed) /\ store' = store
               /\ ret' = ResultFor(x.got, lens)
               /\ told' = IF ret' = "KSE_SUCCESS" THEN Memory!Over(Heard(x), told) ELSE told
               /\ last'.slots = {}
  <2>1. PICK own \in answers \cup {Memory!Refusal} : \E x \in Ends(n, own, FALSE) : Effect(x)
    <3>1. PICK own \in answers \cup {Memory!Refusal} :
          \E x \in Memory!Exchanges(n, own, FALSE) :
            /\ Memory!ExchangeWith(x) /\ store' = store
            /\ ret' = Memory!StatusOf(x.got, lens)
            /\ told' = IF ret' = "KSE_SUCCESS" THEN Memory!Over(Heard(x), told) ELSE told
            /\ last' = [n |-> n, slots |-> {}, room |-> array,
                        copied |-> IF ret' = "KSE_SUCCESS"
                                   THEN Memory!Copied(x.got.usLen - 2, array) ELSE 0]
      BY <1>1, <1>3 DEF Memory!Fetch, Memory!Success
    <3>2. last'.slots = {}
      BY <3>1
    <3> HIDE DEF Heard
    <3> QED
      BY <3>1, <3>2, SameInMemory DEF Memory!ExchangeWith
  <2>2. PICK x \in Ends(n, own, FALSE) : Effect(x)
    BY <2>1
  <2>3. ok
    BY <1>3 DEF Memory!Guarded, Memory!WrongInput, Memory!NotPoweredOn
  <2>4. DOMAIN store' \subseteq DOMAIN told'
    BY <2>2 DEF StoreInv, Memory!Over
  <2>5. ~failed' => InStep /\ x.got = own
    BY <2>2, EndsInStep DEF LateInv
  <2>6. ret' = "KSE_SUCCESS" /\ x.got = own => \A s \in slots : told'[s] = store[s]
    <3> SUFFICES ASSUME ret' = "KSE_SUCCESS", x.got = own, NEW s \in slots
                 PROVE  told'[s] = store[s]
      OBVIOUS
    <3>1. own.status = "KSE_SUCCESS"
      BY <2>2, SuccessMeans
    <3>2. own \in answers
      BY <2>1, <3>1 DEF Memory!Refusal, Memory!Refused
    <3>3. s \in DOMAIN own.data /\ own.data[s] = store[s]
      BY <1>1, <2>3, <3>2 DEF TellsTrue
    <3> QED
      BY <2>2, <3>3 DEF Memory!Over
  <2>7. Memory!KnownIsStored'
    <3> SUFFICES ASSUME ~failed', NEW s \in DOMAIN store
                 PROVE  told'[s] = Memory!Unknown \/ Alike(told'[s], store[s])
      BY <2>2, KnownNext
    <3>1. (told[s] = Memory!Unknown \/ Alike(told[s], store[s])) /\ s \in DOMAIN told
      BY <2>2, KnownNow DEF StoreInv, LateInv
    <3>2. CASE ret' # "KSE_SUCCESS"
      BY <2>2, <3>1, <3>2
    <3>3. CASE ret' = "KSE_SUCCESS" /\ s \in slots
      BY <2>5, <2>6, <3>3 DEF Alike
    <3>4. CASE ret' = "KSE_SUCCESS" /\ s \notin slots
      BY <2>2, <3>1, <3>4 DEF Memory!Over
    <3> QED
      BY <3>2, <3>3, <3>4
  <2>8. Memory!SuccessIsTrue'
    BY <2>2, TrueNext
  <2>9. LateUsed
    BY <2>2 DEF LateUsed, Exchanged, LateStep
  <2> QED
    BY <2>4, <2>7, <2>8, <2>9 DEF StoreInv
<1> QED
  BY <1>2, <1>3

-----------------------------------------------------------------------------
(* The whole.  A group that is not the run's own stays as it began.        *)

StorePart == StoreInv /\ (part \in {"ciphers", "hash"} => last = Memory!NoCommand)
IInv == LateInv /\ StorePart /\ CipherPart /\ HashPart

LEMMA InitIInv == Init => IInv
<1> SUFFICES ASSUME Init PROVE IInv
  OBVIOUS
<1>1. LateInv
  BY DEF Init, Hash!Init, Hash!ExchangeInit, Hash!NoReport, Hash!NoData, LateInv, InStep,
         Exchange!NoReport, Exchange!NoData
<1>2. CipherPart
  BY DEF Init, Ciphers!Init, CipherPart, CipherInv, CipherTyped, CipherUnderway,
         Ciphers!MixedOnlyAtEnd
<1>3. HashPart
  BY DEF Init, Hash!Init, HashPart, NoHash, HashInv, HashTyped, HashUnderway, HashOwn,
         Hash!ResultOfMessage, Hash!Algs
<1>4. /\ last = Memory!NoCommand /\ DOMAIN store = DOMAIN told
      /\ \A s \in DOMAIN store : told[s] = Memory!Unknown
  <2>1. CASE KeyStore!Init
    BY <2>1 DEF KeyStore!Init, KeyStore!InitWith, KeyStore!NoCommand, KeyStore!Unknown,
                KeyStore!Content, Memory!NoCommand, Memory!Unknown, Memory!Content
  <2>2. CASE CertStore!Init
    BY <2>2 DEF CertStore!Init, CertStore!InitWith, CertStore!NoCommand, CertStore!Unknown,
                CertStore!Content, Memory!NoCommand, Memory!Unknown, Memory!Content
  <2>3. CASE InfoFile!Init
    BY <2>3 DEF InfoFile!Init, InfoFile!InitWith, InfoFile!NoCommand, InfoFile!Unknown,
                InfoFile!Content, Memory!NoCommand, Memory!Unknown, Memory!Content
  <2> QED
    BY <2>1, <2>2, <2>3 DEF Init
<1>5. StorePart
  BY <1>4 DEF StorePart, StoreInv, Memory!KnownIsStored, Memory!SuccessIsTrue, Memory!NoCommand
<1> QED
  BY <1>1, <1>2, <1>3, <1>5 DEF IInv

\* A step that leaves the memory alone.
LEMMA StoreAlone ==
  ASSUME LateInv, StorePart, part \in {"ciphers", "hash"}, UNCHANGED <<part, storeVars>>, LateUsed
  PROVE  StorePart'
<1>1. store' = store /\ told' = told /\ last' = last /\ part' = part
  BY DEF storeVars
<1>2. ~failed' => ~failed
  BY DEF LateUsed, Exchanged, LateStep, LateInv
<1>3. last = Memory!NoCommand
  BY DEF StorePart
<1>4. Memory!SuccessIsTrue'
  BY <1>1, <1>3, TrueNext DEF Memory!NoCommand
<1>5. Memory!KnownIsStored'
  BY <1>1, <1>2, KnownNow, KnownNext DEF StorePart, StoreInv
<1>6. Memory!NoCommand' = Memory!NoCommand
  BY DEF Memory!NoCommand
<1> QED
  BY <1>1, <1>3, <1>4, <1>5, <1>6 DEF StorePart, StoreInv

LEMMA StepIInv == IInv /\ [Next]_vars => IInv'
<1> SUFFICES ASSUME IInv, [Next]_vars PROVE IInv'
  OBVIOUS
<1>i. LateInv /\ StorePart /\ CipherPart /\ HashPart
  BY DEF IInv
<1>1. CASE /\ part \in {"keys", "certs", "file"} /\ UNCHANGED <<part, cipherVars, hashVars>>
           /\ KeyStore!Next \/ CertStore!Next \/ InfoFile!Next
  <2>1. StoreInv' /\ LateUsed
    BY <1>i, <1>1, KeySteps, CertSteps, FileSteps, WritesKeep, ReadsKeep DEF StorePart
  <2>2. LateInv'
    BY <1>i, <2>1, UsedKept
  <2>3. CipherPart' /\ HashPart'
    BY <1>i, <1>1 DEF CipherPart, HashPart, NoHash, cipherVars, hashVars
  <2> QED
    BY <1>1, <2>1, <2>2, <2>3 DEF IInv, StorePart
<1>2. CASE part = "ciphers" /\ UNCHANGED <<part, storeVars, hashVars>> /\ Ciphers!Next
  <2>1. LateUsed
    BY <1>2, CipherUses
  <2>2. LateInv' /\ StorePart'
    BY <1>i, <1>2, <2>1, UsedKept, StoreAlone
  <2>3. CipherInv'
    BY <1>i, <1>2, CipherCall, CipherChunk DEF CipherPart, Ciphers!Next
  <2>4. CipherPart' /\ HashPart'
    BY <1>i, <1>2, <2>3 DEF CipherPart, HashPart, NoHash, hashVars
  <2> QED
    BY <2>2, <2>4 DEF IInv
<1>3. CASE part = "hash" /\ UNCHANGED <<part, storeVars, cipherVars>> /\ Hash!Next
  <2>1. LateUsed
    BY <1>3, HashUses
  <2>2. LateInv' /\ StorePart'
    BY <1>i, <1>3, <2>1, UsedKept, StoreAlone
  <2>3. HashInv'
    BY <1>i, <1>3, CallStep, OneStepStep, BeginStep, MidStep, EndStep DEF HashPart, Hash!Next
  <2>4. CipherPart' /\ HashPart'
    BY <1>i, <1>3, <2>3 DEF CipherPart, HashPart, cipherVars
  <2> QED
    BY <2>2, <2>4 DEF IInv
<1>4. CASE UNCHANGED vars
  <2>1. UNCHANGED <<part, power, ret, late, failed, store, told, last>>
    BY <1>4 DEF vars, exchangeVars, storeVars
  <2>2. UNCHANGED <<pc, call, job, output, done, iv, behind>>
    BY <1>4 DEF vars, cipherVars
  <2>3. UNCHANGED <<hashPc, hashCall, hashJob, pos, digest, dev, hashBehind>>
    BY <1>4 DEF vars, hashVars
  <2>4. LateInv'
    BY <1>i, <2>1, UsedKept DEF LateUsed
  <2>5. StorePart'
    BY <1>i, <2>1 DEF StorePart, StoreInv, Memory!KnownIsStored, Memory!SuccessIsTrue,
                      Memory!ToldTrue, Memory!SizeIgnored, Memory!NoReport, Memory!NoData,
                      Memory!NoCommand, Memory!Unknown, Memory!Content, Memory!IsLong,
                      Memory!Block, Memory!Success
  <2>6. CipherPart'
    BY <1>i, <2>1, <2>2 DEF CipherPart, CipherInv, CipherTyped, CipherUnderway,
                            Ciphers!MixedOnlyAtEnd, Ciphers!ChunkLimit
  <2>7. HashPart'
    <3>1. NoHash => NoHash'
      BY <2>3 DEF NoHash
    <3>2. HashTyped /\ HashOwn => HashTyped' /\ HashOwn'
      BY <2>1, <2>3 DEF HashTyped, HashOwn
    <3>3. HashUnderway => HashUnderway'
      BY <2>1, <2>3 DEF HashUnderway, InStep, Exchange!NoReport, Exchange!NoData, FirstKey,
                        Hash!KeyOf, Upto, Hash!Result
    <3>4. Hash!ResultOfMessage => Hash!ResultOfMessage'
      BY <2>1, <2>3 DEF Hash!ResultOfMessage, Hash!Result, Hash!Message, Hash!KeyOf
    <3> QED
      BY <1>i, <2>1, <3>1, <3>2, <3>3, <3>4 DEF HashPart, HashInv
  <2> QED
    BY <2>4, <2>5, <2>6, <2>7 DEF IInv
<1> QED
  BY <1>1, <1>2, <1>3, <1>4 DEF Next

LEMMA IInvHolds == Spec => []IInv
BY InitIInv, StepIInv, PTL DEF Spec

(***************************************************************************)
(* As long as no transfer has failed, the host is right about every slot   *)
(* of the device's memory it has been told of, whatever commands have gone *)
(* before (put, generate, get, erase), but for the size of an HMAC key the *)
(* device has generated, which is the index (kse_ubuntu.c 1105-1106).      *)
(* After a failure the success of a command that writes is true if it has  *)
(* more than one block or leaves no report unread (969-1374, 2313-2873).   *)
(***************************************************************************)
THEOREM StoreTheorem == Spec => []KnownIsStored
<1>1. IInv => KnownIsStored
  <2> SUFFICES ASSUME StoreInv PROVE KnownIsStored
    BY DEF IInv, StorePart
  <2>1. KeyStore!KnownIsStored
    BY DEF StoreInv, Memory!KnownIsStored, KeyStore!KnownIsStored, Memory!ToldTrue,
           KeyStore!ToldTrue, Memory!SizeIgnored, KeyStore!SizeIgnored, Memory!Unknown,
           Memory!Content, KeyStore!Unknown, KeyStore!Content
  <2>2. KeyStore!SuccessIsTrue
    BY DEF StoreInv, Memory!SuccessIsTrue, KeyStore!SuccessIsTrue, Memory!Success,
           KeyStore!Success, Memory!IsLong, KeyStore!IsLong, Memory!Block, KeyStore!Block,
           Memory!ToldTrue, KeyStore!ToldTrue, Memory!SizeIgnored, KeyStore!SizeIgnored,
           Memory!NoReport, KeyStore!NoReport, Memory!NoData, KeyStore!NoData
  <2> QED
    BY <2>1, <2>2 DEF KnownIsStored
<1> QED
  BY <1>1, IInvHolds, PTL

(***************************************************************************)
(* A hash, a signature or a verification that succeeds is of the whole     *)
(* message and the right key, in however many steps, unless the call has   *)
(* taken a late answer for its own (LateTheorem: then it had one step, and *)
(* a transfer had failed); and in between the device's computation is the  *)
(* call's own and not what a call that failed has left (kse_ubuntu.c       *)
(* 2004-2229).                                                             *)
(***************************************************************************)
THEOREM HashTheorem == Spec => []ResultOfMessage
<1>1. IInv => ResultOfMessage
  <2> SUFFICES ASSUME HashInv PROVE Hash!ResultOfMessage /\ Hash!ComputationIsOwn
    BY DEF IInv, HashPart, ResultOfMessage
  <2>1. Hash!ComputationIsOwn
    BY DEF HashInv, HashUnderway, Hash!ComputationIsOwn, Hash!Result, Upto
  <2> QED
    BY <2>1 DEF HashInv
<1> QED
  BY <1>1, IInvHolds, PTL

(***************************************************************************)
(* A late answer is taken for a command's own only where both are short:   *)
(* in the last chunk of a cipher, never in a hash of several steps         *)
(* (kse_ubuntu.c 607, 1402-2229).                                          *)
(***************************************************************************)
THEOREM LateTheorem == Spec => []LateOnlyShort
<1>1. IInv => LateOnlyShort
  <2> SUFFICES ASSUME IInv PROVE Ciphers!MixedOnlyAtEnd /\ Hash!SeveralStepsOwn
    BY DEF LateOnlyShort
  <2>1. Ciphers!MixedOnlyAtEnd
    BY DEF IInv, CipherPart, CipherInv, Ciphers!MixedOnlyAtEnd
  <2>2. Hash!SeveralStepsOwn
    BY DEF IInv, HashPart, HashInv, HashOwn, NoHash, Hash!SeveralStepsOwn
  <2> QED
    BY <2>1, <2>2
<1> QED
  BY <1>1, IInvHolds, PTL

-----------------------------------------------------------------------------
(* Types and sizes.  An answer has a status and a length, and what is late *)
(* is an answer or one of three other reports.                             *)

IsAnswer(a) == a.status \in {"KSE_SUCCESS", "KSE_FAIL_STATE"} /\ a.usLen \in Nat
NoAnswers == {Exchange!NoReport, Exchange!Acknowledgement, Exchange!Fragment}
LateTyped == late \in NoAnswers \/ IsAnswer(late)
ExchangeTyped ==
  /\ power \in BOOLEAN /\ ret \in Exchange!Results /\ LateTyped
  /\ failed \in BOOLEAN /\ (failed => MayFail)

\* The two blocks an answer is mixed of when the late one has several.
IsMixed(got, own) ==
  /\ got.status = own.status
  /\ got.usLen = 60 + (IF own.usLen > 60 THEN 60 ELSE own.usLen)

\* What comes back, and what stays behind.
Brought(got, own) ==
  \/ got \in {Exchange!Without(Exchange!TransferFails), Exchange!Without(Exchange!UnexpectedResp),
              own}
  \/ got = late /\ late \notin NoAnswers
  \/ IsMixed(got, own)
Left(x, own) ==
  /\ x.late \in NoAnswers \cup {own}
  /\ x.failed = FALSE \/ (x.failed = TRUE /\ MayFail)

LEMMA EndsAre ==
  ASSUME NEW n, NEW own, NEW ok, NEW x \in Ends(n, own, ok)
  PROVE  Brought(x.got, own) /\ Left(x, own)
<1> USE DEF Brought, Left
<1> DEFINE fail == x.failed = TRUE /\ MayFail /\ x.late \in NoAnswers \cup {own}
                   /\ x.got = Exchange!Without(Exchange!TransferFails)
           own1 == x.failed = FALSE /\ x.got = own /\ x.late = Exchange!NoReport
           cut == x.failed = FALSE /\ x.late \in NoAnswers \cup {own}
                  /\ x.got = Exchange!Without(Exchange!UnexpectedResp)
           short == x.failed = FALSE /\ x.late = own /\ x.got = late /\ late \notin NoAnswers
           mixed == x.failed = FALSE /\ x.late \in NoAnswers /\ IsMixed(x.got, own)
<1>1. CASE InStep
  <2>1. fail \/ own1
    BY <1>1 DEF Ends, Exchange!Exchanges, InStep, NoAnswers
  <2> QED BY <2>1 DEF NoAnswers
<1>2. CASE ~InStep /\ Exchange!IsLong(n)
  <2>1. fail \/ cut
    BY <1>2 DEF Ends, Exchange!Exchanges, InStep, NoAnswers
  <2> QED BY <2>1 DEF NoAnswers
<1>3. CASE ~InStep /\ ~Exchange!IsLong(n)
  <2>1. fail \/ cut \/ short \/ mixed
    <3>1. CASE late \in {Exchange!Acknowledgement, Exchange!Fragment}
      BY <1>3, <3>1 DEF Ends, Exchange!Exchanges, InStep, NoAnswers
    <3>2. CASE late \notin NoAnswers /\ Exchange!IsLong(late.usLen)
      BY <1>3, <3>2 DEF Ends, Exchange!Exchanges, InStep, NoAnswers, IsMixed, Exchange!IsLong,
                        Exchange!Block
    <3>3. CASE late \notin NoAnswers /\ ~Exchange!IsLong(late.usLen)
      BY <1>3, <3>3 DEF Ends, Exchange!Exchanges, InStep, NoAnswers
    <3> QED BY <1>3, <3>1, <3>2, <3>3 DEF InStep, NoAnswers
  <2> QED BY <2>1 DEF NoAnswers
<1> QED
  BY <1>1, <1>2, <1>3

\* So the result is one of the library's, and what stays is typed.
LEMMA TypesKept ==
  ASSUME LateTyped, failed \in BOOLEAN, failed => MayFail,
         NEW n, NEW own, NEW ok, NEW lens, NEW x \in Ends(n, own, ok), IsAnswer(own), LateStep(x)
  PROVE  /\ ResultFor(x.got, lens) \in Exchange!Results
         /\ LateTyped' /\ failed' \in BOOLEAN /\ (failed' => MayFail)
         /\ ResultFor(x.got, lens) = "KSE_SUCCESS" => IsAnswer(x.got)
<1>0. Left(x, own) /\ Brought(x.got, own)
  BY EndsAre
<1>1. /\ x.late \in NoAnswers \cup {own}
      /\ x.failed = FALSE \/ (x.failed = TRUE /\ MayFail)
  BY <1>0 DEF Left
<1>2. LateTyped'
  <2>1. \A a : IsAnswer(a)' <=> IsAnswer(a)
    BY DEF IsAnswer
  <2>2. NoAnswers' = NoAnswers
    BY DEF NoAnswers, Exchange!NoReport, Exchange!Acknowledgement, Exchange!Fragment,
           Exchange!NoData
  <2> QED BY <1>1, <2>1, <2>2 DEF LateTyped, LateStep
<1>3. failed' \in BOOLEAN /\ (failed' => MayFail)
  BY <1>1 DEF LateStep
<1>4. \/ x.got \in {Exchange!Without(Exchange!TransferFails),
                    Exchange!Without(Exchange!UnexpectedResp)}
      \/ IsAnswer(x.got)
  <2>1. IsMixed(x.got, own) => IsAnswer(x.got)
    BY DEF IsMixed, IsAnswer
  <2>2. late \notin NoAnswers => IsAnswer(late)
    BY DEF LateTyped
  <2> QED BY <1>0, <2>1, <2>2 DEF Brought
<1>5. x.got.status \in {"KSE_SUCCESS", "KSE_FAIL_STATE", Exchange!TransferFails,
                        Exchange!UnexpectedResp}
  BY <1>4 DEF IsAnswer, Exchange!Without
<1>6. ResultFor(x.got, lens) \in Exchange!Results
  BY <1>5 DEF ResultFor, Exchange!StatusOf, Exchange!Results, Exchange!TransferFails,
              Exchange!UnexpectedResp, Exchange!UnexpectedLen, Exchange!Success, Exchange!Refused
<1>7. ResultFor(x.got, lens) = "KSE_SUCCESS" => IsAnswer(x.got)
  BY <1>4, SuccessMeans
<1> QED BY <1>2, <1>3, <1>6, <1>7

\* The results of the checks a command begins with.
LEMMA GuardedIs ==
  ASSUME NEW ok
  PROVE  /\ Memory!Guarded(ok) \in Exchange!Results
         /\ Memory!Guarded(ok) = "KSE_SUCCESS" => ok
BY DEF Memory!Guarded, Memory!NotPoweredOn, Memory!WrongInput, Memory!Success, Exchange!Results,
       Exchange!NotPoweredOn, Exchange!WrongInput, Exchange!Success

\* The memory, when C[s] is the set of contents slot s may have.
Sized(C) ==
  /\ DOMAIN store = DOMAIN C /\ DOMAIN told = DOMAIN C
  /\ \A s \in DOMAIN C : store[s] \in C[s]
NoOverrun == last.copied <= last.room

\* A command that writes contents of the right size, and one that reads.
SizedWrite(C) ==
  \E ok, n, new, asked :
    /\ Memory!Store(ok, n, new, asked) /\ DOMAIN asked = DOMAIN new
    /\ ok => DOMAIN new \subseteq DOMAIN C /\ \A s \in DOMAIN new : new[s] \in C[s]
SizedRead(C) ==
  \E ok, n, lens, answers, array, slots :
    /\ Memory!Fetch(ok, n, lens, answers, array, slots)
    /\ slots \subseteq DOMAIN C /\ array \in Nat /\ \A a \in answers : IsAnswer(a)

LEMMA WriteSized ==
  ASSUME NEW CONSTANT C, ExchangeTyped, Sized(C), SizedWrite(C)
  PROVE  ExchangeTyped' /\ Sized(C)' /\ NoOverrun'
<1>1. PICK ok, n, new, asked :
        /\ Memory!Store(ok, n, new, asked) /\ DOMAIN asked = DOMAIN new
        /\ ok => DOMAIN new \subseteq DOMAIN C /\ \A s \in DOMAIN new : new[s] \in C[s]
  BY DEF SizedWrite
<1>2. CASE Memory!Guarded(ok) # "KSE_SUCCESS"
  <2>1. /\ ret' = Memory!Guarded(ok) /\ last' = Memory!NoCommand
        /\ UNCHANGED <<power, late, failed, store, told>>
    BY <1>1, <1>2 DEF Memory!Store, Memory!NoExchange, Memory!exchangeVars, Memory!Success
  <2>2. ExchangeTyped'
    BY <2>1, GuardedIs DEF ExchangeTyped, LateTyped, IsAnswer, NoAnswers, Exchange!Results
  <2> QED
    BY <2>1, <2>2 DEF Sized, NoOverrun, Memory!NoCommand
<1>3. CASE Memory!Guarded(ok) = "KSE_SUCCESS"
  <2> DEFINE own(carried) == IF carried THEN Memory!Done ELSE Memory!Refusal
             Effect(carried, x) ==
               /\ LateStep(x) /\ power' = power
               /\ store' = IF carried THEN Memory!Over(new, store) ELSE store
               /\ ret' = ResultFor(x.got, {2})
               /\ DOMAIN told' = DOMAIN new \cup DOMAIN told
               /\ last'.copied = 0 /\ last'.room = 0
  <2>1. PICK carried \in BOOLEAN : \E x \in Ends(n, own(carried), carried) : Effect(carried, x)
    <3> DEFINE Unknowns == [s \in DOMAIN asked |-> Memory!Unknown]
    <3>1. PICK carried \in BOOLEAN :
            \E x \in Memory!Exchanges(n, own(carried), carried) :
              /\ Memory!ExchangeWith(x)
              /\ store' = IF carried THEN Memory!Over(new, store) ELSE store
              /\ ret' = Memory!StatusOf(x.got, {2})
              /\ told' = Memory!Over(IF ret' = "KSE_SUCCESS" THEN asked ELSE Unknowns, told)
              /\ last' = [n |-> n, slots |-> DOMAIN new, room |-> 0, copied |-> 0]
      BY <1>1, <1>3 DEF Memory!Store, Memory!Success
    <3> HIDE DEF Unknowns
    <3>2. DOMAIN told' = DOMAIN new \cup DOMAIN told
      BY <1>1, <3>1 DEF Memory!Over, Unknowns
    <3> QED BY <3>1, <3>2, SameInMemory DEF Memory!ExchangeWith, LateStep
  <2>2. PICK x \in Ends(n, own(carried), carried) : Effect(carried, x)
    BY <2>1
  <2>3. IsAnswer(own(carried))
    BY DEF IsAnswer, Memory!Done, Memory!Answer, Memory!Refusal, Memory!Success, Memory!Refused
  <2>4. ExchangeTyped'
    <3> HIDE DEF own
    <3> QED BY <2>2, <2>3, TypesKept DEF ExchangeTyped
  <2>5. DOMAIN new \subseteq DOMAIN C /\ \A s \in DOMAIN new : new[s] \in C[s]
    BY <1>1, <1>3, GuardedIs
  <2>6. Sized(C)'
    BY <2>2, <2>5 DEF Sized, Memory!Over
  <2> QED
    BY <2>2, <2>4, <2>6 DEF NoOverrun
<1> QED
  BY <1>2, <1>3

LEMMA ReadSized ==
  ASSUME NEW CONSTANT C, ExchangeTyped, Sized(C), SizedRead(C)
  PROVE  ExchangeTyped' /\ Sized(C)' /\ NoOverrun'
<1>1. PICK ok, n, lens, answers, array, slots :
        /\ Memory!Fetch(ok, n, lens, answers, array, slots)
        /\ slots \subseteq DOMAIN C /\ array \in Nat /\ \A a \in answers : IsAnswer(a)
  BY DEF SizedRead
<1>2. CASE Memory!Guarded(ok) # "KSE_SUCCESS"
  <2>1. /\ ret' = Memory!Guarded(ok) /\ last' = Memory!NoCommand
        /\ UNCHANGED <<power, late, failed, store, told>>
    BY <1>1, <1>2 DEF Memory!Fetch, Memory!NoExchange, Memory!exchangeVars, Memory!Success
  <2>2. ExchangeTyped'
    BY <2>1, GuardedIs DEF ExchangeTyped, LateTyped, IsAnswer, NoAnswers, Exchange!Results
  <2> QED
    BY <2>1, <2>2 DEF Sized, NoOverrun, Memory!NoCommand
<1>3. CASE Memory!Guarded(ok) = "KSE_SUCCESS"
  <2> DEFINE Effect(x) ==
               /\ LateStep(x) /\ power' = power /\ store' = store
               /\ ret' = ResultFor(x.got, lens)
               /\ DOMAIN told' = DOMAIN told \/ DOMAIN told' = slots \cup DOMAIN told
               /\ last'.copied = (IF ret' = "KSE_SUCCESS"
                                  THEN Memory!Copied(x.got.usLen - 2, array) ELSE 0)
               /\ last'.room = array
             Heard(x) == [s \in slots |-> IF s \in DOMAIN x.got.data THEN x.got.data[s]
                                          ELSE Memory!Other]
  <2>1. PICK own \in answers \cup {Memory!Refusal} : \E x \in Ends(n, own, FALSE) : Effect(x)
    <3>1. PICK own \in answers \cup {Memory!Refusal} :
          \E x \in Memory!Exchanges(n, own, FALSE) :
            /\ Memory!ExchangeWith(x) /\ store' = store
            /\ ret' = Memory!StatusOf(x.got, lens)
            /\ told' = IF ret' = "KSE_SUCCESS" THEN Memory!Over(Heard(x), told) ELSE told
            /\ last' = [n |-> n, slots |-> {}, room |-> array,
                        copied |-> IF ret' = "KSE_SUCCESS"
                                   THEN Memory!Copied(x.got.usLen - 2, array) ELSE 0]
      BY <1>1, <1>3 DEF Memory!Fetch, Memory!Success
    <3>2. PICK x \in Memory!Exchanges(n, own, FALSE) :
            /\ Memory!ExchangeWith(x) /\ store' = store
            /\ ret' = Memory!StatusOf(x.got, lens)
            /\ told' = IF ret' = "KSE_SUCCESS" THEN Memory!Over(Heard(x), told) ELSE told
            /\ last' = [n |-> n, slots |-> {}, room |-> array,
                        copied |-> IF ret' = "KSE_SUCCESS"
                                   THEN Memory!Copied(x.got.usLen - 2, array) ELSE 0]
      BY <3>1
    <3>3. DOMAIN told' = DOMAIN told \/ DOMAIN told' = slots \cup DOMAIN told
      <4>1. DOMAIN Memory!Over(Heard(x), told) = slots \cup DOMAIN told
        BY DEF Memory!Over
      <4> HIDE DEF Heard
      <4> QED BY <3>2, <4>1
    <3> HIDE DEF Heard
    <3>4. LateStep(x) /\ power' = power
      BY <3>2 DEF Memory!ExchangeWith, LateStep
    <3>5. Effect(x) /\ x \in Ends(n, own, FALSE)
      BY <3>2, <3>3, <3>4, SameInMemory
    <3> HIDE DEF Effect
    <3> QED BY <3>5
  <2>2. PICK x \in Ends(n, own, FALSE) : Effect(x)
    BY <2>1
  <2>3. IsAnswer(own)
    BY <1>1, <2>1 DEF IsAnswer, Memory!Refusal, Memory!Refused
  <2>4. ExchangeTyped' /\ (ret' = "KSE_SUCCESS" => IsAnswer(x.got))
    BY <2>2, <2>3, TypesKept DEF ExchangeTyped
  <2>5. Sized(C)'
    BY <1>1, <2>2 DEF Sized
  <2>6. NoOverrun'
    <3>1. CASE ret' # "KSE_SUCCESS"
      BY <1>1, <2>2, <3>1 DEF NoOverrun
    <3>2. CASE ret' = "KSE_SUCCESS"
      BY <1>1, <2>2, <2>4, <3>2 DEF NoOverrun, Memory!Copied, IsAnswer
    <3> QED BY <3>1, <3>2
  <2> QED
    BY <2>4, <2>5, <2>6
<1> QED
  BY <1>2, <1>3

\* What a slot of the key memory may hold, for the certificates and for the
\* file.
KeyContents ==
  [s \in KeyStore!Slots |->
     {Memory!Empty}
       \cup {Memory!Content(n, v) : n \in KeyStore!SizesOf(s[1]),
                                     v \in KeyValues \cup {"GENERATED"}}
       \cup (IF s[1] = "HMAC" THEN {Memory!Content(s[2], Memory!SizeIgnored)} ELSE {})]
SizeIn(kind) == CASE kind = "PRI" -> 32 [] kind = "PUB" -> 64 [] kind = "CERT" -> 500 [] OTHER -> 0
CertContents ==
  [s \in CertStore!Slots |->
     {Memory!Empty} \cup {Memory!Content(SizeIn(s[1]), v) : v \in CertValues \cup {"GENERATED"}}]
FileContents ==
  [s \in InfoFile!Slots |->
     {Memory!Empty} \cup {Memory!Content(SizeIn(s[1]), v) : v \in FileValues \cup {"GENERATED"}}]

\* The slots a type of key stands for.
LEMMA KeySlots ==
  ASSUME NEW type, NEW i, NEW s \in KeyStore!SlotsOf(type, i)
  PROVE  /\ s \in KeyStore!Slots /\ s[2] = i /\ i \in KeyIndices
         /\ type \notin KeyStore!Pairs => s[1] = type
         /\ type \in KeyStore!Pairs => s[1] \in KeyStore!Private \cup KeyStore!Public
BY DEF KeyStore!SlotsOf, KeyStore!Slots, KeyStore!Pairs, KeyStore!Private, KeyStore!Public

LEMMA KeySizes ==
  ASSUME NEW type
  PROVE  /\ KeyStore!SizesOf(type) \subseteq Nat
         /\ type \in KeyStore!Cipher \cup KeyStore!Private \cup KeyStore!Public =>
              KeyStore!Min(KeyStore!SizesOf(type)) \in KeyStore!SizesOf(type)
<1>1. KeyStore!SizesOf(type) \subseteq Nat
  BY DEF KeyStore!SizesOf
<1>2. ASSUME NEW n \in Nat, KeyStore!SizesOf(type) = {n}
      PROVE  KeyStore!Min(KeyStore!SizesOf(type)) \in KeyStore!SizesOf(type)
  BY <1>2 DEF KeyStore!Min
<1>3. CASE type \in KeyStore!Cipher \cup KeyStore!Private \cup KeyStore!Public
  <2>1. \/ KeyStore!SizesOf(type) = {16} \/ KeyStore!SizesOf(type) = {24}
        \/ KeyStore!SizesOf(type) = {32} \/ KeyStore!SizesOf(type) = {64}
    BY <1>3 DEF KeyStore!SizesOf, KeyStore!Cipher, KeyStore!Private, KeyStore!Public
  <2> QED BY <1>2, <2>1
<1> QED BY <1>1, <1>3

\* A content of one of these sizes.
LEMMA KeyContent ==
  ASSUME NEW s \in KeyStore!Slots
  PROVE  /\ Memory!Empty \in KeyContents[s]
         /\ \A n \in KeyStore!SizesOf(s[1]), v \in KeyValues \cup {"GENERATED"} :
              Memory!Content(n, v) \in KeyContents[s]
         /\ s[1] = "HMAC" => Memory!Content(s[2], Memory!SizeIgnored) \in KeyContents[s]
         /\ \A c \in KeyContents[s] :
              /\ c.size \in Nat
              /\ c = Memory!Empty \/ c.size \in KeyStore!SizesOf(s[1])
                   \/ (s[1] = "HMAC" /\ c = Memory!Content(s[2], Memory!SizeIgnored))
<1>1. KeyContents[s] =
        {Memory!Empty}
          \cup {Memory!Content(n, v) : n \in KeyStore!SizesOf(s[1]),
                                       v \in KeyValues \cup {"GENERATED"}}
          \cup (IF s[1] = "HMAC" THEN {Memory!Content(s[2], Memory!SizeIgnored)} ELSE {})
  BY DEF KeyContents
<1>2. /\ Memory!Empty \in KeyContents[s]
      /\ \A n \in KeyStore!SizesOf(s[1]), v \in KeyValues \cup {"GENERATED"} :
           Memory!Content(n, v) \in KeyContents[s]
      /\ s[1] = "HMAC" => Memory!Content(s[2], Memory!SizeIgnored) \in KeyContents[s]
  BY <1>1
<1>3. ASSUME NEW c \in KeyContents[s]
      PROVE  /\ c.size \in Nat
             /\ c = Memory!Empty \/ c.size \in KeyStore!SizesOf(s[1])
                  \/ (s[1] = "HMAC" /\ c = Memory!Content(s[2], Memory!SizeIgnored))
  <2>1. CASE c = Memory!Empty
    BY <2>1 DEF Memory!Empty, Memory!Content
  <2>2. ASSUME NEW n \in KeyStore!SizesOf(s[1]), NEW v, c = Memory!Content(n, v)
        PROVE  c.size \in Nat /\ c.size \in KeyStore!SizesOf(s[1])
    BY <2>2, KeySizes DEF Memory!Content
  <2>3. CASE s[1] = "HMAC" /\ c = Memory!Content(s[2], Memory!SizeIgnored)
    <3>1. s[2] \in Nat
      BY MCKseAssumption DEF KeyStore!Slots
    <3> QED BY <2>3, <3>1 DEF Memory!Content
  <2> QED BY <1>1, <1>3, <2>1, <2>2, <2>3
<1> QED BY <1>2, <1>3

LEMMA KeySized ==
  ASSUME KeyStore!Next, Sized(KeyContents)
  PROVE  SizedWrite(KeyContents) \/ SizedRead(KeyContents)
<1> DEFINE slots(type, i) == KeyStore!SlotsOf(type, i)
<1>0. DOMAIN KeyContents = KeyStore!Slots
  BY DEF KeyContents
<1>1. ASSUME NEW ok, NEW n, NEW new, NEW asked, KeyStore!Store(ok, n, new, asked),
             DOMAIN asked = DOMAIN new,
             ok => /\ DOMAIN new \subseteq KeyStore!Slots
                   /\ \A s \in DOMAIN new : new[s] \in KeyContents[s]
      PROVE  SizedWrite(KeyContents)
  BY <1>0, <1>1, SameStore DEF SizedWrite
<1>2. ASSUME NEW ok, NEW n, NEW lens, NEW answers, NEW array \in Nat,
             NEW to \in SUBSET KeyStore!Slots,
             KeyStore!Fetch(ok, n, lens, answers, array, to), \A a \in answers : IsAnswer(a)
      PROVE  SizedRead(KeyContents)
  BY <1>0, <1>2, SameFetch DEF SizedRead
<1>3. CASE KeyStore!GenerateKey
  <2> DEFINE Made(type, i, m) ==
        [s \in slots(type, i) |->
           IF type = "HMAC" THEN KeyStore!Content(m, KeyStore!SizeIgnored)
           ELSE KeyStore!Content(KeyStore!Min(KeyStore!SizesOf(s[1])), KeyStore!Generated)]
             ok(type, i, n) ==
        /\ type \in KeyStore!Cipher \cup {"HMAC"} \cup KeyStore!Pairs
        /\ i < KeyStore!MAX_KCMVP_KEY_COUNT
        /\ type = "HMAC" => n <= 255
             bytes(type) == IF type = "HMAC" THEN 7 ELSE 5
  <2>1. PICK type \in KeyKinds, i \in KeyIndices, n \in HmacSizes :
          KeyStore!Store(ok(type, i, n), bytes(type), Made(type, i, i), Made(type, i, n))
    BY <1>3 DEF KeyStore!GenerateKey
  <2>2. ASSUME ok(type, i, n)
        PROVE  /\ DOMAIN Made(type, i, i) \subseteq KeyStore!Slots
               /\ \A s \in DOMAIN Made(type, i, i) : Made(type, i, i)[s] \in KeyContents[s]
    <3>1. DOMAIN Made(type, i, i) \subseteq KeyStore!Slots
      BY KeySlots
    <3>2. ASSUME NEW s \in slots(type, i) PROVE Made(type, i, i)[s] \in KeyContents[s]
      <4>1. s \in KeyStore!Slots /\ s[2] = i
        BY KeySlots
      <4>2. CASE type = "HMAC"
        <5>1. s[1] = "HMAC"
          BY <4>2, KeySlots DEF KeyStore!Pairs
        <5>2. Memory!Content(s[2], Memory!SizeIgnored) \in KeyContents[s]
          BY <4>1, <5>1, KeyContent
        <5> QED BY <4>1, <4>2, <5>2 DEF KeyStore!Content, Memory!Content, KeyStore!SizeIgnored,
                                         Memory!SizeIgnored
      <4>3. CASE type # "HMAC"
        <5>1. s[1] \in KeyStore!Cipher \cup KeyStore!Private \cup KeyStore!Public
          <6>1. type \in KeyStore!Cipher \cup KeyStore!Pairs
            BY <2>2, <4>3
          <6>2. CASE type \in KeyStore!Pairs
            BY <6>2, KeySlots
          <6>3. CASE type \in KeyStore!Cipher /\ type \notin KeyStore!Pairs
            BY <6>3, KeySlots
          <6> QED BY <6>1, <6>2, <6>3
        <5>2. KeyStore!Min(KeyStore!SizesOf(s[1])) \in KeyStore!SizesOf(s[1])
          BY <5>1, KeySizes
        <5>3. Memory!Content(KeyStore!Min(KeyStore!SizesOf(s[1])), "GENERATED") \in KeyContents[s]
          BY <4>1, <5>2, KeyContent
        <5> QED BY <4>3, <5>3 DEF KeyStore!Content, Memory!Content, KeyStore!Generated
      <4> QED BY <4>2, <4>3
    <3> QED BY <3>1, <3>2
  <2>3. DOMAIN Made(type, i, n) = DOMAIN Made(type, i, i)
    OBVIOUS
  <2> HIDE DEF Made, ok, bytes
  <2> QED BY <1>1, <2>1, <2>2, <2>3
<1>4. CASE KeyStore!PutKey
  <2> DEFINE new(type, i, n, v) == [s \in slots(type, i) |-> KeyStore!Content(n, v)]
             ok(type, i, n) == /\ type \notin KeyStore!Pairs
                               /\ i < KeyStore!MAX_KCMVP_KEY_COUNT
                               /\ n \in KeyStore!SizesOf(type)
             bytes(type, n) == n + (IF type = "HMAC" THEN 7 ELSE 5)
  <2>1. PICK type \in KeyKinds, i \in KeyIndices, n \in KeyStore!SizesPut, v \in KeyValues :
          KeyStore!Store(ok(type, i, n), bytes(type, n), new(type, i, n, v), new(type, i, n, v))
    BY <1>4 DEF KeyStore!PutKey
  <2>2. ASSUME ok(type, i, n)
        PROVE  /\ DOMAIN new(type, i, n, v) \subseteq KeyStore!Slots
               /\ \A s \in DOMAIN new(type, i, n, v) : new(type, i, n, v)[s] \in KeyContents[s]
    <3>1. DOMAIN new(type, i, n, v) \subseteq KeyStore!Slots
      BY KeySlots
    <3>2. ASSUME NEW s \in slots(type, i) PROVE new(type, i, n, v)[s] \in KeyContents[s]
      <4>1. s \in KeyStore!Slots /\ s[1] = type
        BY <2>2, KeySlots
      <4>2. Memory!Content(n, v) \in KeyContents[s]
        BY <2>2, <4>1, KeyContent
      <4> QED BY <4>2 DEF KeyStore!Content, Memory!Content
    <3> QED BY <3>1, <3>2
  <2> HIDE DEF new, ok, bytes
  <2> QED BY <1>1, <2>1, <2>2
<1>5. CASE KeyStore!EraseKey
  <2> DEFINE new(type, i) == [s \in slots(type, i) |-> KeyStore!Empty]
             ok(type, i) == type \notin KeyStore!Pairs /\ i < KeyStore!MAX_KCMVP_KEY_COUNT
  <2>1. PICK type \in KeyKinds, i \in KeyIndices :
          KeyStore!Store(ok(type, i), 5, new(type, i), new(type, i))
    BY <1>5 DEF KeyStore!EraseKey
  <2>2. /\ DOMAIN new(type, i) \subseteq KeyStore!Slots
        /\ \A s \in DOMAIN new(type, i) : new(type, i)[s] \in KeyContents[s]
    <3>1. KeyStore!Empty = Memory!Empty
      BY DEF KeyStore!Empty, KeyStore!Content, Memory!Empty, Memory!Content
    <3>2. ASSUME NEW s \in slots(type, i)
          PROVE  s \in KeyStore!Slots /\ new(type, i)[s] \in KeyContents[s]
      BY <3>1, KeySlots, KeyContent
    <3> QED BY <3>2
  <2> HIDE DEF new, ok
  <2> QED BY <1>1, <2>1, <2>2
<1>6. CASE KeyStore!GetKey
  <2> DEFINE answers(type, i) ==
        {KeyStore!Answer(store[s].size, [t \in {s} |-> store[t]]) :
           s \in {t \in slots(type, i) : store[t] # KeyStore!Empty}}
             ok(type, i) == type \notin KeyStore!Pairs /\ i < KeyStore!MAX_KCMVP_KEY_COUNT
  <2>1. PICK type \in KeyKinds, i \in KeyIndices, array \in Rooms :
          KeyStore!Fetch(ok(type, i), 5, KeyStore!GetKeyLens(type), answers(type, i), array,
                         slots(type, i))
    BY <1>6 DEF KeyStore!GetKey
  <2>2. array \in Nat
    BY MCKseAssumption
  <2>3. ASSUME NEW a \in answers(type, i) PROVE IsAnswer(a)
    <3>1. PICK s \in slots(type, i) :
            a = KeyStore!Answer(store[s].size, [t \in {s} |-> store[t]])
      OBVIOUS
    <3>2. s \in KeyStore!Slots
      BY KeySlots
    <3>3. store[s] \in KeyContents[s]
      BY <1>0, <3>2 DEF Sized
    <3>4. store[s].size \in Nat
      BY <3>2, <3>3, KeyContent
    <3> QED BY <3>1, <3>4 DEF IsAnswer, KeyStore!Answer, KeyStore!Success
  <2>4. slots(type, i) \in SUBSET KeyStore!Slots
    BY KeySlots
  <2> HIDE DEF answers, ok, slots
  <2> QED BY <1>2, <2>1, <2>2, <2>3, <2>4
<1>7. ASSUME NEW ok, NEW n, NEW size \in Nat,
             KeyStore!FetchExactly(ok, n, size, {KeyStore!Answer(size, KeyStore!NoData)}, {})
      PROVE  SizedRead(KeyContents)
  <2>1. IsAnswer(KeyStore!Answer(size, KeyStore!NoData))
    BY DEF IsAnswer, KeyStore!Answer, KeyStore!Success
  <2> DEFINE own == {KeyStore!Answer(size, KeyStore!NoData)}
  <2>2. /\ KeyStore!Fetch(ok, n, {size + 2}, own, size, {})
        /\ \A a \in own : IsAnswer(a)
    BY <1>7, <2>1 DEF KeyStore!FetchExactly
  <2> HIDE DEF own
  <2> QED BY <1>2, <2>2
<1>8. CASE KeyStore!Drbg
  <2> DEFINE ok(n) == n # 0 /\ n <= 256
  <2>1. PICK n \in {0, 1, 256, 257} :
          KeyStore!FetchExactly(ok(n), 4, n, {KeyStore!Answer(n, KeyStore!NoData)}, {})
    BY <1>8 DEF KeyStore!Drbg
  <2> HIDE DEF ok
  <2> QED BY <1>7, <2>1
<1>9. CASE KeyStore!EcdhExchKey
  BY <1>7, <1>9 DEF KeyStore!EcdhExchKey
<1>10. CASE KeyStore!GetClibState
  BY <1>7, <1>10 DEF KeyStore!GetClibState
<1> QED
  BY <1>3, <1>4, <1>5, <1>6, <1>8, <1>9, <1>10 DEF KeyStore!Next

LEMMA CertContent ==
  ASSUME NEW s \in CertStore!Slots
  PROVE  /\ Memory!Empty \in CertContents[s]
         /\ \A v \in CertValues \cup {"GENERATED"} :
              Memory!Content(SizeIn(s[1]), v) \in CertContents[s]
         /\ \A c \in CertContents[s] :
              \/ c = Memory!Empty
              \/ c.value \in CertValues \cup {"GENERATED"} /\ c.size = SizeIn(s[1])
<1>1. CertContents[s] =
        {Memory!Empty} \cup {Memory!Content(SizeIn(s[1]), v) : v \in CertValues \cup {"GENERATED"}}
  BY DEF CertContents
<1> QED BY <1>1 DEF Memory!Content

\* What is to be stored has the sizes of its slots.
CertRight(new) ==
  /\ DOMAIN new \subseteq CertStore!Slots
  /\ \A s \in DOMAIN new : new[s] \in CertContents[s]

LEMMA CertAll ==
  ASSUME NEW kind, NEW slots, \A s \in slots : s[1] = kind, NEW v \in CertValues \cup {"GENERATED"}
  PROVE  CertRight(CertStore!All(slots, SizeIn(kind), v))
<1> DEFINE n == SizeIn(kind)
<1>1. CertStore!All(slots, n, v) = [s \in slots \cap CertStore!Slots |-> Memory!Content(n, v)]
  BY DEF CertStore!All, CertStore!Content, Memory!Content
<1>2. ASSUME NEW s \in slots \cap CertStore!Slots PROVE Memory!Content(n, v) \in CertContents[s]
  BY CertContent
<1> HIDE DEF n
<1>3. CertRight(CertStore!All(slots, n, v))
  BY <1>1, <1>2 DEF CertRight
<1> QED BY <1>3 DEF n

LEMMA CertPri ==
  ASSUME NEW i, NEW v \in CertValues \cup {"GENERATED"}
  PROVE  CertRight(CertStore!All({CertStore!Pri(i)}, 32, v))
<1>1. \A s \in {CertStore!Pri(i)} : s[1] = "PRI"
  BY DEF CertStore!Pri
<1>2. CertRight(CertStore!All({CertStore!Pri(i)}, SizeIn("PRI"), v))
  BY <1>1, CertAll
<1> QED BY <1>2 DEF SizeIn

LEMMA CertPub ==
  ASSUME NEW i, NEW v \in CertValues \cup {"GENERATED"}
  PROVE  CertRight(CertStore!All({CertStore!Pub(i)}, 64, v))
<1>1. \A s \in {CertStore!Pub(i)} : s[1] = "PUB"
  BY DEF CertStore!Pub
<1>2. CertRight(CertStore!All({CertStore!Pub(i)}, SizeIn("PUB"), v))
  BY <1>1, CertAll
<1> QED BY <1>2 DEF SizeIn

LEMMA CertCert ==
  ASSUME NEW i, NEW v \in CertValues \cup {"GENERATED"}
  PROVE  CertRight(CertStore!All({CertStore!Cert(i)}, 500, v))
<1>1. \A s \in {CertStore!Cert(i)} : s[1] = "CERT"
  BY DEF CertStore!Cert
<1>2. CertRight(CertStore!All({CertStore!Cert(i)}, SizeIn("CERT"), v))
  BY <1>1, CertAll
<1> QED BY <1>2 DEF SizeIn

LEMMA CertSized ==
  ASSUME CertStore!Next
  PROVE  SizedWrite(CertContents) \/ SizedRead(CertContents)
<1>0. DOMAIN CertContents = CertStore!Slots
  BY DEF CertContents
<1>1. ASSUME NEW ok, NEW n, NEW new, CertStore!Store(ok, n, new, new), CertRight(new)
      PROVE  SizedWrite(CertContents)
  BY <1>0, <1>1, SameStore DEF SizedWrite, CertRight
<1>2. ASSUME NEW ok, NEW n, NEW lens, NEW answers, NEW array \in Nat,
             NEW to \in SUBSET CertStore!Slots, CertStore!Fetch(ok, n, lens, answers, array, to),
             \A a \in answers : IsAnswer(a)
      PROVE  SizedRead(CertContents)
  BY <1>0, <1>2, SameFetch DEF SizedRead
<1>4. ASSUME NEW f, NEW g, CertRight(f), CertRight(g)
      PROVE  CertRight(CertStore!Over(f, g))
  BY <1>4 DEF CertStore!Over, CertRight
<1>5. ASSUME NEW S
      PROVE  CertRight([s \in S \cap CertStore!Slots |-> CertStore!Empty])
  BY CertContent DEF CertStore!Empty, CertStore!Content, Memory!Empty, Memory!Content, CertRight
<1>6. ASSUME NEW ok, NEW n, NEW size \in Nat, NEW answers, \A a \in answers : IsAnswer(a),
             NEW to \in SUBSET CertStore!Slots, CertStore!FetchExactly(ok, n, size, answers, to)
      PROVE  SizedRead(CertContents)
  BY <1>2, <1>6 DEF CertStore!FetchExactly
<1>7. ASSUME NEW n \in Nat, NEW d PROVE IsAnswer(CertStore!Answer(n, d))
  BY DEF IsAnswer, CertStore!Answer, CertStore!Success
<1>8. CASE CertStore!GenerateKeypair
  <2> DEFINE new(i) == CertStore!Over(CertStore!All({CertStore!Pri(i)}, 32, "GENERATED"),
                                CertStore!All({CertStore!Pub(i)}, 64, "GENERATED"))
             ok(type, i) == type \in CertStore!Internal /\ CertStore!InRange(i)
  <2>1. PICK type \in CertStore!KeyTypes, i \in CertIndices :
          CertStore!Store(ok(type, i), 5, new(i), new(i))
    BY <1>8 DEF CertStore!GenerateKeypair
  <2>2. CertRight(new(i))
    <3>1. CertRight(CertStore!All({CertStore!Pri(i)}, 32, "GENERATED"))
      BY CertPri
    <3>2. CertRight(CertStore!All({CertStore!Pub(i)}, 64, "GENERATED"))
      BY CertPub
    <3> QED BY <1>4, <3>1, <3>2
  <2> HIDE DEF new, ok
  <2> QED BY <1>1, <2>1, <2>2
<1>9. CASE CertStore!PutPriKey
  <2> DEFINE new(i, v) == CertStore!All({CertStore!Pri(i)}, 32, v)
             ok(type, i) == type \in CertStore!External /\ CertStore!InRange(i)
  <2>1. PICK type \in CertStore!KeyTypes, i \in CertIndices, v \in CertValues :
          CertStore!Store(ok(type, i), 37, new(i, v), new(i, v))
    BY <1>9 DEF CertStore!PutPriKey
  <2>2. CertRight(new(i, v))
    BY CertPri
  <2> HIDE DEF new, ok
  <2> QED BY <1>1, <2>1, <2>2
<1>10. CASE CertStore!PutPubKey
  <2> DEFINE new(i, v) == CertStore!All({CertStore!Pub(i)}, 64, v)
             ok(type, i) ==
               type \in CertStore!External \cup {"EXT_CA_ECDSA"} /\ CertStore!InRange(i)
  <2>1. PICK type \in CertStore!KeyTypes, i \in CertIndices, v \in CertValues :
          CertStore!Store(ok(type, i), 69, new(i, v), new(i, v))
    BY <1>10 DEF CertStore!PutPubKey
  <2>2. CertRight(new(i, v))
    BY CertPub
  <2> HIDE DEF new, ok
  <2> QED BY <1>1, <2>1, <2>2
<1>11. CASE CertStore!PutCert
  <2> DEFINE new(i, v) == CertStore!All({CertStore!Cert(i)}, 500, v)
             ok(i) == CertStore!InRange(i)
  <2>1. PICK i \in CertIndices, v \in CertValues : CertStore!Store(ok(i), 504, new(i, v), new(i, v))
    BY <1>11 DEF CertStore!PutCert
  <2>2. CertRight(new(i, v))
    BY CertCert
  <2> HIDE DEF new, ok
  <2> QED BY <1>1, <2>1, <2>2
<1>12. CASE CertStore!PutCertPubKey
  <2> DEFINE new(i, v) == CertStore!Over(CertStore!All({CertStore!Cert(i)}, 500, v),
                                   CertStore!All({CertStore!Pub(i)}, 64, v))
             ok(i, ca) == CertStore!InRange(i) /\ CertStore!InRange(ca)
  <2>1. PICK i, ca \in CertIndices, v \in CertValues :
          CertStore!Store(ok(i, ca), 506, new(i, v), new(i, v))
    BY <1>12 DEF CertStore!PutCertPubKey
  <2>2. CertRight(new(i, v))
    <3>1. CertRight(CertStore!All({CertStore!Cert(i)}, 500, v))
      BY CertCert
    <3>2. CertRight(CertStore!All({CertStore!Pub(i)}, 64, v))
      BY CertPub
    <3> QED BY <1>4, <3>1, <3>2
  <2> HIDE DEF new, ok
  <2> QED BY <1>1, <2>1, <2>2
<1>13. CASE CertStore!EraseCertKey
  <2> DEFINE new(opt, i) ==
               [s \in CertStore!Erased(opt, i) \cap CertStore!Slots |-> CertStore!Empty]
             ok(opt, i) == opt # "0" /\ CertStore!InRange(i)
  <2>1. PICK opt \in {"SELECT_CERT", "SELECT_PUB_KEY", "SELECT_PRI_KEY", "SELECT_ALL", "0"},
             i \in CertIndices :
          CertStore!Store(ok(opt, i), 5, new(opt, i), new(opt, i))
    BY <1>13 DEF CertStore!EraseCertKey
  <2>2. CertRight(new(opt, i))
    BY <1>5
  <2> HIDE DEF new, ok
  <2> QED BY <1>1, <2>1, <2>2
<1>14. CASE CertStore!WriteInfoFile
  <2> DEFINE new(offset, size, v) == CertStore!All(CertStore!Covered(offset, size), 0, v)
             ok(offset, size) == CertStore!InFile(offset, size)
             bytes(size) == size + 6
  <2>1. PICK offset \in CertCuts, v \in CertValues :
          \E size \in {c - offset : c \in {d \in CertCuts : d >= offset}} :
            CertStore!Store(ok(offset, size), bytes(size),
                        new(offset, size, v), new(offset, size, v))
    BY <1>14 DEF CertStore!WriteInfoFile
  <2>2. ASSUME NEW size PROVE CertRight(new(offset, size, v))
    <3>1. \A s \in CertStore!Covered(offset, size) : s[1] = "INFO"
      BY DEF CertStore!Covered, CertStore!Info
    <3>2. SizeIn("INFO") = 0
      BY DEF SizeIn
    <3>3. CertRight(CertStore!All(CertStore!Covered(offset, size), SizeIn("INFO"), v))
      BY <3>1, CertAll
    <3> QED BY <3>2, <3>3
  <2> HIDE DEF new, ok, bytes
  <2> QED BY <1>1, <2>1, <2>2
<1>15. ASSUME NEW n \in Nat, NEW ok, NEW d, NEW S, NEW slots \in SUBSET CertStore!Slots,
              CertStore!FetchExactly(ok, 4, n, {CertStore!Answer(n, d) : s \in S}, slots)
       PROVE  SizedRead(CertContents)
  <2> DEFINE answers == {CertStore!Answer(n, d) : s \in S}
  <2>1. \A a \in answers : IsAnswer(a)
    BY <1>7
  <2>2. CertStore!FetchExactly(ok, 4, n, answers, slots)
    BY <1>15
  <2> HIDE DEF answers
  <2> QED BY <1>6, <1>15, <2>1, <2>2
<1>16a. CASE CertStore!GetPriKey
  <2> DEFINE slots(i) == {<<"PRI", i>>} \cap CertStore!Slots
             S(i) == {t \in slots(i) : TRUE \/ store[t] # CertStore!Empty}
             said(i) == CertStore!Said(slots(i))
             ok(i) == CertStore!InRange(i)
  <2>1. PICK i \in CertIndices :
          CertStore!FetchExactly(ok(i), 4, 33,
                              {CertStore!Answer(33, said(i)) : s \in S(i)}, slots(i))
    BY <1>16a DEF CertStore!GetPriKey, CertStore!GetSlot
  <2>2. slots(i) \in SUBSET CertStore!Slots
    OBVIOUS
  <2>3. 33 \in Nat
    OBVIOUS
  <2> HIDE DEF slots, S, said, ok
  <2> QED BY <1>15, <2>1, <2>2, <2>3
<1>16b. CASE CertStore!GetPubKey
  <2> DEFINE slots(i) == {<<"PUB", i>>} \cap CertStore!Slots
             S(i) == {t \in slots(i) : TRUE \/ store[t] # CertStore!Empty}
             said(i) == CertStore!Said(slots(i))
             ok(i) == CertStore!InRange(i)
  <2>1. PICK i \in CertIndices :
          CertStore!FetchExactly(ok(i), 4, 65,
                              {CertStore!Answer(65, said(i)) : s \in S(i)}, slots(i))
    BY <1>16b DEF CertStore!GetPubKey, CertStore!GetSlot
  <2>2. slots(i) \in SUBSET CertStore!Slots
    OBVIOUS
  <2>3. 65 \in Nat
    OBVIOUS
  <2> HIDE DEF slots, S, said, ok
  <2> QED BY <1>15, <2>1, <2>2, <2>3
<1>16c. CASE CertStore!GetCert
  <2> DEFINE slots(i) == {<<"CERT", i>>} \cap CertStore!Slots
             S(i) == {t \in slots(i) : FALSE \/ store[t] # CertStore!Empty}
             said(i) == CertStore!Said(slots(i))
             ok(i) == CertStore!InRange(i)
  <2>1. PICK i \in CertIndices :
          CertStore!FetchExactly(ok(i), 4, 500,
                              {CertStore!Answer(500, said(i)) : s \in S(i)}, slots(i))
    BY <1>16c DEF CertStore!GetCert, CertStore!GetSlot
  <2>2. slots(i) \in SUBSET CertStore!Slots
    OBVIOUS
  <2>3. 500 \in Nat
    OBVIOUS
  <2> HIDE DEF slots, S, said, ok
  <2> QED BY <1>15, <2>1, <2>2, <2>3
<1>17. CASE CertStore!GetPriKeyState \/ CertStore!GetPubKeyCsr
  <2> DEFINE own(n) == {CertStore!Answer(n, CertStore!NoData)}
  <2>1. PICK i \in CertIndices, n \in {1, 500} :
          CertStore!FetchExactly(CertStore!InRange(i), 4, n, own(n), {})
    BY <1>17 DEF CertStore!GetPriKeyState, CertStore!GetPubKeyCsr
  <2>2. \A a \in own(n) : IsAnswer(a)
    BY <1>7
  <2> HIDE DEF own
  <2> QED BY <1>6, <2>1, <2>2
<1>18. CASE CertStore!GetCertField
  <2> DEFINE ok(field, i) == field # "beyond CERT_BC" /\ CertStore!InRange(i)
             answers == {CertStore!Answer(n, CertStore!NoData) : n \in {0, 16, 64}}
             lens == Nat \ {0, 1}
  <2> DEFINE Read(field, i, array) == CertStore!Fetch(ok(field, i), 5, lens, answers, array, {})
  <2>1. \E field \in {"CERT_SN", "CERT_BC", "beyond CERT_BC"}, i \in CertIndices,
             array \in CertArrays : Read(field, i, array)
    BY <1>18 DEF CertStore!GetCertField
  <2>2. \A a \in answers : IsAnswer(a)
    BY <1>7
  <2>3. CertArrays \subseteq Nat
    BY MCKseAssumption
  <2>4. PICK field, i, array : array \in Nat /\ Read(field, i, array)
    <3> HIDE DEF Read
    <3> QED BY <2>1, <2>3
  <2> HIDE DEF ok, answers, lens
  <2>5. CertStore!Fetch(ok(field, i), 5, lens, answers, array, {})
    BY <2>4
  <2>6. array \in Nat
    BY <2>4
  <2>7. {} \in SUBSET CertStore!Slots
    OBVIOUS
  <2> QED BY <1>2, <2>2, <2>5, <2>6, <2>7
<1>19. CASE CertStore!ReadInfoFile
  <2> DEFINE slots(offset, size) == CertStore!Covered(offset, size)
             answers(offset, size) == {CertStore!Answer(size, CertStore!Said(slots(offset, size)))}
             ok(offset, size) == CertStore!InFile(offset, size)
  <2> DEFINE Read(offset, size) ==
        CertStore!FetchExactly(ok(offset, size), 6, size, answers(offset, size),
                           slots(offset, size))
  <2>1. PICK offset \in CertCuts :
          \E size \in {c - offset : c \in {d \in CertCuts : d >= offset}} : Read(offset, size)
    BY <1>19 DEF CertStore!ReadInfoFile
  <2>2. {c - offset : c \in {d \in CertCuts : d >= offset}} \subseteq Nat
    BY MCKseAssumption
  <2>3. PICK size \in Nat : Read(offset, size)
    <3> HIDE DEF Read
    <3> QED BY <2>1, <2>2
  <2>4. \A a \in answers(offset, size) : IsAnswer(a)
    BY <1>7
  <2>5. slots(offset, size) \in SUBSET CertStore!Slots
    BY DEF CertStore!Covered, CertStore!Slots, CertStore!Info
  <2> HIDE DEF slots, answers, ok
  <2> QED BY <1>6, <2>3, <2>4, <2>5
<1> QED
  BY <1>8, <1>9, <1>10, <1>11, <1>12, <1>13, <1>14, <1>16a, <1>16b,
     <1>16c, <1>17, <1>18, <1>19
     DEF CertStore!Next

LEMMA FileContent ==
  ASSUME NEW s \in InfoFile!Slots
  PROVE  /\ Memory!Empty \in FileContents[s]
         /\ \A v \in FileValues \cup {"GENERATED"} :
              Memory!Content(SizeIn(s[1]), v) \in FileContents[s]
         /\ \A c \in FileContents[s] :
              \/ c = Memory!Empty
              \/ c.value \in FileValues \cup {"GENERATED"} /\ c.size = SizeIn(s[1])
<1>1. FileContents[s] =
        {Memory!Empty} \cup {Memory!Content(SizeIn(s[1]), v) : v \in FileValues \cup {"GENERATED"}}
  BY DEF FileContents
<1> QED BY <1>1 DEF Memory!Content

\* What is to be stored has the sizes of its slots.
FileRight(new) ==
  /\ DOMAIN new \subseteq InfoFile!Slots
  /\ \A s \in DOMAIN new : new[s] \in FileContents[s]

LEMMA FileAll ==
  ASSUME NEW kind, NEW slots, \A s \in slots : s[1] = kind, NEW v \in FileValues \cup {"GENERATED"}
  PROVE  FileRight(InfoFile!All(slots, SizeIn(kind), v))
<1> DEFINE n == SizeIn(kind)
<1>1. InfoFile!All(slots, n, v) = [s \in slots \cap InfoFile!Slots |-> Memory!Content(n, v)]
  BY DEF InfoFile!All, InfoFile!Content, Memory!Content
<1>2. ASSUME NEW s \in slots \cap InfoFile!Slots PROVE Memory!Content(n, v) \in FileContents[s]
  BY FileContent
<1> HIDE DEF n
<1>3. FileRight(InfoFile!All(slots, n, v))
  BY <1>1, <1>2 DEF FileRight
<1> QED BY <1>3 DEF n

LEMMA FilePri ==
  ASSUME NEW i, NEW v \in FileValues \cup {"GENERATED"}
  PROVE  FileRight(InfoFile!All({InfoFile!Pri(i)}, 32, v))
<1>1. \A s \in {InfoFile!Pri(i)} : s[1] = "PRI"
  BY DEF InfoFile!Pri
<1>2. FileRight(InfoFile!All({InfoFile!Pri(i)}, SizeIn("PRI"), v))
  BY <1>1, FileAll
<1> QED BY <1>2 DEF SizeIn

LEMMA FilePub ==
  ASSUME NEW i, NEW v \in FileValues \cup {"GENERATED"}
  PROVE  FileRight(InfoFile!All({InfoFile!Pub(i)}, 64, v))
<1>1. \A s \in {InfoFile!Pub(i)} : s[1] = "PUB"
  BY DEF InfoFile!Pub
<1>2. FileRight(InfoFile!All({InfoFile!Pub(i)}, SizeIn("PUB"), v))
  BY <1>1, FileAll
<1> QED BY <1>2 DEF SizeIn

LEMMA FileCert ==
  ASSUME NEW i, NEW v \in FileValues \cup {"GENERATED"}
  PROVE  FileRight(InfoFile!All({InfoFile!Cert(i)}, 500, v))
<1>1. \A s \in {InfoFile!Cert(i)} : s[1] = "CERT"
  BY DEF InfoFile!Cert
<1>2. FileRight(InfoFile!All({InfoFile!Cert(i)}, SizeIn("CERT"), v))
  BY <1>1, FileAll
<1> QED BY <1>2 DEF SizeIn

LEMMA FileSized ==
  ASSUME InfoFile!Next
  PROVE  SizedWrite(FileContents) \/ SizedRead(FileContents)
<1>0. DOMAIN FileContents = InfoFile!Slots
  BY DEF FileContents
<1>1. ASSUME NEW ok, NEW n, NEW new, InfoFile!Store(ok, n, new, new), FileRight(new)
      PROVE  SizedWrite(FileContents)
  BY <1>0, <1>1, SameStore DEF SizedWrite, FileRight
<1>2. ASSUME NEW ok, NEW n, NEW lens, NEW answers, NEW array \in Nat,
             NEW to \in SUBSET InfoFile!Slots, InfoFile!Fetch(ok, n, lens, answers, array, to),
             \A a \in answers : IsAnswer(a)
      PROVE  SizedRead(FileContents)
  BY <1>0, <1>2, SameFetch DEF SizedRead
<1>4. ASSUME NEW f, NEW g, FileRight(f), FileRight(g)
      PROVE  FileRight(InfoFile!Over(f, g))
  BY <1>4 DEF InfoFile!Over, FileRight
<1>5. ASSUME NEW S
      PROVE  FileRight([s \in S \cap InfoFile!Slots |-> InfoFile!Empty])
  BY FileContent DEF InfoFile!Empty, InfoFile!Content, Memory!Empty, Memory!Content, FileRight
<1>6. ASSUME NEW ok, NEW n, NEW size \in Nat, NEW answers, \A a \in answers : IsAnswer(a),
             NEW to \in SUBSET InfoFile!Slots, InfoFile!FetchExactly(ok, n, size, answers, to)
      PROVE  SizedRead(FileContents)
  BY <1>2, <1>6 DEF InfoFile!FetchExactly
<1>7. ASSUME NEW n \in Nat, NEW d PROVE IsAnswer(InfoFile!Answer(n, d))
  BY DEF IsAnswer, InfoFile!Answer, InfoFile!Success
<1>8. CASE InfoFile!GenerateKeypair
  <2> DEFINE new(i) == InfoFile!Over(InfoFile!All({InfoFile!Pri(i)}, 32, "GENERATED"),
                                InfoFile!All({InfoFile!Pub(i)}, 64, "GENERATED"))
             ok(type, i) == type \in InfoFile!Internal /\ InfoFile!InRange(i)
  <2>1. PICK type \in InfoFile!KeyTypes, i \in FileIndices :
          InfoFile!Store(ok(type, i), 5, new(i), new(i))
    BY <1>8 DEF InfoFile!GenerateKeypair
  <2>2. FileRight(new(i))
    <3>1. FileRight(InfoFile!All({InfoFile!Pri(i)}, 32, "GENERATED"))
      BY FilePri
    <3>2. FileRight(InfoFile!All({InfoFile!Pub(i)}, 64, "GENERATED"))
      BY FilePub
    <3> QED BY <1>4, <3>1, <3>2
  <2> HIDE DEF new, ok
  <2> QED BY <1>1, <2>1, <2>2
<1>9. CASE InfoFile!PutPriKey
  <2> DEFINE new(i, v) == InfoFile!All({InfoFile!Pri(i)}, 32, v)
             ok(type, i) == type \in InfoFile!External /\ InfoFile!InRange(i)
  <2>1. PICK type \in InfoFile!KeyTypes, i \in FileIndices, v \in FileValues :
          InfoFile!Store(ok(type, i), 37, new(i, v), new(i, v))
    BY <1>9 DEF InfoFile!PutPriKey
  <2>2. FileRight(new(i, v))
    BY FilePri
  <2> HIDE DEF new, ok
  <2> QED BY <1>1, <2>1, <2>2
<1>10. CASE InfoFile!PutPubKey
  <2> DEFINE new(i, v) == InfoFile!All({InfoFile!Pub(i)}, 64, v)
             ok(type, i) ==
               type \in InfoFile!External \cup {"EXT_CA_ECDSA"} /\ InfoFile!InRange(i)
  <2>1. PICK type \in InfoFile!KeyTypes, i \in FileIndices, v \in FileValues :
          InfoFile!Store(ok(type, i), 69, new(i, v), new(i, v))
    BY <1>10 DEF InfoFile!PutPubKey
  <2>2. FileRight(new(i, v))
    BY FilePub
  <2> HIDE DEF new, ok
  <2> QED BY <1>1, <2>1, <2>2
<1>11. CASE InfoFile!PutCert
  <2> DEFINE new(i, v) == InfoFile!All({InfoFile!Cert(i)}, 500, v)
             ok(i) == InfoFile!InRange(i)
  <2>1. PICK i \in FileIndices, v \in FileValues : InfoFile!Store(ok(i), 504, new(i, v), new(i, v))
    BY <1>11 DEF InfoFile!PutCert
  <2>2. FileRight(new(i, v))
    BY FileCert
  <2> HIDE DEF new, ok
  <2> QED BY <1>1, <2>1, <2>2
<1>12. CASE InfoFile!PutCertPubKey
  <2> DEFINE new(i, v) == InfoFile!Over(InfoFile!All({InfoFile!Cert(i)}, 500, v),
                                   InfoFile!All({InfoFile!Pub(i)}, 64, v))
             ok(i, ca) == InfoFile!InRange(i) /\ InfoFile!InRange(ca)
  <2>1. PICK i, ca \in FileIndices, v \in FileValues :
          InfoFile!Store(ok(i, ca), 506, new(i, v), new(i, v))
    BY <1>12 DEF InfoFile!PutCertPubKey
  <2>2. FileRight(new(i, v))
    <3>1. FileRight(InfoFile!All({InfoFile!Cert(i)}, 500, v))
      BY FileCert
    <3>2. FileRight(InfoFile!All({InfoFile!Pub(i)}, 64, v))
      BY FilePub
    <3> QED BY <1>4, <3>1, <3>2
  <2> HIDE DEF new, ok
  <2> QED BY <1>1, <2>1, <2>2
<1>13. CASE InfoFile!EraseCertKey
  <2> DEFINE new(opt, i) ==
               [s \in InfoFile!Erased(opt, i) \cap InfoFile!Slots |-> InfoFile!Empty]
             ok(opt, i) == opt # "0" /\ InfoFile!InRange(i)
  <2>1. PICK opt \in {"SELECT_CERT", "SELECT_PUB_KEY", "SELECT_PRI_KEY", "SELECT_ALL", "0"},
             i \in FileIndices :
          InfoFile!Store(ok(opt, i), 5, new(opt, i), new(opt, i))
    BY <1>13 DEF InfoFile!EraseCertKey
  <2>2. FileRight(new(opt, i))
    BY <1>5
  <2> HIDE DEF new, ok
  <2> QED BY <1>1, <2>1, <2>2
<1>14. CASE InfoFile!WriteInfoFile
  <2> DEFINE new(offset, size, v) == InfoFile!All(InfoFile!Covered(offset, size), 0, v)
             ok(offset, size) == InfoFile!InFile(offset, size)
             bytes(size) == size + 6
  <2>1. PICK offset \in FileCuts, v \in FileValues :
          \E size \in {c - offset : c \in {d \in FileCuts : d >= offset}} :
            InfoFile!Store(ok(offset, size), bytes(size),
                        new(offset, size, v), new(offset, size, v))
    BY <1>14 DEF InfoFile!WriteInfoFile
  <2>2. ASSUME NEW size PROVE FileRight(new(offset, size, v))
    <3>1. \A s \in InfoFile!Covered(offset, size) : s[1] = "INFO"
      BY DEF InfoFile!Covered, InfoFile!Info
    <3>2. SizeIn("INFO") = 0
      BY DEF SizeIn
    <3>3. FileRight(InfoFile!All(InfoFile!Covered(offset, size), SizeIn("INFO"), v))
      BY <3>1, FileAll
    <3> QED BY <3>2, <3>3
  <2> HIDE DEF new, ok, bytes
  <2> QED BY <1>1, <2>1, <2>2
<1>15. ASSUME NEW n \in Nat, NEW ok, NEW d, NEW S, NEW slots \in SUBSET InfoFile!Slots,
              InfoFile!FetchExactly(ok, 4, n, {InfoFile!Answer(n, d) : s \in S}, slots)
       PROVE  SizedRead(FileContents)
  <2> DEFINE answers == {InfoFile!Answer(n, d) : s \in S}
  <2>1. \A a \in answers : IsAnswer(a)
    BY <1>7
  <2>2. InfoFile!FetchExactly(ok, 4, n, answers, slots)
    BY <1>15
  <2> HIDE DEF answers
  <2> QED BY <1>6, <1>15, <2>1, <2>2
<1>16a. CASE InfoFile!GetPriKey
  <2> DEFINE slots(i) == {<<"PRI", i>>} \cap InfoFile!Slots
             S(i) == {t \in slots(i) : TRUE \/ store[t] # InfoFile!Empty}
             said(i) == InfoFile!Said(slots(i))
             ok(i) == InfoFile!InRange(i)
  <2>1. PICK i \in FileIndices :
          InfoFile!FetchExactly(ok(i), 4, 33,
                              {InfoFile!Answer(33, said(i)) : s \in S(i)}, slots(i))
    BY <1>16a DEF InfoFile!GetPriKey, InfoFile!GetSlot
  <2>2. slots(i) \in SUBSET InfoFile!Slots
    OBVIOUS
  <2>3. 33 \in Nat
    OBVIOUS
  <2> HIDE DEF slots, S, said, ok
  <2> QED BY <1>15, <2>1, <2>2, <2>3
<1>16b. CASE InfoFile!GetPubKey
  <2> DEFINE slots(i) == {<<"PUB", i>>} \cap InfoFile!Slots
             S(i) == {t \in slots(i) : TRUE \/ store[t] # InfoFile!Empty}
             said(i) == InfoFile!Said(slots(i))
             ok(i) == InfoFile!InRange(i)
  <2>1. PICK i \in FileIndices :
          InfoFile!FetchExactly(ok(i), 4, 65,
                              {InfoFile!Answer(65, said(i)) : s \in S(i)}, slots(i))
    BY <1>16b DEF InfoFile!GetPubKey, InfoFile!GetSlot
  <2>2. slots(i) \in SUBSET InfoFile!Slots
    OBVIOUS
  <2>3. 65 \in Nat
    OBVIOUS
  <2> HIDE DEF slots, S, said, ok
  <2> QED BY <1>15, <2>1, <2>2, <2>3
<1>16c. CASE InfoFile!GetCert
  <2> DEFINE slots(i) == {<<"CERT", i>>} \cap InfoFile!Slots
             S(i) == {t \in slots(i) : FALSE \/ store[t] # InfoFile!Empty}
             said(i) == InfoFile!Said(slots(i))
             ok(i) == InfoFile!InRange(i)
  <2>1. PICK i \in FileIndices :
          InfoFile!FetchExactly(ok(i), 4, 500,
                              {InfoFile!Answer(500, said(i)) : s \in S(i)}, slots(i))
    BY <1>16c DEF InfoFile!GetCert, InfoFile!GetSlot
  <2>2. slots(i) \in SUBSET InfoFile!Slots
    OBVIOUS
  <2>3. 500 \in Nat
    OBVIOUS
  <2> HIDE DEF slots, S, said, ok
  <2> QED BY <1>15, <2>1, <2>2, <2>3
<1>17. CASE InfoFile!GetPriKeyState \/ InfoFile!GetPubKeyCsr
  <2> DEFINE own(n) == {InfoFile!Answer(n, InfoFile!NoData)}
  <2>1. PICK i \in FileIndices, n \in {1, 500} :
          InfoFile!FetchExactly(InfoFile!InRange(i), 4, n, own(n), {})
    BY <1>17 DEF InfoFile!GetPriKeyState, InfoFile!GetPubKeyCsr
  <2>2. \A a \in own(n) : IsAnswer(a)
    BY <1>7
  <2> HIDE DEF own
  <2> QED BY <1>6, <2>1, <2>2
<1>18. CASE InfoFile!GetCertField
  <2> DEFINE ok(field, i) == field # "beyond CERT_BC" /\ InfoFile!InRange(i)
             answers == {InfoFile!Answer(n, InfoFile!NoData) : n \in {0, 16, 64}}
             lens == Nat \ {0, 1}
  <2> DEFINE Read(field, i, array) == InfoFile!Fetch(ok(field, i), 5, lens, answers, array, {})
  <2>1. \E field \in {"CERT_SN", "CERT_BC", "beyond CERT_BC"}, i \in FileIndices,
             array \in FileArrays : Read(field, i, array)
    BY <1>18 DEF InfoFile!GetCertField
  <2>2. \A a \in answers : IsAnswer(a)
    BY <1>7
  <2>3. FileArrays \subseteq Nat
    BY MCKseAssumption
  <2>4. PICK field, i, array : array \in Nat /\ Read(field, i, array)
    <3> HIDE DEF Read
    <3> QED BY <2>1, <2>3
  <2> HIDE DEF ok, answers, lens
  <2>5. InfoFile!Fetch(ok(field, i), 5, lens, answers, array, {})
    BY <2>4
  <2>6. array \in Nat
    BY <2>4
  <2>7. {} \in SUBSET InfoFile!Slots
    OBVIOUS
  <2> QED BY <1>2, <2>2, <2>5, <2>6, <2>7
<1>19. CASE InfoFile!ReadInfoFile
  <2> DEFINE slots(offset, size) == InfoFile!Covered(offset, size)
             answers(offset, size) == {InfoFile!Answer(size, InfoFile!Said(slots(offset, size)))}
             ok(offset, size) == InfoFile!InFile(offset, size)
  <2> DEFINE Read(offset, size) ==
        InfoFile!FetchExactly(ok(offset, size), 6, size, answers(offset, size),
                           slots(offset, size))
  <2>1. PICK offset \in FileCuts :
          \E size \in {c - offset : c \in {d \in FileCuts : d >= offset}} : Read(offset, size)
    BY <1>19 DEF InfoFile!ReadInfoFile
  <2>2. {c - offset : c \in {d \in FileCuts : d >= offset}} \subseteq Nat
    BY MCKseAssumption
  <2>3. PICK size \in Nat : Read(offset, size)
    <3> HIDE DEF Read
    <3> QED BY <2>1, <2>2
  <2>4. \A a \in answers(offset, size) : IsAnswer(a)
    BY <1>7
  <2>5. slots(offset, size) \in SUBSET InfoFile!Slots
    BY DEF InfoFile!Covered, InfoFile!Slots, InfoFile!Info
  <2> HIDE DEF slots, answers, ok
  <2> QED BY <1>6, <2>3, <2>4, <2>5
<1> QED
  BY <1>8, <1>9, <1>10, <1>11, <1>12, <1>13, <1>14, <1>16a, <1>16b,
     <1>16c, <1>17, <1>18, <1>19
     DEF InfoFile!Next

-----------------------------------------------------------------------------
(* Sizes of hashes.  The answers have 2, 34 or 66 bytes, and a mixed one   *)
(* has 62, 94 or 120.                                                      *)

OfHash(a) ==
  a.status = "KSE_SUCCESS" =>
    /\ a.usLen \in {2, 34, 66}
    /\ a.usLen \in {34, 66} => a.data.alg \in Hash!Algs
HashAnswer(a) == IsAnswer(a) /\ OfHash(a)
DigestAlgs == Hash!Algs \cup {"none"}
HashSized ==
  /\ hashPc \in {"idle", "one", "begin", "mid", "end"} /\ hashCall \in 0 .. HashCalls
  /\ hashJob.alg \in Hash!Algs
  /\ hashJob.size \in 0 .. HashSize /\ pos \in 0 .. hashJob.size
  /\ digest.alg \in DigestAlgs /\ dev.alg \in DigestAlgs
LateOfHash == part = "hash" => OfHash(late)

LEMMA NoAnswerFails ==
  \A a \in NoAnswers : /\ a.status \in {"none", "ack", "rest of an answer"}
                       /\ a.status # "KSE_SUCCESS"
<1>1. /\ Exchange!NoReport.status = "none" /\ Exchange!Acknowledgement.status = "ack"
      /\ Exchange!Fragment.status = "rest of an answer"
  BY DEF Exchange!NoReport, Exchange!Acknowledgement, Exchange!Fragment
<1> QED BY <1>1 DEF NoAnswers

LEMMA HashStepSized ==
  ASSUME ExchangeTyped, HashSized, part = "hash", part' = part, LateOfHash,
         NEW blocks, NEW others, NEW own, NEW new, NEW lens,
         NEW go \in {"idle", "one", "begin", "mid", "end"},
         Hash!Step(blocks, others, own, new, lens, go), HashAnswer(own),
         new.alg \in DigestAlgs, pos + blocks \in 0 .. hashJob.size,
         go = "idle" /\ hashJob.alg \notin Hash!Verifies => lens \subseteq {34, 66}
  PROVE  ExchangeTyped' /\ HashSized' /\ LateOfHash'
<1> DEFINE n == Bytes(blocks, others)
           Effect(ok, x) ==
             LET result == ResultFor(x.got, lens) IN
             /\ LateStep(x) /\ power' = power
             /\ dev' = IF ok THEN new ELSE dev
             /\ IF result # "KSE_SUCCESS" \/ go = "idle"
                THEN hashPc' = "idle" /\ ret' = result ELSE hashPc' = go /\ ret' = ret
             /\ pos' = IF result = "KSE_SUCCESS" THEN pos + blocks ELSE pos
             /\ digest' = IF /\ result = "KSE_SUCCESS" /\ go = "idle"
                             /\ hashJob.alg \notin Hash!Verifies
                          THEN x.got.data ELSE digest
             /\ hashCall' = hashCall /\ hashJob' = hashJob
<1>1. PICK ok \in BOOLEAN : \E x \in Ends(n, own, ok) : Effect(ok, x)
  BY Same, SameResult DEF Hash!Step, Hash!ExchangeWith, Hash!Success, Hash!jobVars, Bytes, LateStep
<1>2. PICK x \in Ends(n, own, ok) : Effect(ok, x)
  BY <1>1
<1> DEFINE result == ResultFor(x.got, lens)
<1> HIDE DEF n
<1>3. /\ result \in Exchange!Results
      /\ LateTyped' /\ failed' \in BOOLEAN /\ (failed' => MayFail)
  <2>1. LateStep(x) /\ IsAnswer(own) /\ LateTyped /\ failed \in BOOLEAN /\ (failed => MayFail)
    BY <1>2 DEF ExchangeTyped, HashAnswer
  <2> QED
    BY <2>1, TypesKept
<1>4. Left(x, own) /\ Brought(x.got, own)
  BY EndsAre
<1>5. ExchangeTyped'
  <2>1. ret' \in {ret, result} /\ power' = power
    BY <1>2
  <2>2. ret \in Exchange!Results /\ power \in BOOLEAN
    BY DEF ExchangeTyped
  <2>3. Exchange!Results' = Exchange!Results
    BY DEF Exchange!Results, Exchange!Success, Exchange!NotPoweredOn, Exchange!WrongInput,
           Exchange!TransferFails, Exchange!UnexpectedResp, Exchange!UnexpectedLen, Exchange!Refused
  <2> HIDE DEF result
  <2> QED
    BY <1>3, <2>1, <2>2, <2>3 DEF ExchangeTyped
<1>6. LateOfHash'
  <2>1. x.late \in NoAnswers \cup {own}
    BY <1>4 DEF Left
  <2>2. OfHash(x.late)
    <3>1. CASE x.late \in NoAnswers
      BY <3>1, NoAnswerFails DEF OfHash
    <3>2. CASE x.late = own
      BY <3>2 DEF HashAnswer
    <3> QED BY <2>1, <3>1, <3>2
  <2>3. late' = x.late
    BY <1>2 DEF LateStep
  <2> QED
    BY <2>2, <2>3 DEF LateOfHash, OfHash
<1>7. result = "KSE_SUCCESS" /\ go = "idle" /\ hashJob.alg \notin Hash!Verifies
        => x.got.data.alg \in Hash!Algs
  <2> SUFFICES ASSUME result = "KSE_SUCCESS", lens \subseteq {34, 66}
               PROVE  x.got.data.alg \in Hash!Algs
    OBVIOUS
  <2>1. /\ x.got.status = "KSE_SUCCESS" /\ x.got.usLen \in {34, 66}
        /\ x.got # Exchange!Without(Exchange!TransferFails)
        /\ x.got # Exchange!Without(Exchange!UnexpectedResp)
    BY SuccessMeans
  <2>2. ~IsMixed(x.got, own)
    BY <2>1 DEF IsMixed, HashAnswer, IsAnswer, OfHash
  <2>3. x.got = own \/ x.got = late
    BY <1>4, <2>1, <2>2 DEF Brought
  <2>4. OfHash(x.got)
    BY <2>3 DEF HashAnswer, LateOfHash
  <2> QED
    BY <2>1, <2>4 DEF OfHash
<1>8. HashSized'
  <2>1. hashPc' \in {hashPc, "idle", go} /\ pos' \in 0 .. hashJob.size /\ dev'.alg \in DigestAlgs
    BY <1>2 DEF HashSized
  <2>2. digest'.alg \in DigestAlgs
    BY <1>2, <1>7 DEF HashSized, DigestAlgs
  <2>3. hashCall' = hashCall /\ hashJob' = hashJob
    BY <1>2
  <2>4. Hash!Algs' = Hash!Algs /\ DigestAlgs' = DigestAlgs
    BY DEF Hash!Algs, DigestAlgs
  <2> QED
    BY <2>1, <2>2, <2>3, <2>4 DEF HashSized
<1> QED
  BY <1>5, <1>6, <1>8

\* What the device answers.
LEMMA HashAnswers ==
  /\ HashAnswer(Hash!Done) /\ HashAnswer(Hash!Refusal)
  /\ hashJob.alg \in Hash!Algs =>
       \A key, message : HashAnswer(Hash!ResultAnswer(hashJob.alg, key, message))
BY DEF HashAnswer, IsAnswer, OfHash, Hash!Done, Hash!Refusal, Hash!Answer, Hash!Success,
       Hash!Refused, Hash!ResultAnswer, Hash!Result

LEMMA LastLens ==
  hashJob.alg \in Hash!Algs \ Hash!Verifies => Hash!ResultLens \subseteq {34, 66}
BY DEF Hash!ResultLens, Hash!Algs, Hash!Verifies

LEMMA HashKeepsSizes ==
  ASSUME ExchangeTyped, HashSized, HashInv, part = "hash", part' = part, LateOfHash, Hash!Next
  PROVE  ExchangeTyped' /\ HashSized' /\ LateOfHash'
<1>0. /\ hashJob.alg \in Hash!Algs /\ hashJob.size \in 0 .. HashSize /\ pos \in 0 .. hashJob.size
      /\ dev.alg \in DigestAlgs
  BY DEF HashSized
<1>1. CASE Hash!Call
  <2>1. PICK alg \in Hash!Algs, key \in HashKeys, size \in 0 .. HashSize, valid \in BOOLEAN :
          /\ hashJob' = [alg |-> alg, key |-> key, size |-> size, valid |-> valid]
          /\ LET guard == Hash!Guarded(alg = "SHA" \/ key < Hash!MAX_KCMVP_KEY_COUNT) IN
               IF guard = "KSE_SUCCESS"
               THEN hashPc' = (IF size <= HASH_IO THEN "one" ELSE "begin") /\ ret' = ret
               ELSE ret' = guard /\ hashPc' = hashPc
    BY <1>1 DEF Hash!Call, Hash!Success
  <2>2. /\ hashCall' = hashCall + 1 /\ hashCall < HashCalls
        /\ pos' = 0 /\ digest' = Hash!None /\ dev' = dev
        /\ power' = power /\ late' = late /\ failed' = failed
    BY <1>1 DEF Hash!Call, Hash!exchangeVars
  <2>3. hashPc' \in {"idle", "one", "begin", "mid", "end"}
    BY <2>1 DEF HashSized
  <2>4. ret' \in Exchange!Results
    <3>1. \A ok : Hash!Guarded(ok) \in Exchange!Results
      BY DEF Hash!Guarded, Hash!NotPoweredOn, Hash!WrongInput, Hash!Success, Exchange!Results,
             Exchange!NotPoweredOn, Exchange!WrongInput, Exchange!Success
    <3>2. ret \in Exchange!Results
      BY DEF ExchangeTyped
    <3> QED BY <2>1, <3>1, <3>2
  <2>5. ExchangeTyped'
    BY <2>2, <2>4 DEF ExchangeTyped, LateTyped, IsAnswer, NoAnswers, Exchange!Results
  <2>6. HashSized'
    <3>1. hashCall' \in 0 .. HashCalls
      BY <2>2, MCKseAssumption DEF HashSized
    <3>2. /\ hashJob'.alg \in Hash!Algs /\ hashJob'.size \in 0 .. HashSize
          /\ pos' \in 0 .. hashJob'.size
      BY <2>1, <2>2, MCKseAssumption
    <3>3. digest'.alg \in DigestAlgs /\ dev'.alg \in DigestAlgs
      BY <1>0, <2>2 DEF Hash!None, Hash!Result, DigestAlgs
    <3>4. Hash!Algs' = Hash!Algs /\ DigestAlgs' = DigestAlgs
      BY DEF Hash!Algs, DigestAlgs
    <3> QED BY <2>3, <3>1, <3>2, <3>3, <3>4 DEF HashSized
  <2>7. LateOfHash'
    BY <2>2 DEF LateOfHash, OfHash
  <2> QED BY <2>5, <2>6, <2>7
<1>2. CASE Hash!OneStep
  <2> DEFINE others == 4 + Hash!KeyBytes(Hash!Algs \ {"SHA"}) + Hash!ValueBytes
             own == Hash!ResultAnswer(hashJob.alg, Hash!KeyOf(hashJob), Upto(hashJob.size))
  <2>1. PICK a \in {own, Hash!Refusal} :
          Hash!Step(hashJob.size, others, a, Hash!None, Hash!ResultLens, "idle")
    BY <1>2 DEF Hash!OneStep, Upto
  <2>2. HashAnswer(a)
    BY <1>0, <2>1, HashAnswers
  <2>3. pos = 0
    BY <1>2 DEF Hash!OneStep, HashInv, HashUnderway
  <2>4. Hash!None.alg \in DigestAlgs
    BY DEF Hash!None, Hash!Result, DigestAlgs
  <2>5. pos + hashJob.size \in 0 .. hashJob.size
    BY <1>0, <2>3, MCKseAssumption
  <2> HIDE DEF others, own
  <2> QED BY <1>0, <2>1, <2>2, <2>4, <2>5, LastLens, HashStepSized
<1>3. CASE Hash!Begin
  <2> DEFINE others == 4 + Hash!KeyBytes(HmacAlgs)
             go == Hash!AfterPart
             begun == Hash!Result(hashJob.alg, FirstKey, Upto(HASH_IO))
  <2>1. \/ Hash!Step(HASH_IO, others, Hash!Done, begun, {2}, go)
        \/ Hash!Step(HASH_IO, others, Hash!Refusal, Hash!None, {2}, go)
    BY <1>3 DEF Hash!Begin, FirstKey, HmacAlgs, Upto
  <2>2. pos = 0 /\ hashJob.size > HASH_IO
    BY <1>3 DEF Hash!Begin, HashInv, HashUnderway
  <2>3. pos + HASH_IO \in 0 .. hashJob.size
    BY <1>0, <2>2, HashSizes
  <2>4. go \in {"mid", "end"}
    BY DEF Hash!AfterPart
  <2>5. begun.alg \in DigestAlgs /\ Hash!None.alg \in DigestAlgs
    BY <1>0 DEF Hash!None, Hash!Result, DigestAlgs
  <2> HIDE DEF others, begun, go
  <2>6. CASE Hash!Step(HASH_IO, others, Hash!Done, begun, {2}, go)
    BY <2>3, <2>4, <2>5, <2>6, HashAnswers, HashStepSized
  <2>7. CASE Hash!Step(HASH_IO, others, Hash!Refusal, Hash!None, {2}, go)
    BY <2>3, <2>4, <2>5, <2>7, HashAnswers, HashStepSized
  <2> QED BY <2>1, <2>6, <2>7
<1>4. CASE Hash!Mid
  <2> DEFINE go == Hash!AfterPart
             own == IF Hash!Feeds(hashJob.alg) THEN Hash!Done ELSE Hash!Refusal
             new == [dev EXCEPT !.message = @ \o Hash!Message(hashCall, pos + 1, pos + HASH_IO)]
  <2>1. Hash!Step(HASH_IO, 4, own, new, {2}, go)
    BY <1>4 DEF Hash!Mid
  <2>2. dev = Hash!Result(hashJob.alg, FirstKey, Upto(pos)) /\ hashJob.size - pos > HASH_IO
    BY <1>4 DEF Hash!Mid, HashInv, HashUnderway
  <2>3. pos + HASH_IO \in 0 .. hashJob.size
    BY <1>0, <2>2, HashSizes
  <2>4. go \in {"mid", "end"}
    BY DEF Hash!AfterPart
  <2>5. new.alg = dev.alg
    BY <2>2 DEF Hash!Result
  <2>6. HashAnswer(own)
    BY HashAnswers
  <2> HIDE DEF own, new, go
  <2> QED BY <1>0, <2>1, <2>3, <2>4, <2>5, <2>6, HashStepSized
<1>5. CASE Hash!End
  <2> DEFINE others == 4 + Hash!KeyBytes(Hash!Ecdsa) + Hash!ValueBytes
             rest == hashJob.size - pos
             message == dev.message \o Hash!Message(hashCall, pos + 1, hashJob.size)
             own == IF Hash!Feeds(hashJob.alg)
                    THEN Hash!ResultAnswer(hashJob.alg, Hash!KeyAtEnd, message) ELSE Hash!Refusal
  <2>1. Hash!Step(rest, others, own, Hash!None, Hash!ResultLens, "idle")
    BY <1>5 DEF Hash!End
  <2>2. HashAnswer(own)
    <3> HIDE DEF message
    <3> QED BY <1>0, HashAnswers
  <2>3. pos + rest \in 0 .. hashJob.size
    BY <1>0, MCKseAssumption
  <2>4. Hash!None.alg \in DigestAlgs
    BY DEF Hash!None, Hash!Result, DigestAlgs
  <2> HIDE DEF others, own, rest
  <2> QED BY <1>0, <2>1, <2>2, <2>3, <2>4, LastLens, HashStepSized
<1> QED
  BY <1>1, <1>2, <1>3, <1>4, <1>5 DEF Hash!Next

-----------------------------------------------------------------------------
(* Sizes of ciphers.  An array is a function on the numbers of its blocks, *)
(* and an answer has the bytes of its blocks; a mixed one has 62, 94 or    *)
(* 120.                                                                    *)

IsArray(f, n) == f = [i \in 1 .. n |-> f[i]]
IsChunk(a) ==
  a.status = "KSE_SUCCESS" =>
    \E n \in Nat : IsArray(a.data, n) /\ a.usLen = Ciphers!BlockSize * n + 2
ChunkAnswer(a) == IsAnswer(a) /\ IsChunk(a)
LateOfChunk == part = "ciphers" => IsChunk(late)
IsCounter(v) == \E k \in 0 .. Base * Base - 1 : v = Ciphers!CounterBlock(k)
CipherSized ==
  /\ pc \in {"idle", "run"} /\ call \in 0 .. MaxCalls
  /\ job.size \in 0 .. MaxSize /\ done \in 0 .. job.size /\ IsArray(output, job.size)
  /\ call > 0 /\ job.mode \in {"CTR", "GCM"} => IsCounter(iv)

LEMMA ArraySeq ==
  ASSUME NEW n \in Nat, NEW f, IsArray(f, n)
  PROVE  f \in Seq({f[i] : i \in 1 .. n}) /\ Len(f) = n /\ DOMAIN f = 1 .. n
<1> DEFINE S == {f[i] : i \in 1 .. n}
<1>1. [i \in 1 .. n |-> f[i]] \in [1 .. n -> S]
  OBVIOUS
<1>2. f \in [1 .. n -> S]
  BY <1>1 DEF IsArray
<1> HIDE DEF S
<1>3. f \in Seq(S) /\ Len(f) = n
  BY <1>2, SeqOf
<1> QED BY <1>2, <1>3 DEF S

LEMMA SeqArray ==
  ASSUME NEW S, NEW s \in Seq(S)
  PROVE  IsArray(s, Len(s))
BY DEF IsArray

LEMMA Joined ==
  ASSUME NEW S, NEW p, NEW q, NEW s \in Seq(S), NEW t \in Seq(S), Len(s) = p, Len(t) = q
  PROVE  /\ s \o t \in Seq(S) /\ Len(s \o t) = p + q
         /\ \A i \in 1 .. p + q : (s \o t)[i] = IF i <= p THEN s[i] ELSE t[i - p]
BY ConcatProperties

LEMMA Cut ==
  ASSUME NEW S, NEW s, NEW k \in Nat, NEW m \in Nat, k <= m, \A i \in k + 1 .. m : s[i] \in S
  PROVE  /\ SubSeq(s, k + 1, m) \in Seq(S) /\ Len(SubSeq(s, k + 1, m)) = m - k
         /\ \A i \in 1 .. m - k : SubSeq(s, k + 1, m)[i] = s[k + i]
<1> DEFINE l == k + 1
           c == SubSeq(s, l, m)
<1>1. /\ c \in Seq(S) /\ Len(c) = IF l <= m THEN m - l + 1 ELSE 0
      /\ \A i \in 1 .. m - l + 1 : c[i] = s[l + i - 1]
  <2>1. l \in Int /\ m \in Int
    OBVIOUS
  <2> HIDE DEF l
  <2> QED BY <2>1, SubSeqProperties DEF l
<1> HIDE DEF c
<1>2. Len(c) = m - k
  BY <1>1
<1>3. \A i \in 1 .. m - k : c[i] = s[k + i]
  <2> SUFFICES ASSUME NEW i \in 1 .. m - k PROVE c[i] = s[k + i]
    OBVIOUS
  <2>1. i \in 1 .. m - l + 1 /\ l + i - 1 = k + i
    OBVIOUS
  <2> HIDE DEF l
  <2> QED BY <1>1, <2>1
<1> QED BY <1>1, <1>2, <1>3 DEF c

\* A sequence of m elements, n of which, those after the d-th, are replaced.
Splice(s, m, d, t, n) == SubSeq(s, 1, d) \o t \o SubSeq(s, d + n + 1, m)
IsSplice(r, s, m, d, t, n) ==
  \A i \in 1 .. m : r[i] = IF i <= d THEN s[i] ELSE IF i <= d + n THEN t[i - d] ELSE s[i]

LEMMA Spliced ==
  ASSUME NEW S, NEW m \in Nat, NEW s, \A i \in 1 .. m : s[i] \in S,
         NEW d \in Nat, NEW n \in Nat, NEW t \in Seq(S), Len(t) = n, d + n <= m
  PROVE  LET r == Splice(s, m, d, t, n)
         IN  r \in Seq(S) /\ Len(r) = m /\ IsSplice(r, s, m, d, t, n)
<1> DEFINE a == SubSeq(s, 1, d)
           b == a \o t
           c == SubSeq(s, d + n + 1, m)
<1>1. a \in Seq(S) /\ Len(a) = d /\ \A i \in 1 .. d : a[i] = s[i]
  <2>1. \A i \in 0 + 1 .. d : s[i] \in S
    OBVIOUS
  <2>2. /\ SubSeq(s, 0 + 1, d) \in Seq(S) /\ Len(SubSeq(s, 0 + 1, d)) = d - 0
        /\ \A i \in 1 .. d - 0 : SubSeq(s, 0 + 1, d)[i] = s[0 + i]
    BY <2>1, Cut
  <2>3. SubSeq(s, 0 + 1, d) = a
    OBVIOUS
  <2> HIDE DEF a
  <2> QED BY <2>2, <2>3
<1>2. c \in Seq(S) /\ Len(c) = m - (d + n) /\ \A i \in 1 .. m - (d + n) : c[i] = s[d + n + i]
  <2>1. \A i \in d + n + 1 .. m : s[i] \in S
    OBVIOUS
  <2>2. d + n \in Nat
    OBVIOUS
  <2> QED BY <2>1, <2>2, Cut
<1> HIDE DEF a, c
<1>3. /\ b \in Seq(S) /\ Len(b) = d + n
      /\ \A i \in 1 .. d + n : b[i] = IF i <= d THEN a[i] ELSE t[i - d]
  BY <1>1, Joined
<1> HIDE DEF b
<1> DEFINE p == d + n
           q == m - (d + n)
           r == b \o c
<1>4. Len(b) = p /\ Len(c) = q /\ b \in Seq(S) /\ c \in Seq(S)
  BY <1>2, <1>3
<1>5. p + q = m /\ p = d + n
  OBVIOUS
<1> HIDE DEF p, q
<1>6. /\ r \in Seq(S) /\ Len(r) = m
      /\ \A i \in 1 .. m : r[i] = IF i <= d + n THEN b[i] ELSE c[i - (d + n)]
  <2>1. /\ r \in Seq(S) /\ Len(r) = p + q
        /\ \A i \in 1 .. p + q : r[i] = IF i <= p THEN b[i] ELSE c[i - p]
    BY <1>4, Joined
  <2> HIDE DEF r
  <2> QED BY <1>5, <2>1
<1> HIDE DEF r
<1>7. ASSUME NEW i \in 1 .. m
      PROVE  r[i] = IF i <= d THEN s[i] ELSE IF i <= d + n THEN t[i - d] ELSE s[i]
  <2>1. CASE i <= d
    <3>1. r[i] = b[i]
      BY <1>6, <2>1
    <3>2. b[i] = a[i]
      BY <1>3, <2>1
    <3>3. a[i] = s[i]
      BY <1>1, <2>1
    <3> QED BY <2>1, <3>1, <3>2, <3>3
  <2>2. CASE d < i /\ i <= d + n
    <3>1. r[i] = b[i]
      BY <1>6, <2>2
    <3>2. b[i] = t[i - d]
      BY <1>3, <2>2
    <3> QED BY <2>2, <3>1, <3>2
  <2>3. CASE d + n < i
    <3> DEFINE k == i - (d + n)
    <3>1. r[i] = c[k]
      BY <1>6, <2>3
    <3>2. k \in 1 .. m - (d + n) /\ d + n + k = i
      BY <2>3
    <3> HIDE DEF k
    <3>3. c[k] = s[i]
      BY <1>2, <3>2
    <3>4. ~(i <= d) /\ ~(i <= d + n)
      BY <2>3
    <3> QED BY <3>1, <3>3, <3>4
  <2> QED BY <2>1, <2>2, <2>3
<1>8. IsSplice(r, s, m, d, t, n)
  BY <1>7 DEF IsSplice
<1>9. r = Splice(s, m, d, t, n)
  BY DEF a, b, c, r, Splice
<1> QED BY <1>6, <1>8, <1>9

\* The same of arrays.
LEMMA SplicedArray ==
  ASSUME NEW m \in Nat, NEW s, IsArray(s, m), NEW d \in Nat, NEW n \in Nat, NEW t, IsArray(t, n),
         d + n <= m
  PROVE  LET r == Splice(s, m, d, t, n) IN IsArray(r, m) /\ IsSplice(r, s, m, d, t, n)
<1> DEFINE Q == {s[i] : i \in 1 .. m}
           T == {t[i] : i \in 1 .. n}
           S == Q \cup T
           r == Splice(s, m, d, t, n)
<1>1. t \in Seq(T) /\ Len(t) = n
  BY ArraySeq
<1>2. \A i \in 1 .. m : s[i] \in S
  OBVIOUS
<1> HIDE DEF Q, T
<1>3. t \in Seq(S)
  BY <1>1, SeqMonotonic
<1> HIDE DEF S
<1>4. r \in Seq(S) /\ Len(r) = m /\ IsSplice(r, s, m, d, t, n)
  <2>1. n \in Nat /\ d \in Nat /\ m \in Nat /\ d + n <= m
    OBVIOUS
  <2> QED BY <1>1, <1>2, <1>3, <2>1, Spliced
<1> HIDE DEF r
<1>5. IsArray(r, m)
  BY <1>4, SeqArray
<1> QED BY <1>4, <1>5 DEF r

\* Counters.
LEMMA ValueOfCounter == \A k : Ciphers!ValueOf(Ciphers!CounterBlock(k)) = k
<1> SUFFICES ASSUME NEW k PROVE Ciphers!ValueOf(Ciphers!CounterBlock(k)) = k
  OBVIOUS
<1>1. (CHOOSE x \in {<<"C", k>>} : TRUE) \in {<<"C", k>>}
  OBVIOUS
<1>2. (CHOOSE x \in {<<"C", k>>} : TRUE) = <<"C", k>>
  BY <1>1
<1> QED BY <1>2 DEF Ciphers!ValueOf, Ciphers!CounterBlock

LEMMA TwoDigits ==
  ASSUME NEW B \in Nat \ {0}, NEW a \in 0 .. B - 1, NEW b \in 0 .. B - 1
  PROVE  a * B + b \in 0 .. B * B - 1
<1> DEFINE c == B - 1 - a
<1>1. c \in Nat /\ c * B \in Nat /\ a * B \in Nat
  OBVIOUS
<1>2. c * B = B * B - B - a * B
  OBVIOUS
<1> HIDE DEF c
<1> QED BY <1>1, <1>2

LEMMA SumInRange ==
  ASSUME NEW v \in Nat, NEW n \in Nat
  PROVE  Ciphers!AddToCounter(v, n) \in 0 .. Base * Base - 1
<1> DEFINE low == n + (v % Base)
           high == (low \div Base) + (v \div Base)
<1>1. Base \in Nat \ {0}
  BY MCKseAssumption
<1>2. v % Base \in Nat /\ v \div Base \in Nat
  BY <1>1
<1>3. low \in Nat
  BY <1>2
<1> HIDE DEF low
<1>4. low \div Base \in Nat /\ low % Base \in 0 .. Base - 1
  BY <1>1, <1>3
<1>5. high \in Nat
  BY <1>2, <1>4
<1> HIDE DEF high
<1>6. high % Base \in 0 .. Base - 1
  BY <1>1, <1>5
<1>7. (high % Base) * Base + (low % Base) \in 0 .. Base * Base - 1
  BY <1>1, <1>4, <1>6, TwoDigits
<1> QED BY <1>7 DEF low, high, Ciphers!AddToCounter

\* What a chunk does, when the device answers it with a and x comes back.
ChunkBytes == Ciphers!BlockSize * Ciphers!ChunkSize + 2
ChunkIn == SubSeq(Ciphers!Source, done + 1, done + Ciphers!ChunkSize)
ChunkOwn ==
  Ciphers!Answer(Ciphers!BlockSize * Ciphers!ChunkSize, Ciphers!Apply(job, iv, ChunkIn))
ChunkEffect(a, x) ==
  LET n == Ciphers!ChunkSize
      result == ResultFor(x.got, {ChunkBytes}) IN
  /\ LateStep(x) /\ power' = power /\ call' = call /\ job' = job
  /\ behind' = (behind \/ (result = "KSE_SUCCESS" /\ x.got # a))
  /\ IF result # "KSE_SUCCESS"
     THEN pc' = "idle" /\ ret' = result /\ output' = output /\ done' = done /\ iv' = iv
     ELSE /\ output' = Splice(output, job.size, done, x.got.data, n)
          /\ done' = done + n
          /\ iv' = IF n = 0 THEN iv ELSE Ciphers!NextIv(ChunkIn, x.got.data)
          /\ IF done' = job.size THEN pc' = "idle" /\ ret' = "KSE_SUCCESS"
             ELSE pc' = pc /\ ret' = ret

LEMMA ChunkDoes ==
  ASSUME Ciphers!Chunk
  PROVE  /\ pc = "run"
         /\ \E a \in {Ciphers!Refusal} \cup (IF job.tagOk THEN {ChunkOwn} ELSE {}) :
            \E x \in Ends(Ciphers!CommandSize, a, FALSE) : ChunkEffect(a, x)
BY Same, SameResult DEF Ciphers!Chunk, Ciphers!ExchangeWith, Ciphers!Fail, Ciphers!Success,
   Ciphers!jobVars, LateStep, ChunkEffect, ChunkIn, ChunkOwn, ChunkBytes, Splice

\* The blocks of a chunk.
LEMMA ChunkCount ==
  ASSUME CipherSized
  PROVE  /\ Ciphers!ChunkSize \in Nat /\ done \in Nat /\ job.size \in Nat
         /\ done + Ciphers!ChunkSize <= job.size
<1> DEFINE L == Ciphers!ChunkLimit
<1>1. L \in Nat /\ L > 1
  BY LimitSize
<1>2. done \in Nat /\ job.size \in Nat /\ done <= job.size
  BY MCKseAssumption DEF CipherSized
<1>3. Ciphers!ChunkSize = IF job.size - done <= L THEN job.size - done ELSE L
  BY <1>1, <1>2, MinOfTwo DEF Ciphers!ChunkSize
<1> HIDE DEF L
<1> QED BY <1>1, <1>2, <1>3

LEMMA SourceIs ==
  ASSUME CipherSized
  PROVE  /\ IsArray(Ciphers!Source, job.size)
         /\ \/ Ciphers!Source = output
            \/ \A i \in 1 .. job.size : Ciphers!Source[i] = Ciphers!Plain(call, i)
<1>1. CASE job.inPlace
  BY <1>1 DEF Ciphers!Source, CipherSized
<1>2. CASE ~job.inPlace
  <2>1. Ciphers!Source = [i \in 1 .. job.size |-> Ciphers!Plain(call, i)]
    BY <1>2 DEF Ciphers!Source, Ciphers!Message
  <2> QED BY <2>1 DEF IsArray
<1> QED BY <1>1, <1>2

LEMMA ChunkInIs ==
  ASSUME CipherSized
  PROVE  /\ IsArray(ChunkIn, Ciphers!ChunkSize)
         /\ Len(ChunkIn) = Ciphers!ChunkSize
         /\ \A i \in 1 .. Ciphers!ChunkSize : ChunkIn[i] = Ciphers!Source[done + i]
<1> DEFINE n == Ciphers!ChunkSize
           m == job.size
           s == Ciphers!Source
           S == {s[i] : i \in 1 .. m}
<1>1. n \in Nat /\ done \in Nat /\ m \in Nat /\ done + n <= m
  BY ChunkCount
<1> HIDE DEF n, m, s
<1>2. \A i \in done + 1 .. done + n : s[i] \in S
  BY <1>1
<1> HIDE DEF S
<1> DEFINE k == done + n
           in == SubSeq(s, done + 1, k)
<1>3. k \in Nat /\ done <= k /\ k - done = n
  BY <1>1
<1>4. /\ in \in Seq(S) /\ Len(in) = k - done /\ \A i \in 1 .. k - done : in[i] = s[done + i]
  <2> HIDE DEF k
  <2> QED BY <1>1, <1>2, <1>3, Cut DEF k
<1>5. in = ChunkIn
  BY DEF ChunkIn, n, s
<1> HIDE DEF k, in
<1>6. IsArray(in, n)
  BY <1>3, <1>4, SeqArray
<1> QED BY <1>3, <1>4, <1>5, <1>6 DEF n, s

LEMMA ApplyArray ==
  ASSUME NEW j, NEW v, NEW in, NEW n, Len(in) = n
  PROVE  IsArray(Ciphers!Apply(j, v, in), n)
<1> DEFINE f == Ciphers!Apply(j, v, in)
<1>1. DOMAIN f = 1 .. n
  BY DEF Ciphers!Apply
<1>2. f = [i \in DOMAIN f |-> f[i]]
  BY DEF Ciphers!Apply
<1> HIDE DEF f
<1>3. IsArray(f, n)
  BY <1>1, <1>2 DEF IsArray
<1> QED BY <1>3 DEF f

LEMMA ChunkAnswers ==
  ASSUME CipherSized
  PROVE  ChunkAnswer(Ciphers!Refusal) /\ ChunkAnswer(ChunkOwn)
<1> DEFINE n == Ciphers!ChunkSize
           out == Ciphers!Apply(job, iv, ChunkIn)
<1>1. n \in Nat
  BY ChunkCount
<1>2. IsArray(out, n)
  BY ChunkInIs, ApplyArray
<1>3. /\ ChunkOwn.status = "KSE_SUCCESS" /\ ChunkOwn.usLen = Ciphers!BlockSize * n + 2
      /\ ChunkOwn.data = out
  BY DEF ChunkOwn, Ciphers!Answer, Ciphers!Success
<1> HIDE DEF n, out
<1>4. ChunkAnswer(ChunkOwn)
  BY <1>1, <1>2, <1>3 DEF ChunkAnswer, IsAnswer, IsChunk, Ciphers!BlockSize
<1>5. ChunkAnswer(Ciphers!Refusal)
  BY DEF ChunkAnswer, IsAnswer, IsChunk, Ciphers!Refusal, Ciphers!Refused
<1> QED BY <1>4, <1>5

\* What a chunk accepts has its blocks.
LEMMA ChunkTakes ==
  ASSUME CipherSized, ExchangeTyped, LateOfChunk, part = "ciphers", NEW a, ChunkAnswer(a),
         a.status = "KSE_SUCCESS" => a.usLen = ChunkBytes,
         NEW x \in Ends(Ciphers!CommandSize, a, FALSE),
         ResultFor(x.got, {ChunkBytes}) = "KSE_SUCCESS"
  PROVE  IsArray(x.got.data, Ciphers!ChunkSize)
<1> DEFINE n == Ciphers!ChunkSize
<1>1. n \in Nat /\ ChunkBytes = 32 * n + 2
  BY ChunkCount DEF ChunkBytes, Ciphers!BlockSize
<1> HIDE DEF n
<1>2. /\ x.got.status = "KSE_SUCCESS" /\ x.got.usLen = ChunkBytes
      /\ x.got # Exchange!Without(Exchange!TransferFails)
      /\ x.got # Exchange!Without(Exchange!UnexpectedResp)
  BY SuccessMeans
<1>3. ~IsMixed(x.got, a)
  BY <1>1, <1>2 DEF IsMixed
<1>4. x.got = a \/ x.got = late
  BY <1>2, <1>3, EndsAre DEF Brought
<1>5. IsChunk(x.got)
  BY <1>4 DEF ChunkAnswer, LateOfChunk
<1>6. PICK m \in Nat : IsArray(x.got.data, m) /\ x.got.usLen = 32 * m + 2
  BY <1>2, <1>5 DEF IsChunk, Ciphers!BlockSize
<1>7. m = n
  BY <1>1, <1>2, <1>6
<1> QED BY <1>6, <1>7 DEF n

LEMMA CounterKept ==
  ASSUME NEW in, NEW out, Len(out) \in Nat, job.mode \in {"CTR", "GCM"}, IsCounter(iv)
  PROVE  IsCounter(Ciphers!NextIv(in, out))
<1>1. CASE job.mode = "CTR"
  <2>1. PICK k \in 0 .. Base * Base - 1 : iv = Ciphers!CounterBlock(k)
    BY DEF IsCounter
  <2>2. Ciphers!ValueOf(iv) = k /\ k \in Nat
    BY <2>1, ValueOfCounter, MCKseAssumption
  <2>3. Ciphers!AddToCounter(Ciphers!ValueOf(iv), Len(out)) \in 0 .. Base * Base - 1
    BY <2>2, SumInRange
  <2>4. Ciphers!NextIv(in, out)
          = Ciphers!CounterBlock(Ciphers!AddToCounter(Ciphers!ValueOf(iv), Len(out)))
    BY <1>1 DEF Ciphers!NextIv
  <2> QED BY <2>3, <2>4 DEF IsCounter
<1>2. CASE job.mode = "GCM"
  BY <1>2 DEF Ciphers!NextIv
<1> QED BY <1>1, <1>2

LEMMA CipherKeepsSizes ==
  ASSUME ExchangeTyped, CipherSized, CipherInv, part = "ciphers", part' = part, LateOfChunk,
         Ciphers!Next
  PROVE  ExchangeTyped' /\ CipherSized' /\ LateOfChunk'
<1>0. \A f, n : IsArray(f, n)' <=> IsArray(f, n)
  BY DEF IsArray
<1>1. CASE Ciphers!Call
  <2>1. PICK j \in Ciphers!Jobs : job' = j
    BY <1>1 DEF Ciphers!Call
  <2>2. /\ call' = call + 1 /\ call < MaxCalls /\ done' = 0
        /\ iv' = Ciphers!IvOf(call', job')
        /\ output' = IF job'.inPlace THEN Ciphers!Message(call', job'.size)
                     ELSE [i \in 1 .. job'.size |-> {}]
        /\ power' = power /\ late' = late /\ failed' = failed /\ pc = "idle"
    BY <1>1 DEF Ciphers!Call, Ciphers!exchangeVars
  <2>3. pc' \in {"idle", "run"} /\ ret' \in Exchange!Results
    <3>1. \A ok : Ciphers!Guarded(ok) \in Exchange!Results
      BY DEF Ciphers!Guarded, Ciphers!NotPoweredOn, Ciphers!WrongInput, Ciphers!Success,
             Exchange!Results, Exchange!NotPoweredOn, Exchange!WrongInput, Exchange!Success
    <3>2. ret \in Exchange!Results
      BY DEF ExchangeTyped
    <3> QED BY <1>1, <2>2, <3>1, <3>2 DEF Ciphers!Call
  <2>4. ExchangeTyped'
    BY <2>2, <2>3 DEF ExchangeTyped, LateTyped, IsAnswer, NoAnswers, Exchange!Results
  <2>5. CipherSized'
    <3>1. call' \in 0 .. MaxCalls
      BY <2>2, MCKseAssumption DEF CipherSized
    <3>2. job'.size \in 0 .. MaxSize /\ done' \in 0 .. job'.size
      BY <2>1, <2>2, MCKseAssumption DEF Ciphers!Jobs
    <3>3. IsArray(output', job'.size)
      BY <2>2 DEF IsArray, Ciphers!Message
    <3>4. job'.mode \in {"CTR", "GCM"} => IsCounter(iv')
      <4>1. job'.iv \in 0 .. Base * Base - 1
        BY <2>1, MCKseAssumption DEF Ciphers!Jobs
      <4> QED BY <2>2, <4>1 DEF Ciphers!IvOf, IsCounter
    <3>5. \A v : IsCounter(v)' <=> IsCounter(v)
      BY DEF IsCounter, Ciphers!CounterBlock
    <3>6. IsArray(output', job'.size) <=> IsArray(output, job.size)'
      BY DEF IsArray
    <3> QED BY <2>3, <3>1, <3>2, <3>3, <3>4, <3>5, <3>6 DEF CipherSized, IsCounter
  <2>6. LateOfChunk'
    BY <2>2 DEF LateOfChunk, IsChunk, IsArray
  <2> QED BY <2>4, <2>5, <2>6
<1>2. CASE Ciphers!Chunk
  <2>1. PICK a \in {Ciphers!Refusal} \cup (IF job.tagOk THEN {ChunkOwn} ELSE {}) :
          \E x \in Ends(Ciphers!CommandSize, a, FALSE) : ChunkEffect(a, x)
    BY <1>2, ChunkDoes
  <2>2. PICK x \in Ends(Ciphers!CommandSize, a, FALSE) : ChunkEffect(a, x)
    BY <2>1
  <2> DEFINE n == Ciphers!ChunkSize
             result == ResultFor(x.got, {ChunkBytes})
  <2>3. /\ LateStep(x) /\ power' = power /\ call' = call /\ job' = job
        /\ IF result # "KSE_SUCCESS"
           THEN pc' = "idle" /\ ret' = result /\ output' = output /\ done' = done /\ iv' = iv
           ELSE /\ output' = Splice(output, job.size, done, x.got.data, n)
                /\ done' = done + n
                /\ iv' = IF n = 0 THEN iv ELSE Ciphers!NextIv(ChunkIn, x.got.data)
                /\ IF done' = job.size THEN pc' = "idle" /\ ret' = "KSE_SUCCESS"
                   ELSE pc' = pc /\ ret' = ret
    BY <2>2 DEF ChunkEffect
  <2>4. ChunkAnswer(a) /\ (a.status = "KSE_SUCCESS" => a.usLen = ChunkBytes)
    <3>1. a \in {Ciphers!Refusal, ChunkOwn}
      BY <2>1
    <3>2. ChunkOwn.usLen = ChunkBytes /\ Ciphers!Refusal.status # "KSE_SUCCESS"
      BY DEF ChunkOwn, ChunkBytes, Ciphers!Answer, Ciphers!Refusal, Ciphers!Refused
    <3> QED BY <3>1, <3>2, ChunkAnswers
  <2> HIDE DEF result, n
  <2>5. /\ result \in Exchange!Results
        /\ LateTyped' /\ failed' \in BOOLEAN /\ (failed' => MayFail)
    <3>1. IsAnswer(a) /\ LateTyped /\ failed \in BOOLEAN /\ (failed => MayFail)
      BY <2>4 DEF ExchangeTyped, ChunkAnswer
    <3> QED BY <2>3, <3>1, TypesKept DEF result
  <2>6. ExchangeTyped'
    <3>1. ret' \in {ret, result, "KSE_SUCCESS"}
      BY <2>3
    <3>2. ret \in Exchange!Results /\ power \in BOOLEAN /\ "KSE_SUCCESS" \in Exchange!Results
      BY DEF ExchangeTyped, Exchange!Results, Exchange!Success
    <3>3. Exchange!Results' = Exchange!Results
      BY DEF Exchange!Results, Exchange!Success, Exchange!NotPoweredOn, Exchange!WrongInput,
             Exchange!TransferFails, Exchange!UnexpectedResp, Exchange!UnexpectedLen,
             Exchange!Refused
    <3> QED BY <2>3, <2>5, <3>1, <3>2, <3>3 DEF ExchangeTyped
  <2>7. LateOfChunk'
    <3>1. x.late \in NoAnswers \cup {a}
      BY EndsAre DEF Left
    <3>2. IsChunk(x.late)
      <4>1. CASE x.late \in NoAnswers
        BY <4>1, NoAnswerFails DEF IsChunk
      <4>2. CASE x.late = a
        BY <2>4, <4>2 DEF ChunkAnswer
      <4> QED BY <3>1, <4>1, <4>2
    <3>3. late' = x.late
      BY <2>3 DEF LateStep
    <3> QED BY <3>2, <3>3 DEF LateOfChunk, IsChunk, IsArray
  <2>8. CASE result # "KSE_SUCCESS"
    <3>1. CipherSized'
      <4>1. /\ pc' = "idle" /\ output' = output /\ done' = done /\ iv' = iv
            /\ call' = call /\ job' = job
        BY <2>3, <2>8
      <4> QED BY <4>1 DEF CipherSized, IsArray, IsCounter, Ciphers!CounterBlock
    <3> QED BY <2>6, <2>7, <3>1
  <2>9. CASE result = "KSE_SUCCESS"
    <3> DEFINE t == x.got.data
    <3>1. IsArray(t, n)
      BY <2>4, <2>9, ChunkTakes DEF result, n
    <3>2. /\ n \in Nat /\ done \in Nat /\ job.size \in Nat /\ done + n <= job.size
      BY ChunkCount DEF n
    <3>3. Len(t) = n
      BY <3>1, <3>2, ArraySeq
    <3>4. /\ output' = Splice(output, job.size, done, t, n) /\ done' = done + n
          /\ iv' = IF n = 0 THEN iv ELSE Ciphers!NextIv(ChunkIn, t)
          /\ pc' \in {pc, "idle"} /\ call' = call /\ job' = job
      BY <2>3, <2>9
    <3> HIDE DEF t
    <3>5. IsArray(output', job.size)
      <4>1. IsArray(output, job.size)
        BY DEF CipherSized
      <4> QED BY <3>1, <3>2, <3>4, <4>1, SplicedArray
    <3>6. call > 0 /\ job.mode \in {"CTR", "GCM"} => IsCounter(iv')
      <4>1. call > 0 /\ job.mode \in {"CTR", "GCM"} => IsCounter(iv)
        BY DEF CipherSized
      <4> QED BY <3>2, <3>3, <3>4, <4>1, CounterKept
    <3>7. \A v : IsCounter(v)' <=> IsCounter(v)
      BY DEF IsCounter, Ciphers!CounterBlock
    <3>8. done' \in 0 .. job.size
      BY <3>2, <3>4
    <3>9. IsArray(output', job.size) <=> IsArray(output, job.size)'
      BY <3>4 DEF IsArray
    <3>10. CipherSized'
      BY <3>4, <3>5, <3>6, <3>7, <3>8, <3>9 DEF CipherSized, IsCounter
    <3> QED BY <2>6, <2>7, <3>10
  <2> QED BY <2>8, <2>9
<1> QED
  BY <1>1, <1>2 DEF Ciphers!Next

-----------------------------------------------------------------------------
(* Sizes of the whole.                                                     *)

StoreSized ==
  /\ part \in {"keys", "certs", "file", "ciphers", "hash"}
  /\ part \in {"keys", "ciphers", "hash"} => Sized(KeyContents)
  /\ part = "certs" => Sized(CertContents)
  /\ part = "file" => Sized(FileContents)
  /\ NoOverrun
SizeInv == ExchangeTyped /\ StoreSized /\ CipherSized /\ LateOfChunk /\ HashSized /\ LateOfHash

LEMMA InitSizeInv == Init => SizeInv
<1> SUFFICES ASSUME Init PROVE SizeInv
  OBVIOUS
<1>1. power \in BOOLEAN /\ ret = "KSE_SUCCESS" /\ late = Exchange!NoReport /\ failed = FALSE
  BY DEF Init, Hash!Init, Hash!ExchangeInit, Hash!Success, Hash!NoReport, Hash!NoData,
         Exchange!NoReport, Exchange!NoData
<1>2. ExchangeTyped
  BY <1>1 DEF ExchangeTyped, LateTyped, NoAnswers, Exchange!Results, Exchange!Success
<1>3. LateOfChunk /\ LateOfHash
  <2>1. late.status # "KSE_SUCCESS"
    BY <1>1, NoAnswerFails DEF NoAnswers
  <2> QED BY <2>1 DEF LateOfChunk, IsChunk, LateOfHash, OfHash
<1>4. CipherSized
  <2>1. /\ pc = "idle" /\ call = 0 /\ output = <<>> /\ done = 0 /\ job.size = 0
    BY DEF Init, Ciphers!Init
  <2>2. IsArray(<<>>, 0)
    BY DEF IsArray
  <2> QED BY <2>1, <2>2, MCKseAssumption DEF CipherSized
<1>5. HashSized
  BY MCKseAssumption DEF Init, Hash!Init, HashSized, Hash!None, Hash!Result, Hash!Algs, DigestAlgs
<1>6. NoOverrun
  <2>1. last = Memory!NoCommand
    BY DEF Init, KeyStore!Init, KeyStore!InitWith, KeyStore!NoCommand, CertStore!Init,
           CertStore!InitWith, CertStore!NoCommand, InfoFile!Init, InfoFile!InitWith,
           InfoFile!NoCommand, Memory!NoCommand
  <2> QED BY <2>1 DEF NoOverrun, Memory!NoCommand
<1>7. CASE part \in {"keys", "ciphers", "hash"} /\ KeyStore!Init
  <2>1. /\ store = [s \in KeyStore!Slots |-> Memory!Empty] /\ DOMAIN told = KeyStore!Slots
    BY <1>7 DEF KeyStore!Init, KeyStore!InitWith, KeyStore!Empty, KeyStore!Content,
                Memory!Empty, Memory!Content
  <2>2. DOMAIN KeyContents = KeyStore!Slots
    BY DEF KeyContents
  <2>3. Sized(KeyContents)
    BY <2>1, <2>2, KeyContent DEF Sized
  <2> QED BY <1>2, <1>3, <1>4, <1>5, <1>6, <1>7, <2>3 DEF SizeInv, StoreSized
<1>8. CASE part = "certs" /\ CertStore!Init
  <2>1. /\ store = [s \in CertStore!Slots |-> Memory!Empty] /\ DOMAIN told = CertStore!Slots
    BY <1>8 DEF CertStore!Init, CertStore!InitWith, CertStore!Empty, CertStore!Content,
                Memory!Empty, Memory!Content
  <2>2. DOMAIN CertContents = CertStore!Slots
    BY DEF CertContents
  <2>3. Sized(CertContents)
    BY <2>1, <2>2, CertContent DEF Sized
  <2> QED BY <1>2, <1>3, <1>4, <1>5, <1>6, <1>8, <2>3 DEF SizeInv, StoreSized
<1>9. CASE part = "file" /\ InfoFile!Init
  <2>1. /\ store = [s \in InfoFile!Slots |-> Memory!Empty] /\ DOMAIN told = InfoFile!Slots
    BY <1>9 DEF InfoFile!Init, InfoFile!InitWith, InfoFile!Empty, InfoFile!Content,
                Memory!Empty, Memory!Content
  <2>2. DOMAIN FileContents = InfoFile!Slots
    BY DEF FileContents
  <2>3. Sized(FileContents)
    BY <2>1, <2>2, FileContent DEF Sized
  <2> QED BY <1>2, <1>3, <1>4, <1>5, <1>6, <1>9, <2>3 DEF SizeInv, StoreSized
<1> QED BY <1>7, <1>8, <1>9 DEF Init

\* What a group that is not the run's own has stays as it began.
LEMMA CipherAlone ==
  ASSUME CipherSized, UNCHANGED cipherVars
  PROVE  CipherSized'
BY DEF CipherSized, cipherVars, IsArray, IsCounter, Ciphers!CounterBlock

LEMMA HashAlone ==
  ASSUME HashSized, UNCHANGED hashVars
  PROVE  HashSized'
BY DEF HashSized, hashVars, Hash!Algs, DigestAlgs

LEMMA StoreSizedAlone ==
  ASSUME StoreSized, UNCHANGED <<part, storeVars>>
  PROVE  StoreSized'
BY DEF StoreSized, storeVars, NoOverrun, Sized, KeyContents, CertContents, FileContents

LEMMA OtherLate ==
  ASSUME part \notin {"ciphers", "hash"}, part' = part
  PROVE  LateOfChunk' /\ LateOfHash'
BY DEF LateOfChunk, LateOfHash

LEMMA StepSizeInv == IInv /\ SizeInv /\ [Next]_vars => SizeInv'
<1> SUFFICES ASSUME IInv, SizeInv, [Next]_vars PROVE SizeInv'
  OBVIOUS
<1>i. ExchangeTyped /\ StoreSized /\ CipherSized /\ LateOfChunk /\ HashSized /\ LateOfHash
  BY DEF SizeInv
<1>1. CASE part = "keys" /\ KeyStore!Next /\ UNCHANGED <<part, cipherVars, hashVars>>
  <2>1. ExchangeTyped' /\ Sized(KeyContents)' /\ NoOverrun'
    <3>1. Sized(KeyContents)
      BY <1>i, <1>1 DEF StoreSized
    <3> QED BY <1>i, <1>1, <3>1, KeySized, WriteSized, ReadSized
  <2>2. StoreSized'
    BY <1>1, <2>1 DEF StoreSized
  <2>3. CipherSized' /\ HashSized' /\ LateOfChunk' /\ LateOfHash'
    BY <1>i, <1>1, CipherAlone, HashAlone, OtherLate
  <2> QED BY <2>1, <2>2, <2>3 DEF SizeInv
<1>2. CASE part = "certs" /\ CertStore!Next /\ UNCHANGED <<part, cipherVars, hashVars>>
  <2>1. ExchangeTyped' /\ Sized(CertContents)' /\ NoOverrun'
    <3>1. Sized(CertContents)
      BY <1>i, <1>2 DEF StoreSized
    <3> QED BY <1>i, <1>2, <3>1, CertSized, WriteSized, ReadSized
  <2>2. StoreSized'
    BY <1>2, <2>1 DEF StoreSized
  <2>3. CipherSized' /\ HashSized' /\ LateOfChunk' /\ LateOfHash'
    BY <1>i, <1>2, CipherAlone, HashAlone, OtherLate
  <2> QED BY <2>1, <2>2, <2>3 DEF SizeInv
<1>3. CASE part = "file" /\ InfoFile!Next /\ UNCHANGED <<part, cipherVars, hashVars>>
  <2>1. ExchangeTyped' /\ Sized(FileContents)' /\ NoOverrun'
    <3>1. Sized(FileContents)
      BY <1>i, <1>3 DEF StoreSized
    <3> QED BY <1>i, <1>3, <3>1, FileSized, WriteSized, ReadSized
  <2>2. StoreSized'
    BY <1>3, <2>1 DEF StoreSized
  <2>3. CipherSized' /\ HashSized' /\ LateOfChunk' /\ LateOfHash'
    BY <1>i, <1>3, CipherAlone, HashAlone, OtherLate
  <2> QED BY <2>1, <2>2, <2>3 DEF SizeInv
<1>4. CASE part = "ciphers" /\ Ciphers!Next /\ UNCHANGED <<part, storeVars, hashVars>>
  <2>1. CipherInv
    BY <1>4 DEF IInv, CipherPart
  <2>2. ExchangeTyped' /\ CipherSized' /\ LateOfChunk'
    BY <1>i, <1>4, <2>1, CipherKeepsSizes
  <2>3. StoreSized' /\ HashSized'
    BY <1>i, <1>4, StoreSizedAlone, HashAlone
  <2>4. LateOfHash'
    BY <1>4 DEF LateOfHash
  <2> QED BY <2>2, <2>3, <2>4 DEF SizeInv
<1>5. CASE part = "hash" /\ Hash!Next /\ UNCHANGED <<part, storeVars, cipherVars>>
  <2>1. HashInv
    BY <1>5 DEF IInv, HashPart
  <2>2. ExchangeTyped' /\ HashSized' /\ LateOfHash'
    BY <1>i, <1>5, <2>1, HashKeepsSizes
  <2>3. StoreSized' /\ CipherSized'
    BY <1>i, <1>5, StoreSizedAlone, CipherAlone
  <2>4. LateOfChunk'
    BY <1>5 DEF LateOfChunk
  <2> QED BY <2>2, <2>3, <2>4 DEF SizeInv
<1>6. CASE UNCHANGED vars
  <2>1. UNCHANGED <<part, power, ret, late, failed>> /\ UNCHANGED storeVars
        /\ UNCHANGED cipherVars /\ UNCHANGED hashVars
    BY <1>6 DEF vars, exchangeVars
  <2>2. ExchangeTyped'
    BY <1>i, <2>1 DEF ExchangeTyped, LateTyped, IsAnswer, NoAnswers, Exchange!Results
  <2>3. LateOfChunk' /\ LateOfHash'
    BY <1>i, <2>1 DEF LateOfChunk, IsChunk, IsArray, LateOfHash, OfHash
  <2>4. StoreSized' /\ CipherSized' /\ HashSized'
    BY <1>i, <2>1, StoreSizedAlone, CipherAlone, HashAlone
  <2> QED BY <2>2, <2>3, <2>4 DEF SizeInv
<1> QED
  BY <1>1, <1>2, <1>3, <1>4, <1>5, <1>6 DEF Next

\* The type invariants of the groups.
LEMMA ExchangeTypes ==
  ASSUME ExchangeTyped
  PROVE  /\ KeyStore!ExchangeTypeOK /\ CertStore!ExchangeTypeOK /\ InfoFile!ExchangeTypeOK
         /\ Ciphers!ExchangeTypeOK /\ Hash!ExchangeTypeOK
<1>1. late.status \in {"KSE_SUCCESS", "KSE_FAIL_STATE", "none", "ack", "rest of an answer"}
  <2>1. CASE late \in NoAnswers
    BY <2>1, NoAnswerFails
  <2>2. CASE IsAnswer(late)
    BY <2>2 DEF IsAnswer
  <2> QED BY <2>1, <2>2 DEF ExchangeTyped, LateTyped
<1>2. power \in BOOLEAN /\ ret \in Exchange!Results /\ failed \in BOOLEAN /\ (failed => MayFail)
  BY DEF ExchangeTyped
<1>3. Exchange!ExchangeTypeOK
  BY <1>1, <1>2 DEF Exchange!ExchangeTypeOK, Exchange!Success, Exchange!Refused
<1>4. KeyStore!ExchangeTypeOK
  BY <1>3 DEF Exchange!ExchangeTypeOK, KeyStore!ExchangeTypeOK, Exchange!Results, KeyStore!Results,
     Exchange!Success, Exchange!Refused, KeyStore!Success, KeyStore!Refused,
     Exchange!NotPoweredOn, Exchange!WrongInput, Exchange!TransferFails,
     Exchange!UnexpectedResp, Exchange!UnexpectedLen, KeyStore!NotPoweredOn, KeyStore!WrongInput,
     KeyStore!TransferFails, KeyStore!UnexpectedResp, KeyStore!UnexpectedLen
<1>5. CertStore!ExchangeTypeOK
  BY <1>3 DEF Exchange!ExchangeTypeOK, CertStore!ExchangeTypeOK, Exchange!Results,
     CertStore!Results, Exchange!Success, Exchange!Refused, CertStore!Success, CertStore!Refused,
     Exchange!NotPoweredOn, Exchange!WrongInput, Exchange!TransferFails,
     Exchange!UnexpectedResp, Exchange!UnexpectedLen, CertStore!NotPoweredOn,
     CertStore!WrongInput, CertStore!TransferFails, CertStore!UnexpectedResp,
     CertStore!UnexpectedLen
<1>6. InfoFile!ExchangeTypeOK
  BY <1>3 DEF Exchange!ExchangeTypeOK, InfoFile!ExchangeTypeOK, Exchange!Results,
     InfoFile!Results, Exchange!Success, Exchange!Refused, InfoFile!Success, InfoFile!Refused,
     Exchange!NotPoweredOn, Exchange!WrongInput, Exchange!TransferFails,
     Exchange!UnexpectedResp, Exchange!UnexpectedLen, InfoFile!NotPoweredOn,
     InfoFile!WrongInput, InfoFile!TransferFails, InfoFile!UnexpectedResp, InfoFile!UnexpectedLen
<1>7. Ciphers!ExchangeTypeOK
  BY <1>3 DEF Exchange!ExchangeTypeOK, Ciphers!ExchangeTypeOK, Exchange!Results, Ciphers!Results,
     Exchange!Success, Exchange!Refused, Ciphers!Success, Ciphers!Refused,
     Exchange!NotPoweredOn, Exchange!WrongInput, Exchange!TransferFails,
     Exchange!UnexpectedResp, Exchange!UnexpectedLen, Ciphers!NotPoweredOn, Ciphers!WrongInput,
     Ciphers!TransferFails, Ciphers!UnexpectedResp, Ciphers!UnexpectedLen
<1>8. Hash!ExchangeTypeOK
  BY <1>3 DEF Exchange!ExchangeTypeOK, Hash!ExchangeTypeOK, Exchange!Results, Hash!Results,
     Exchange!Success, Exchange!Refused, Hash!Success, Hash!Refused,
     Exchange!NotPoweredOn, Exchange!WrongInput, Exchange!TransferFails,
     Exchange!UnexpectedResp, Exchange!UnexpectedLen, Hash!NotPoweredOn, Hash!WrongInput,
     Hash!TransferFails, Hash!UnexpectedResp, Hash!UnexpectedLen
<1> QED BY <1>4, <1>5, <1>6, <1>7, <1>8

LEMMA SizeInvHolds == Spec => []SizeInv
BY InitSizeInv, StepSizeInv, IInvHolds, PTL DEF Spec

(***************************************************************************)
(* Sizes are right on both sides: every key, certificate and region in the *)
(* device has the size of its type, every array the length it was given,   *)
(* and no answer, however late and of whatever length, is copied beyond    *)
(* the caller's array (kse_ubuntu.c 969-1374, 1402-2229, 2313-2873).       *)
(***************************************************************************)
THEOREM SizesTheorem == Spec => []SizesRight
<1>1. SizeInv => SizesRight
  <2> SUFFICES ASSUME SizeInv PROVE SizesRight
    OBVIOUS
  <2>1. ExchangeTyped /\ StoreSized /\ CipherSized /\ HashSized
    BY DEF SizeInv
  <2>2. part \in {"keys", "ciphers", "hash"} => KeyStore!TypeOK
    <3> SUFFICES ASSUME Sized(KeyContents) PROVE KeyStore!TypeOK
      BY <2>1 DEF StoreSized
    <3>1. DOMAIN KeyContents = KeyStore!Slots
      BY DEF KeyContents
    <3>2. DOMAIN told = KeyStore!Slots /\ \A s \in KeyStore!Slots : store[s] \in KeyContents[s]
      BY <3>1 DEF Sized
    <3>3. ASSUME NEW s \in KeyStore!Slots
          PROVE  \/ store[s] = KeyStore!Empty
                 \/ store[s].size \in KeyStore!SizesOf(s[1])
                 \/ s[1] = "HMAC" /\ store[s] = KeyStore!Content(s[2], KeyStore!SizeIgnored)
      BY <3>2, KeyContent DEF KeyStore!Empty, KeyStore!Content, KeyStore!SizeIgnored,
                              Memory!SizeIgnored, Memory!Empty, Memory!Content
    <3> QED BY <2>1, <3>2, <3>3, ExchangeTypes DEF KeyStore!TypeOK
  <2>3. part = "certs" => CertStore!TypeOK
    <3> SUFFICES ASSUME Sized(CertContents) PROVE CertStore!TypeOK
      BY <2>1 DEF StoreSized
    <3>1. DOMAIN CertContents = CertStore!Slots
      BY DEF CertContents
    <3>2. DOMAIN told = CertStore!Slots /\ \A s \in CertStore!Slots : store[s] \in CertContents[s]
      BY <3>1 DEF Sized
    <3>3. ASSUME NEW s \in CertStore!Slots
          PROVE  \/ store[s] = CertStore!Empty
                 \/ store[s].value \in CertValues \cup {"GENERATED"}
                    /\ store[s].size = SizeIn(s[1])
      BY <3>2, CertContent DEF CertStore!Empty, CertStore!Content, Memory!Empty, Memory!Content
    <3> QED BY <2>1, <3>2, <3>3, ExchangeTypes DEF CertStore!TypeOK, SizeIn
  <2>4. part = "file" => InfoFile!TypeOK
    <3> SUFFICES ASSUME Sized(FileContents) PROVE InfoFile!TypeOK
      BY <2>1 DEF StoreSized
    <3>1. DOMAIN FileContents = InfoFile!Slots
      BY DEF FileContents
    <3>2. DOMAIN told = InfoFile!Slots /\ \A s \in InfoFile!Slots : store[s] \in FileContents[s]
      BY <3>1 DEF Sized
    <3>3. ASSUME NEW s \in InfoFile!Slots
          PROVE  \/ store[s] = InfoFile!Empty
                 \/ store[s].value \in FileValues \cup {"GENERATED"}
                    /\ store[s].size = SizeIn(s[1])
      BY <3>2, FileContent DEF InfoFile!Empty, InfoFile!Content, Memory!Empty, Memory!Content
    <3> QED BY <2>1, <3>2, <3>3, ExchangeTypes DEF InfoFile!TypeOK, SizeIn
  <2>5. Ciphers!TypeOK
    <3>1. job.size \in Nat /\ IsArray(output, job.size)
      BY <2>1, MCKseAssumption DEF CipherSized
    <3>2. Len(output) = job.size
      BY <3>1, ArraySeq
    <3>3. call > 0 /\ job.mode \in {"CTR", "GCM"} => Ciphers!ValueOf(iv) \in 0 .. Base * Base - 1
      BY <2>1, ValueOfCounter DEF CipherSized, IsCounter
    <3> QED BY <2>1, <3>2, <3>3, ExchangeTypes DEF Ciphers!TypeOK, CipherSized
  <2>6. Hash!TypeOK
    <3>1. hashJob.size <= HashSize
      BY <2>1, MCKseAssumption DEF HashSized
    <3> QED BY <2>1, <3>1, ExchangeTypes DEF Hash!TypeOK, HashSized, DigestAlgs
  <2>7. KeyStore!NoOverrun
    BY <2>1 DEF StoreSized, NoOverrun, KeyStore!NoOverrun
  <2> QED BY <2>2, <2>3, <2>4, <2>5, <2>6, <2>7 DEF SizesRight, TypeOK
<1> QED
  BY <1>1, SizeInvHolds, PTL

(***************************************************************************)
(* A set of numbers has a least one, so that what fails for a block or a   *)
(* length fails for one first.                                             *)
(***************************************************************************)
LEMMA LeastNumber == ASSUME NEW T, T \subseteq Nat, T # {}
                     PROVE  \E x \in T : \A y \in T : x <= y
  <1> DEFINE R == OpToRel(<, Nat)
  <1>1. IsWellFoundedOn(R, Nat)
    BY NatLessThanWellFounded
  <1> HIDE DEF R
  <1>2. PICK x \in T : \A y \in T : ~(<<y, x>> \in R)
    BY <1>1, WFMin
  <1>3. \A y \in T : ~(y < x)
    BY <1>2 DEF R, OpToRel
  <1> QED BY <1>2, <1>3

-----------------------------------------------------------------------------
(* Counters.  Remainders by any number: the provers know of products of    *)
(* unknowns no more than that they distribute.                             *)

\* q times d is in x, and r is left over.
Split(x, d, q, r) == x = d * q + r /\ 0 <= r /\ r < d

LEMMA Divided ==
  ASSUME NEW d \in Nat, d # 0, NEW x \in Int
  PROVE  /\ x \div d \in Int /\ x % d \in Int /\ Split(x, d, x \div d, x % d)
         /\ x \in Nat => x \div d \in Nat
  BY DEF Split

LEMMA RestUnique ==
  ASSUME NEW d \in Nat, d # 0, NEW q \in Int, NEW r \in Int, NEW x \in Int, Split(x, d, q, r)
  PROVE  x % d = r
  BY DEF Split

LEMMA SplitSum ==
  ASSUME NEW d \in Int, NEW x \in Int, NEW y \in Int, NEW p \in Int, NEW s \in Int,
         NEW q \in Int, NEW t \in Int, Split(x, d, p, s), Split(s + y, d, q, t)
  PROVE  Split(x + y, d, p + q, t)
<1>1. d * (p + q) = d * p + d * q
  OBVIOUS
<1>2. d * p \in Int /\ d * q \in Int
  OBVIOUS
<1>3. PICK a \in Int, b \in Int, c \in Int : a = d * p /\ b = d * q /\ c = d * (p + q) /\ c = a + b
  BY <1>1, <1>2
<1>4. x = a + s /\ s + y = b + t /\ 0 <= t /\ t < d
  BY <1>3 DEF Split
<1>5. x + y = c + t
  BY <1>3, <1>4
<1> QED BY <1>3, <1>4, <1>5 DEF Split

\* A summand may be reduced first.
LEMMA RestSum ==
  ASSUME NEW d \in Nat, d # 0, NEW x \in Int, NEW y \in Int
  PROVE  ((x % d) + y) % d = (x + y) % d
<1>1. x % d \in Int /\ (x % d) + y \in Int /\ ((x % d) + y) % d \in Int
  BY Divided
<1>2. x \div d \in Int /\ ((x % d) + y) \div d \in Int
  BY <1>1, Divided
<1>3. Split(x, d, x \div d, x % d)
  BY Divided
<1>4. Split((x % d) + y, d, ((x % d) + y) \div d, ((x % d) + y) % d)
  BY <1>1, Divided
<1> DEFINE s == x % d
           p == x \div d
           t == ((x % d) + y) % d
           q == ((x % d) + y) \div d
<1>5. s \in Int /\ p \in Int /\ t \in Int /\ q \in Int /\ Split(x, d, p, s) /\ Split(s + y, d, q, t)
  BY <1>1, <1>2, <1>3, <1>4
<1> HIDE DEF s, t, p, q
<1>6. p + q \in Int /\ x + y \in Int /\ Split(x + y, d, p + q, t)
  BY <1>5, SplitSum
<1>7. (x + y) % d = t
  BY <1>5, <1>6, RestUnique
<1> QED BY <1>7 DEF t

\* A number of two digits, whose lower one is added to, with the carry.
LEMMA SplitDigits ==
  ASSUME NEW B \in Nat, B # 0, NEW v \in Int, NEW a \in Int, NEW b \in Int, NEW n \in Int,
         NEW low \in Int, low = n + b, NEW e \in Int, NEW f \in Int,
         NEW high \in Int, high = e + a, NEW q \in Int, NEW h \in Int,
         Split(v, B, a, b), Split(low, B, e, f), Split(high, B, q, h)
  PROVE  Split(v + n, B * B, q, h * B + f)
<1>1. B * (e + a) = B * e + B * a /\ B * e \in Int /\ B * a \in Int
  OBVIOUS
<1>2. v + n = B * (e + a) + f
  BY <1>1 DEF Split
<1>3. B * (e + a) = B * (B * q + h)
  BY DEF Split
<1>4. B * (B * q + h) = (B * B) * q + h * B
  OBVIOUS
<1>5. (B * B) * q \in Int /\ h * B \in Int
  OBVIOUS
<1>6. v + n = (B * B) * q + (h * B + f)
  BY <1>2, <1>3, <1>4, <1>5
<1>7. 0 <= h * B + f
  BY DEF Split
<1>8. h * B + f < B * B
  BY DEF Split
<1> QED BY <1>6, <1>7, <1>8 DEF Split

LEMMA DigitsAdded ==
  ASSUME NEW B \in Nat, B # 0, NEW v \in Int, NEW n \in Int
  PROVE  LET low == n + (v % B)
             high == (low \div B) + (v \div B)
         IN (v + n) % (B * B) = (high % B) * B + (low % B)
<1>0. v \div B \in Int /\ v % B \in Int /\ Split(v, B, v \div B, v % B)
  BY Divided
<1> DEFINE a == v \div B
           b == v % B
<1>1. a \in Int /\ b \in Int /\ Split(v, B, a, b)
  BY <1>0
<1> DEFINE low == n + b
           e == low \div B
           f == low % B
           high == e + a
           q == high \div B
           h == high % B
<1> HIDE DEF a, b
<1>2. low \in Int
  BY <1>1
<1> HIDE DEF low
<1>3. e \in Int /\ f \in Int /\ Split(low, B, e, f)
  BY <1>2, Divided
<1> HIDE DEF e, f
<1>4. high \in Int
  BY <1>1, <1>3
<1> HIDE DEF high
<1>5. q \in Int /\ h \in Int /\ Split(high, B, q, h)
  BY <1>4, Divided
<1> HIDE DEF q, h
<1>6. low = n + b /\ high = e + a
  BY DEF low, high
<1>7. v \in Int /\ n \in Int
  OBVIOUS
<1>8. Split(v + n, B * B, q, h * B + f)
  BY <1>1, <1>2, <1>3, <1>4, <1>5, <1>6, <1>7, SplitDigits
<1>9. B * B \in Nat /\ B * B # 0 /\ h * B + f \in Int /\ v + n \in Int
  BY <1>3, <1>5
<1>10. (v + n) % (B * B) = h * B + f
  BY <1>5, <1>8, <1>9, RestUnique
<1> QED BY <1>10 DEF a, b, low, e, f, high, q, h

LEMMA CounterAdds ==
  ASSUME NEW v \in Nat, NEW n \in Nat
  PROVE  Ciphers!AddToCounter(v, n) = (v + n) % (Base * Base)
<1>1. Base \in Nat /\ Base # 0 /\ v \in Int /\ n \in Int
  BY MCKseAssumption
<1>2. LET low == n + (v % Base)
          high == (low \div Base) + (v \div Base)
      IN  (v + n) % (Base * Base) = (high % Base) * Base + (low % Base)
  BY <1>1, DigitsAdded
<1> QED BY <1>2 DEF Ciphers!AddToCounter

-----------------------------------------------------------------------------
(* The modes.  What a mode makes of a message is determined block by block *)
(* (OutBlock): a block of the output depends on the message, the IV and,   *)
(* in CBC mode, the block of the output before.                            *)

\* Block i of the output out, when the message is in and its IV v.
OutBlock(j, v, in, out, i) ==
  CASE j.mode = "ECB" -> Ciphers!Crypt(j.dir, j.alg, in[i])
    [] j.mode = "CBC" /\ j.dir = "E" ->
         Ciphers!Crypt("E", j.alg, Ciphers!Xor(in[i], IF i = 1 THEN v ELSE out[i - 1]))
    [] j.mode = "CBC" /\ j.dir = "D" ->
         Ciphers!Xor(Ciphers!Crypt("D", j.alg, in[i]), IF i = 1 THEN v ELSE in[i - 1])
    [] OTHER ->
         Ciphers!Xor(in[i], Ciphers!Crypt("E", j.alg,
           Ciphers!CounterBlock((Ciphers!ValueOf(v) + i - 1) % (Base * Base))))
Runs(j, v, in, out, n) == \A i \in 1 .. n : out[i] = OutBlock(j, v, in, out, i)

\* The chain of Apply's CBC mode: a function that refers to itself.
Link(j, in, i, x) == Ciphers!Crypt("E", j.alg, Ciphers!Xor(in[i], x))
IsChain(f, j, v, in, n) ==
  f = [i \in 0 .. n |-> IF i = 0 THEN v ELSE Link(j, in, i, f[i - 1])]

(***************************************************************************)
(* There is such a function on every length, for the least length without  *)
(* one is not 0, and one on the length before can be continued.            *)
(***************************************************************************)
LEMMA ChainExists ==
  ASSUME NEW j, NEW v, NEW in, NEW n \in Nat
  PROVE  \E f : IsChain(f, j, v, in, n)
<1> DEFINE T == {m \in Nat : ~\E f : IsChain(f, j, v, in, m)}
<1> SUFFICES ASSUME T # {} PROVE FALSE
  OBVIOUS
<1>1. PICK m \in T : \A k \in T : m <= k
  <2>1. T \subseteq Nat
    OBVIOUS
  <2> HIDE DEF T
  <2> QED BY <2>1, LeastNumber
<1>2. m \in Nat /\ ~\E f : IsChain(f, j, v, in, m)
  OBVIOUS
<1>3. m # 0
  <2> DEFINE g == [i \in 0 .. 0 |-> v]
  <2>1. g = [i \in 0 .. 0 |-> IF i = 0 THEN v ELSE Link(j, in, i, g[i - 1])]
    OBVIOUS
  <2> HIDE DEF g
  <2>2. IsChain(g, j, v, in, 0)
    BY <2>1 DEF IsChain
  <2> QED BY <1>2, <2>2
<1> DEFINE k == m - 1
<1>4. k \in Nat /\ k + 1 = m /\ k < m
  BY <1>2, <1>3
<1>5. PICK f : IsChain(f, j, v, in, k)
  <2>1. k \notin T
    <3> HIDE DEF T, k
    <3> QED BY <1>1, <1>2, <1>4
  <2> HIDE DEF k
  <2> QED BY <1>4, <2>1
<1> HIDE DEF T, k
<1> DEFINE g == [i \in 0 .. m |-> IF i = m THEN Link(j, in, m, f[k]) ELSE f[i]]
<1>6. /\ DOMAIN f = 0 .. k /\ f[0] = v
      /\ \A i \in 0 .. k : i # 0 => f[i] = Link(j, in, i, f[i - 1])
  <2>1. f = [i \in 0 .. k |-> IF i = 0 THEN v ELSE Link(j, in, i, f[i - 1])]
    BY <1>5 DEF IsChain
  <2> DEFINE h == [i \in 0 .. k |-> IF i = 0 THEN v ELSE Link(j, in, i, f[i - 1])]
  <2>2. /\ DOMAIN h = 0 .. k /\ h[0] = v
        /\ \A i \in 0 .. k : i # 0 => h[i] = Link(j, in, i, f[i - 1])
    BY <1>4
  <2>3. f = h
    BY <2>1
  <2> HIDE DEF h
  <2> QED BY <2>2, <2>3
<1>7. ASSUME NEW i \in 0 .. m
      PROVE  g[i] = IF i = 0 THEN v ELSE Link(j, in, i, g[i - 1])
  <2>1. CASE i = 0
    BY <1>3, <1>4, <1>6, <2>1
  <2>2. CASE i = m
    <3>1. g[m] = Link(j, in, m, f[k]) /\ g[k] = f[k] /\ m - 1 = k
      BY <1>2, <1>3, <1>4
    <3> HIDE DEF g
    <3> QED BY <1>3, <2>2, <3>1
  <2>3. CASE i # 0 /\ i # m
    <3>1. i \in 0 .. k /\ i - 1 \in 0 .. k /\ i - 1 # m /\ i - 1 \in 0 .. m
      BY <1>4, <2>3
    <3>2. g[i] = f[i] /\ g[i - 1] = f[i - 1]
      BY <2>3, <3>1
    <3> HIDE DEF g
    <3> QED BY <1>6, <2>3, <3>1, <3>2
  <2> QED BY <2>1, <2>2, <2>3
<1>8. g = [i \in 0 .. m |-> IF i = 0 THEN v ELSE Link(j, in, i, g[i - 1])]
  <2> DEFINE h == [i \in 0 .. m |-> IF i = 0 THEN v ELSE Link(j, in, i, g[i - 1])]
  <2>1. DOMAIN g = 0 .. m /\ g = [i \in DOMAIN g |-> g[i]]
    OBVIOUS
  <2> HIDE DEF g
  <2> QED BY <1>7, <2>1
<1> HIDE DEF g
<1>9. IsChain(g, j, v, in, m)
  BY <1>8 DEF IsChain
<1> QED BY <1>2, <1>9

\* So what Apply makes of a message runs by the blocks.
LEMMA ApplyRuns ==
  ASSUME NEW j, NEW v, NEW in, NEW n \in Nat, Len(in) = n, j.dir \in {"E", "D"}
  PROVE  Runs(j, v, in, Ciphers!Apply(j, v, in), n)
<1> DEFINE out == Ciphers!Apply(j, v, in)
           e == CHOOSE f : IsChain(f, j, v, in, n)
<1>1. IsChain(e, j, v, in, n)
  BY ChainExists
<1>2. ASSUME NEW i \in 1 .. n
      PROVE  out[i] =
               CASE j.mode = "ECB" -> Ciphers!Crypt(j.dir, j.alg, in[i])
                 [] j.mode = "CBC" /\ j.dir = "E" -> e[i]
                 [] j.mode = "CBC" /\ j.dir = "D" ->
                      Ciphers!Xor(Ciphers!Crypt("D", j.alg, in[i]), IF i = 1 THEN v ELSE in[i - 1])
                 [] OTHER ->
                      Ciphers!Xor(in[i], Ciphers!Crypt("E", j.alg,
                        Ciphers!CounterBlock((Ciphers!ValueOf(v) + i - 1) % (Base * Base))))
  BY DEF Ciphers!Apply, IsChain, Link
<1>3. e[0] = v /\ \A i \in 1 .. n : e[i] = Link(j, in, i, e[i - 1])
  <2> HIDE DEF e
  <2>1. e = [i \in 0 .. n |-> IF i = 0 THEN v ELSE Link(j, in, i, e[i - 1])]
    BY <1>1 DEF IsChain
  <2> DEFINE h == [i \in 0 .. n |-> IF i = 0 THEN v ELSE Link(j, in, i, e[i - 1])]
  <2>2. h[0] = v /\ \A i \in 1 .. n : h[i] = Link(j, in, i, e[i - 1])
    OBVIOUS
  <2>3. e = h
    BY <2>1
  <2> HIDE DEF h
  <2> QED BY <2>2, <2>3
<1> HIDE DEF out, e
<1>4. CASE j.mode = "CBC" /\ j.dir = "E"
  <2>1. \A i \in 1 .. n : out[i] = e[i]
    BY <1>2, <1>4
  <2>2. ASSUME NEW i \in 1 .. n PROVE out[i] = OutBlock(j, v, in, out, i)
    <3>1. e[i - 1] = IF i = 1 THEN v ELSE out[i - 1]
      BY <1>3, <2>1
    <3>2. out[i] = Ciphers!Crypt("E", j.alg, Ciphers!Xor(in[i], e[i - 1]))
      BY <1>3, <2>1 DEF Link
    <3> QED BY <1>4, <3>1, <3>2 DEF OutBlock
  <2> QED BY <2>2 DEF Runs, out
<1>5. CASE ~(j.mode = "CBC" /\ j.dir = "E")
  <2>1. ASSUME NEW i \in 1 .. n PROVE out[i] = OutBlock(j, v, in, out, i)
    BY <1>2, <1>5 DEF OutBlock
  <2> QED BY <2>1 DEF Runs, out
<1> QED BY <1>4, <1>5

\* And only one output runs by the blocks.
LEMMA RunsUnique ==
  ASSUME NEW j, NEW v, NEW in, NEW n \in Nat, NEW f, NEW g,
         Runs(j, v, in, f, n), Runs(j, v, in, g, n)
  PROVE  \A i \in 1 .. n : f[i] = g[i]
<1> DEFINE T == {i \in 1 .. n : f[i] # g[i]}
<1> SUFFICES ASSUME T # {} PROVE FALSE
  OBVIOUS
<1>1. PICK i \in T : \A k \in T : i <= k
  <2>1. T \subseteq Nat
    OBVIOUS
  <2> HIDE DEF T
  <2> QED BY <2>1, LeastNumber
<1>2. i \in 1 .. n /\ f[i] # g[i]
  OBVIOUS
<1>3. i # 1 => f[i - 1] = g[i - 1]
  <2> DEFINE k == i - 1
  <2>1. i # 1 => k \in 1 .. n /\ k < i /\ k \in Nat /\ i \in Nat
    BY <1>2
  <2>2. k \in 1 .. n /\ k \notin T => f[k] = g[k]
    OBVIOUS
  <2> HIDE DEF T
  <2>3. i # 1 => k \notin T
    <3> HIDE DEF k
    <3> QED BY <1>1, <2>1
  <2> QED BY <2>1, <2>2, <2>3
<1> HIDE DEF T
<1>4. f[i] = OutBlock(j, v, in, f, i) /\ g[i] = OutBlock(j, v, in, g, i)
  BY <1>2 DEF Runs
<1>5. OutBlock(j, v, in, f, i) = OutBlock(j, v, in, g, i)
  BY <1>3 DEF OutBlock
<1> QED BY <1>2, <1>4, <1>5

\* The IV for the rest of a message, when its first d blocks, of msg, have
\* become those of w.
IvAfter(j, v, msg, w, d) ==
  IF d = 0 \/ j.mode = "ECB" THEN v
  ELSE IF j.mode = "CBC" THEN IF j.dir = "E" THEN w[d] ELSE msg[d]
  ELSE Ciphers!CounterBlock((Ciphers!ValueOf(v) + d) % (Base * Base))

(***************************************************************************)
(* A chunk of n blocks after the first d, with the IV for the rest, gives  *)
(* the blocks of the whole message: these run by the blocks of the chunk.  *)
(* GCM has no rest.                                                        *)
(***************************************************************************)
LEMMA RunsOn ==
  ASSUME NEW j, NEW k \in Nat, NEW v, j.mode = "CTR" => v = Ciphers!CounterBlock(k),
         j.mode \in Ciphers!Modes, j.dir \in {"E", "D"},
         NEW msg, NEW w, NEW m \in Nat, Runs(j, v, msg, w, m),
         NEW d \in Nat, NEW n \in Nat, d + n <= m, j.mode = "GCM" => d = 0,
         NEW in, \A i \in 1 .. n : in[i] = msg[d + i],
         NEW rest, \A i \in 1 .. n : rest[i] = w[d + i]
  PROVE  Runs(j, IvAfter(j, v, msg, w, d), in, rest, n)
<1> DEFINE u == IvAfter(j, v, msg, w, d)
<1> SUFFICES ASSUME NEW i \in 1 .. n PROVE rest[i] = OutBlock(j, u, in, rest, i)
  BY DEF Runs
<1>1. d + i \in 1 .. m /\ rest[i] = w[d + i] /\ in[i] = msg[d + i]
  OBVIOUS
<1>2. w[d + i] = OutBlock(j, v, msg, w, d + i)
  BY <1>1 DEF Runs
<1>3. CASE j.mode = "ECB"
  BY <1>1, <1>2, <1>3 DEF OutBlock
<1>4. CASE j.mode = "CBC"
  <2>1. CASE i = 1
    <3> DEFINE c == d + i
               pw == w[c - 1]
               pm == msg[c - 1]
    <3>1. c - 1 = d /\ (c = 1 <=> d = 0)
      BY <2>1
    <3>2. u = IF d = 0 THEN v ELSE IF j.dir = "E" THEN w[d] ELSE msg[d]
      BY <1>4 DEF IvAfter
    <3>3. pw = w[d] /\ pm = msg[d]
      BY <3>1
    <3> HIDE DEF u, pw, pm
    <3>4. /\ j.dir = "E" => (IF c = 1 THEN v ELSE pw) = u
          /\ j.dir = "D" => (IF c = 1 THEN v ELSE pm) = u
      BY <3>1, <3>2, <3>3
    <3>5. w[c] = CASE j.dir = "E" -> Ciphers!Crypt("E", j.alg,
                                       Ciphers!Xor(msg[c], IF c = 1 THEN v ELSE pw))
                   [] j.dir = "D" -> Ciphers!Xor(Ciphers!Crypt("D", j.alg, msg[c]),
                                                 IF c = 1 THEN v ELSE pm)
      BY <1>2, <1>4 DEF OutBlock, pw, pm
    <3>6. OutBlock(j, u, in, rest, i)
            = CASE j.dir = "E" -> Ciphers!Crypt("E", j.alg, Ciphers!Xor(in[i], u))
                [] j.dir = "D" -> Ciphers!Xor(Ciphers!Crypt("D", j.alg, in[i]), u)
      BY <1>4, <2>1 DEF OutBlock
    <3> QED BY <1>1, <3>4, <3>5, <3>6
  <2>2. CASE i # 1
    <3>1. /\ i - 1 \in 1 .. n /\ d + i # 1 /\ d + i - 1 = d + (i - 1)
      BY <2>2
    <3>2. w[d + i - 1] = rest[i - 1] /\ msg[d + i - 1] = in[i - 1]
      BY <3>1
    <3> HIDE DEF u
    <3> QED BY <1>1, <1>2, <1>4, <2>2, <3>1, <3>2 DEF OutBlock
  <2> QED BY <2>1, <2>2
<1>5. CASE j.mode \in {"CTR", "GCM"}
  <2>1. (Ciphers!ValueOf(v) + (d + i) - 1) % (Base * Base)
          = (Ciphers!ValueOf(u) + i - 1) % (Base * Base)
    <3>1. CASE d = 0
      BY <3>1 DEF IvAfter
    <3>2. CASE d # 0
      <4>1. j.mode = "CTR" /\ Ciphers!ValueOf(v) = k
        BY <1>5, <3>2, ValueOfCounter
      <4>2. Ciphers!ValueOf(u) = (k + d) % (Base * Base)
        BY <3>2, <4>1, ValueOfCounter DEF IvAfter
      <4>3. Base * Base \in Nat /\ Base * Base # 0
        BY MCKseAssumption
      <4> DEFINE D == Base * Base
                 x == k + d
                 y == i - 1
      <4>4. D \in Nat /\ D # 0 /\ x \in Int /\ y \in Int /\ x % D \in Int
        BY <4>3
      <4>5. k + (d + i) - 1 = x + y
        OBVIOUS
      <4>6. Ciphers!ValueOf(u) = x % D
        BY <4>2
      <4>7. (x % D) + i - 1 = (x % D) + y
        BY <4>4
      <4> HIDE DEF D, x, y
      <4>8. ((x % D) + y) % D = (x + y) % D
        BY <4>4, RestSum
      <4>9. (k + (d + i) - 1) % D = (Ciphers!ValueOf(u) + i - 1) % D
        BY <4>5, <4>6, <4>7, <4>8
      <4> QED BY <4>1, <4>9 DEF D
    <3> QED BY <3>1, <3>2
  <2> HIDE DEF u
  <2> QED BY <1>1, <1>2, <1>5, <2>1 DEF OutBlock
<1> QED BY <1>3, <1>4, <1>5 DEF Ciphers!Modes

\* f is what g has after its first d elements.
Follows(f, g, d, n) == \A i \in 1 .. n : f[i] = g[d + i]

\* The IV that is handed on is the one for the rest.
LEMMA IvOn ==
  ASSUME job.mode \in {"ECB", "CBC", "CTR"}, job.dir \in {"E", "D"},
         NEW k \in Nat, NEW v, job.mode = "CTR" => v = Ciphers!CounterBlock(k),
         NEW msg, NEW w, NEW d \in Nat, NEW n \in Nat, n > 0,
         iv = IvAfter(job, v, msg, w, d),
         NEW in, IsArray(in, n), Follows(in, msg, d, n),
         NEW out, IsArray(out, n), Follows(out, w, d, n)
  PROVE  Ciphers!NextIv(in, out) = IvAfter(job, v, msg, w, d + n)
<1>1. Len(in) = n /\ Len(out) = n /\ in[n] = msg[d + n] /\ out[n] = w[d + n] /\ d + n # 0
  <2>1. Len(in) = n /\ Len(out) = n
    BY ArraySeq
  <2>2. n \in 1 .. n /\ d + n # 0
    OBVIOUS
  <2>3. in[n] = msg[d + n] /\ out[n] = w[d + n]
    BY <2>2 DEF Follows
  <2> QED BY <2>1, <2>2, <2>3
<1>2. CASE job.mode = "ECB"
  BY <1>2 DEF Ciphers!NextIv, IvAfter
<1>3. CASE job.mode = "CBC"
  <2>1. Ciphers!NextIv(in, out) = IF job.dir = "E" THEN out[n] ELSE in[n]
    BY <1>1, <1>3 DEF Ciphers!NextIv, Ciphers!Last
  <2>2. IvAfter(job, v, msg, w, d + n) = IF job.dir = "E" THEN w[d + n] ELSE msg[d + n]
    BY <1>1, <1>3 DEF IvAfter
  <2> QED BY <1>1, <2>1, <2>2
<1>4. CASE job.mode = "CTR"
  <2> DEFINE D == Base * Base
  <2>1. D \in Nat /\ D # 0
    BY MCKseAssumption
  <2>2. Ciphers!ValueOf(v) = k
    BY <1>4, ValueOfCounter
  <2> DEFINE c == Ciphers!ValueOf(iv)
  <2>3. (c = k /\ d = 0) \/ c = (k + d) % D
    BY <1>4, <2>2, ValueOfCounter DEF IvAfter
  <2>4. c \in Nat
    BY <2>1, <2>3
  <2> HIDE DEF D, c
  <2>5. Ciphers!AddToCounter(c, n) = (c + n) % D
    BY <2>4, CounterAdds DEF D
  <2>6. (c + n) % D = (k + (d + n)) % D
    <3>1. CASE c = k /\ d = 0
      <4>1. c + n = k + (d + n)
        BY <3>1
      <4> QED BY <4>1
    <3>2. CASE c = (k + d) % D
      <4>1. (((k + d) % D) + n) % D = ((k + d) + n) % D
        <5>1. k + d \in Int /\ n \in Int
          OBVIOUS
        <5> QED BY <2>1, <5>1, RestSum
      <4>2. (k + d) + n = k + (d + n)
        OBVIOUS
      <4> QED BY <3>2, <4>1, <4>2
    <3> QED BY <2>3, <3>1, <3>2
  <2>7. Ciphers!NextIv(in, out) = Ciphers!CounterBlock(Ciphers!AddToCounter(c, n))
    BY <1>1, <1>4 DEF Ciphers!NextIv, c
  <2>8. IvAfter(job, v, msg, w, d + n) = Ciphers!CounterBlock((k + (d + n)) % D)
    BY <1>1, <1>4, <2>2 DEF IvAfter, D
  <2> QED BY <2>5, <2>6, <2>7, <2>8
<1> QED BY <1>2, <1>3, <1>4

-----------------------------------------------------------------------------
(* A call.  What it has written so far is of the whole message             *)
(* (CipherExact), and its IV is the one for the rest (CipherChain).        *)

MessageOf(c, j) == Ciphers!Message(c, j.size)
WholeOf(c, j) == Ciphers!Apply(j, Ciphers!IvOf(c, j), MessageOf(c, j))
IvFor(c, j, d) == IvAfter(j, Ciphers!IvOf(c, j), MessageOf(c, j), WholeOf(c, j), d)
Untouched(c, j, i) == IF j.inPlace THEN Ciphers!Plain(c, i) ELSE {}
ExactTo(out, c, j, d) ==
  \A i \in 1 .. j.size : out[i] = IF i <= d THEN WholeOf(c, j)[i] ELSE Untouched(c, j, i)
Underway(v, c, j, d) ==
  /\ j \in Ciphers!Jobs /\ v = IvFor(c, j, d)
  /\ j.mode = "GCM" => d = 0 /\ j.size + 1 <= MAX_IO

CipherExact == ~behind => ExactTo(output, call, job, done)
CipherChain == pc = "run" => Underway(iv, call, job, done)
ExactInv == CipherExact /\ CipherChain /\ (part = "ciphers" => Ciphers!SuccessIsWhole)

\* These are of constants, in the next state as in this one.
LEMMA PrimedExact ==
  /\ ExactTo(output, call, job, done)' <=> ExactTo(output', call', job', done')
  /\ Underway(iv, call, job, done)' <=> Underway(iv', call', job', done')
OBVIOUS

LEMMA WholeRuns ==
  ASSUME NEW c, NEW j \in Ciphers!Jobs
  PROVE  /\ j.size \in Nat /\ j.iv \in Nat /\ j.mode \in Ciphers!Modes /\ j.dir \in {"E", "D"}
         /\ Runs(j, Ciphers!IvOf(c, j), MessageOf(c, j), WholeOf(c, j), j.size)
         /\ \A i \in 1 .. j.size : MessageOf(c, j)[i] = Ciphers!Plain(c, i)
         /\ j.mode = "CTR" => Ciphers!IvOf(c, j) = Ciphers!CounterBlock(j.iv)
<1>1. j.size \in Nat /\ j.iv \in Nat /\ j.mode \in Ciphers!Modes /\ j.dir \in {"E", "D"}
  <2>1. j.size \in 0 .. MaxSize /\ j.iv \in Counters
    BY DEF Ciphers!Jobs
  <2>2. j.mode \in Ciphers!Modes /\ j.dir \in {"E", "D"}
    BY DEF Ciphers!Jobs
  <2>3. MaxSize \in Nat /\ Counters \subseteq 0 .. Base * Base - 1
    BY MCKseAssumption
  <2>4. \A D : 0 .. D \subseteq Nat
    OBVIOUS
  <2>5. j.size \in Nat
    BY <2>1, <2>4
  <2>6. j.iv \in Nat
    BY <2>1, <2>3, <2>4
  <2> QED BY <2>2, <2>5, <2>6
<1>2. MessageOf(c, j) = [i \in 1 .. j.size |-> Ciphers!Plain(c, i)]
  BY DEF MessageOf, Ciphers!Message
<1>3. Len(MessageOf(c, j)) = j.size
  <2>1. IsArray(MessageOf(c, j), j.size)
    BY <1>2 DEF IsArray
  <2> QED BY <1>1, <2>1, ArraySeq
<1>4. Runs(j, Ciphers!IvOf(c, j), MessageOf(c, j), WholeOf(c, j), j.size)
  BY <1>1, <1>3, ApplyRuns DEF WholeOf
<1>5. j.mode = "CTR" => Ciphers!IvOf(c, j) = Ciphers!CounterBlock(j.iv)
  BY DEF Ciphers!IvOf
<1> QED BY <1>1, <1>2, <1>4, <1>5

(***************************************************************************)
(* The chunk that is sent is of the message, also when the output is       *)
(* written over it, and its result is of the whole message's.              *)
(***************************************************************************)
LEMMA ChunkOfWhole ==
  ASSUME CipherSized, CipherExact, CipherChain, pc = "run", ~behind
  PROVE  \A i \in 1 .. Ciphers!ChunkSize :
           /\ ChunkIn[i] = MessageOf(call, job)[done + i]
           /\ Ciphers!Apply(job, iv, ChunkIn)[i] = WholeOf(call, job)[done + i]
<1> DEFINE n == Ciphers!ChunkSize
           m == job.size
           in == ChunkIn
           msg == MessageOf(call, job)
           w == WholeOf(call, job)
           v == Ciphers!IvOf(call, job)
           out == Ciphers!Apply(job, iv, in)
           rest == [i \in 1 .. n |-> w[done + i]]
<1>1. n \in Nat /\ done \in Nat /\ m \in Nat /\ done + n <= m
  BY ChunkCount
<1>2. /\ job.iv \in Nat /\ job.mode \in Ciphers!Modes /\ job.dir \in {"E", "D"}
      /\ Runs(job, v, msg, w, m) /\ \A i \in 1 .. m : msg[i] = Ciphers!Plain(call, i)
      /\ job.mode = "CTR" => v = Ciphers!CounterBlock(job.iv)
  BY WholeRuns DEF CipherChain, Underway
<1>3. iv = IvAfter(job, v, msg, w, done) /\ (job.mode = "GCM" => done = 0)
  BY DEF CipherChain, Underway, IvFor
<1>4. Len(in) = n /\ \A i \in 1 .. n : in[i] = Ciphers!Source[done + i]
  BY ChunkInIs
<1>5. \A i \in done + 1 .. m : Ciphers!Source[i] = Ciphers!Plain(call, i)
  <2>1. CASE job.inPlace
    <3> SUFFICES ASSUME NEW i \in done + 1 .. m PROVE Ciphers!Source[i] = Ciphers!Plain(call, i)
      OBVIOUS
    <3>1. i \in 1 .. m /\ ~(i <= done)
      BY <1>1
    <3>2. output[i] = Untouched(call, job, i)
      BY <3>1 DEF CipherExact, ExactTo
    <3> QED BY <2>1, <3>2 DEF Ciphers!Source, Untouched
  <2>2. CASE ~job.inPlace
    <3>1. Ciphers!Source = msg
      BY <2>2 DEF Ciphers!Source, MessageOf
    <3> HIDE DEF msg
    <3> QED BY <1>1, <1>2, <3>1
  <2> QED BY <2>1, <2>2
<1> HIDE DEF n, m, in, msg, w, v
<1>6. \A i \in 1 .. n : in[i] = msg[done + i]
  <2> SUFFICES ASSUME NEW i \in 1 .. n PROVE in[i] = msg[done + i]
    OBVIOUS
  <2>1. done + i \in done + 1 .. m /\ done + i \in 1 .. m
    BY <1>1
  <2> QED BY <1>2, <1>4, <1>5, <2>1
<1>7. \A i \in 1 .. n : rest[i] = w[done + i]
  OBVIOUS
<1> HIDE DEF rest
<1>8. Runs(job, iv, in, rest, n)
  BY <1>1, <1>2, <1>3, <1>6, <1>7, RunsOn
<1>9. Runs(job, iv, in, out, n)
  BY <1>1, <1>2, <1>4, ApplyRuns
<1> HIDE DEF out
<1>10. \A i \in 1 .. n : out[i] = rest[i]
  BY <1>1, <1>8, <1>9, RunsUnique
<1> QED BY <1>6, <1>7, <1>10 DEF n, in, out, msg, w

LEMMA InitExactInv == Init => ExactInv
<1> SUFFICES ASSUME Init PROVE ExactInv
  OBVIOUS
<1>1. pc = "idle" /\ call = 0 /\ job.size = 0 /\ done = 0
  BY DEF Init, Ciphers!Init
<1> QED BY <1>1 DEF ExactInv, CipherExact, CipherChain, ExactTo, Ciphers!SuccessIsWhole

\* A call begins with the message and its IV, or is refused.
LEMMA CallKeepsExact ==
  ASSUME Ciphers!Call
  PROVE  ExactInv'
<1>1. /\ job' \in Ciphers!Jobs /\ done' = 0 /\ iv' = Ciphers!IvOf(call', job')
      /\ output' = IF job'.inPlace THEN Ciphers!Message(call', job'.size)
                   ELSE [i \in 1 .. job'.size |-> {}]
      /\ pc = "idle"
  BY DEF Ciphers!Call
<1>2. \/ pc' = "run" /\ Ciphers!InputOk(job')
      \/ pc' = "idle" /\ ret' # "KSE_SUCCESS"
  BY <1>1 DEF Ciphers!Call, Ciphers!Guarded, Ciphers!Success, Ciphers!WrongInput,
              Ciphers!NotPoweredOn
<1>3. ExactTo(output', call', job', done')
  <2> SUFFICES ASSUME NEW i \in 1 .. job'.size PROVE output'[i] = Untouched(call', job', i)
    <3>1. \A i \in 1 .. job'.size : ~(i <= 0)
      OBVIOUS
    <3> QED BY <1>1, <3>1 DEF ExactTo
  <2> QED BY <1>1 DEF Untouched, Ciphers!Message
<1>4. pc' = "run" => Underway(iv', call', job', done')
  <2>1. iv' = IvFor(call', job', 0)
    BY <1>1 DEF IvFor, IvAfter
  <2>2. pc' = "run" /\ job'.mode = "GCM" => job'.size + 1 <= MAX_IO
    BY <1>2 DEF Ciphers!InputOk
  <2> QED BY <1>1, <2>1, <2>2 DEF Underway
<1>5. CipherExact'
  BY <1>3, PrimedExact DEF CipherExact
<1>6. CipherChain'
  BY <1>4, PrimedExact DEF CipherChain
<1>7. Ciphers!SuccessIsWhole'
  BY <1>2 DEF Ciphers!SuccessIsWhole, Ciphers!Success
<1> QED BY <1>5, <1>6, <1>7 DEF ExactInv

(***************************************************************************)
(* A chunk adds what it brings to what was exact, and hands the IV on,     *)
(* unless it fails; after a late answer there is no more of the call.      *)
(***************************************************************************)
LEMMA ChunkKeepsExact ==
  ASSUME ExchangeTyped, CipherSized, CipherInv, CipherInv', LateOfChunk, part = "ciphers",
         ExactInv, Ciphers!Chunk
  PROVE  ExactInv'
<1>1. PICK a \in {Ciphers!Refusal} \cup (IF job.tagOk THEN {ChunkOwn} ELSE {}) :
        \E x \in Ends(Ciphers!CommandSize, a, FALSE) : ChunkEffect(a, x)
  BY ChunkDoes
<1>2. PICK x \in Ends(Ciphers!CommandSize, a, FALSE) : ChunkEffect(a, x)
  BY <1>1
<1>3. pc = "run" /\ ~behind
  BY ChunkDoes DEF CipherInv, CipherUnderway
<1> DEFINE n == Ciphers!ChunkSize
           result == ResultFor(x.got, {ChunkBytes})
           data == x.got.data
           msg == MessageOf(call, job)
           w == WholeOf(call, job)
           m == job.size
<1>4. /\ call' = call /\ job' = job
      /\ behind' = (result = "KSE_SUCCESS" /\ x.got # a)
      /\ IF result # "KSE_SUCCESS"
         THEN pc' = "idle" /\ ret' = result /\ output' = output /\ done' = done /\ iv' = iv
         ELSE /\ output' = Splice(output, job.size, done, data, n)
              /\ done' = done + n
              /\ iv' = IF n = 0 THEN iv ELSE Ciphers!NextIv(ChunkIn, data)
              /\ IF done' = job.size THEN pc' = "idle" /\ ret' = "KSE_SUCCESS"
                 ELSE pc' = pc /\ ret' = ret
  BY <1>2, <1>3 DEF ChunkEffect
<1>5. n \in Nat /\ done \in Nat /\ m \in Nat /\ done + n <= m
  BY ChunkCount
<1>6. CipherExact /\ CipherChain /\ ExactTo(output, call, job, done)
      /\ Underway(iv, call, job, done)
  BY <1>3 DEF ExactInv, CipherExact, CipherChain
<1>7. /\ Ciphers!Refusal.status # "KSE_SUCCESS" /\ ChunkOwn.status = "KSE_SUCCESS"
      /\ ChunkOwn.data = Ciphers!Apply(job, iv, ChunkIn) /\ ChunkOwn.usLen = ChunkBytes
  BY DEF Ciphers!Refusal, Ciphers!Refused, ChunkOwn, Ciphers!Answer, Ciphers!Success, ChunkBytes
<1>8. \A i \in 1 .. n : /\ ChunkIn[i] = msg[done + i]
                        /\ Ciphers!Apply(job, iv, ChunkIn)[i] = w[done + i]
  BY <1>3, <1>6, ChunkOfWhole
<1>9. result = "KSE_SUCCESS" => x.got.status = "KSE_SUCCESS"
  BY SuccessMeans
<1>10. result = "KSE_SUCCESS" /\ x.got = a =>
         a = ChunkOwn /\ \A i \in 1 .. n : data[i] = w[done + i]
  BY <1>7, <1>8, <1>9
<1>11. result = "KSE_SUCCESS" => IsArray(data, n)
  <2>1. ChunkAnswer(a) /\ (a.status = "KSE_SUCCESS" => a.usLen = ChunkBytes)
    BY <1>7, ChunkAnswers
  <2> QED BY <2>1, ChunkTakes
<1> HIDE DEF n, result, data, msg, w, m
<1>12. ASSUME ~behind' PROVE ExactTo(output', call', job', done')
  <2>1. CASE result # "KSE_SUCCESS"
    BY <1>4, <1>6, <2>1
  <2>2. CASE result = "KSE_SUCCESS"
    <3>1. \A i \in 1 .. n : data[i] = w[done + i]
      BY <1>4, <1>10, <1>12, <2>2
    <3>2. IsArray(output, m)
      BY DEF CipherSized, m
    <3>3. IsSplice(Splice(output, m, done, data, n), output, m, done, data, n)
      BY <1>5, <1>11, <2>2, <3>2, SplicedArray
    <3>4. IsSplice(output', output, m, done, data, n) /\ done' = done + n
      BY <1>4, <2>2, <3>3 DEF m
    <3>5. ASSUME NEW i \in 1 .. m
          PROVE  output'[i] = IF i <= done + n THEN w[i] ELSE Untouched(call, job, i)
      <4>1. output'[i] = IF i <= done THEN output[i]
                         ELSE IF i <= done + n THEN data[i - done] ELSE output[i]
        BY <3>4 DEF IsSplice
      <4>2. output[i] = IF i <= done THEN w[i] ELSE Untouched(call, job, i)
        BY <1>6 DEF ExactTo, m, w
      <4>3. done < i /\ i <= done + n => data[i - done] = w[i]
        BY <1>5, <3>1
      <4> QED BY <1>5, <4>1, <4>2, <4>3
    <3>6. ExactTo(output', call, job, done + n)
      BY <3>5 DEF ExactTo, m, w
    <3> QED BY <1>4, <3>4, <3>6
  <2> QED BY <2>1, <2>2
<1>13. ASSUME pc' = "run" PROVE Underway(iv', call', job', done')
  <2>1. ~behind'
    BY <1>13 DEF CipherInv, CipherUnderway
  <2>2. result = "KSE_SUCCESS" /\ x.got = a /\ done' = done + n /\ done' # m
    BY <1>4, <1>13, <2>1 DEF m
  <2>3. Follows(ChunkIn, msg, done, n) /\ Follows(data, w, done, n)
    BY <1>8, <1>10, <2>2 DEF n, w, msg, Follows
  <2>4. job.mode # "GCM"
    <3> SUFFICES ASSUME job.mode = "GCM" PROVE FALSE
      OBVIOUS
    <3>1. done = 0 /\ m + 1 <= MAX_IO /\ MAX_IO \in Nat
      BY <1>6, MCKseAssumption DEF Underway, m
    <3>2. Ciphers!ChunkLimit = MAX_IO - 1 /\ MAX_IO - 1 \in Nat
      BY <3>1, MCKseAssumption DEF Ciphers!ChunkLimit
    <3>3. n = m
      <4>1. m - done = m /\ m \in Nat /\ m <= MAX_IO - 1
        BY <1>5, <3>1
      <4>2. n = Ciphers!Min({m, MAX_IO - 1})
        BY <3>2, <4>1 DEF n, m, Ciphers!ChunkSize
      <4> QED BY <3>2, <4>1, <4>2, MinOfTwo
    <3> QED BY <1>5, <2>2, <3>1, <3>3
  <2>5. n # 0
    <3>1. done < m
      <4>1. done < m \/ (done = 0 /\ m = 0)
        BY <1>3 DEF CipherInv, CipherUnderway, m
      <4> QED BY <1>5, <2>2, <4>1
    <3>2. n = Ciphers!Min({m - done, Ciphers!ChunkLimit})
      BY DEF n, m, Ciphers!ChunkSize
    <3> DEFINE L == Ciphers!ChunkLimit
               k == m - done
    <3>3. L \in Int /\ L > 1 /\ k \in Int /\ k > 0 /\ n = Ciphers!Min({k, L})
      BY <1>5, <3>1, <3>2, LimitSize
    <3> HIDE DEF L, k
    <3> QED BY <3>3, MinOfTwo
  <2> DEFINE v == Ciphers!IvOf(call, job)
  <2>6. /\ job.iv \in Nat /\ job.mode \in {"ECB", "CBC", "CTR"} /\ job.dir \in {"E", "D"}
        /\ job.mode = "CTR" => v = Ciphers!CounterBlock(job.iv)
    <3>1. job \in Ciphers!Jobs
      BY <1>6 DEF Underway
    <3>2. /\ job.iv \in Nat /\ job.mode \in Ciphers!Modes /\ job.dir \in {"E", "D"}
          /\ job.mode = "CTR" => v = Ciphers!CounterBlock(job.iv)
      BY <3>1, WholeRuns
    <3> HIDE DEF v
    <3> QED BY <2>4, <3>2 DEF Ciphers!Modes
  <2>7. iv = IvAfter(job, v, msg, w, done)
    BY <1>6 DEF Underway, IvFor, msg, w
  <2>8. IsArray(ChunkIn, n)
    BY ChunkInIs DEF n
  <2> HIDE DEF v
  <2>9. Ciphers!NextIv(ChunkIn, data) = IvAfter(job, v, msg, w, done + n)
    <3>1. n > 0
      BY <1>5, <2>5
    <3>2. IsArray(data, n)
      BY <1>11, <2>2
    <3> QED BY <1>5, <2>3, <2>6, <2>7, <2>8, <3>1, <3>2, IvOn
  <2>10. iv' = IvFor(call, job, done + n)
    BY <1>4, <2>2, <2>5, <2>9 DEF IvFor, v, msg, w
  <2>11. job \in Ciphers!Jobs
    BY <1>6 DEF Underway
  <2> QED BY <1>4, <2>2, <2>4, <2>10, <2>11 DEF Underway
<1>14. Ciphers!SuccessIsWhole'
  <2>1. CASE result # "KSE_SUCCESS"
    BY <1>4, <2>1 DEF Ciphers!SuccessIsWhole, Ciphers!Success
  <2>2. CASE result = "KSE_SUCCESS"
    <3>1. job.tagOk \/ behind'
      BY <1>1, <1>4, <1>7, <1>9, <2>2
    <3>2. pc' = "idle" => done' = m
      BY <1>3, <1>4, <2>2 DEF m
    <3> QED BY <1>4, <3>1, <3>2 DEF Ciphers!SuccessIsWhole, m
  <2> QED BY <2>1, <2>2
<1>15. CipherExact'
  BY <1>12, PrimedExact DEF CipherExact
<1>16. CipherChain'
  BY <1>13, PrimedExact DEF CipherChain
<1> QED BY <1>14, <1>15, <1>16 DEF ExactInv

LEMMA StepExactInv == IInv /\ IInv' /\ SizeInv /\ ExactInv /\ [Next]_vars => ExactInv'
<1> SUFFICES ASSUME IInv, IInv', SizeInv, ExactInv, [Next]_vars PROVE ExactInv'
  OBVIOUS
<1>1. CASE UNCHANGED <<cipherVars, part, ret>>
  BY <1>1, PrimedExact DEF cipherVars, ExactInv, CipherExact, CipherChain, Ciphers!SuccessIsWhole
<1>2. CASE part # "ciphers" /\ UNCHANGED <<cipherVars, part>>
  BY <1>2, PrimedExact DEF cipherVars, ExactInv, CipherExact, CipherChain
<1>3. CASE part = "ciphers" /\ part' = part /\ Ciphers!Next
  <2>1. ExchangeTyped /\ CipherSized /\ LateOfChunk
    BY DEF SizeInv
  <2>2. CipherInv /\ CipherInv'
    BY <1>3 DEF IInv, CipherPart
  <2> QED BY <1>3, <2>1, <2>2, CallKeepsExact, ChunkKeepsExact DEF Ciphers!Next
<1> QED
  BY <1>1, <1>2, <1>3 DEF Next, vars, exchangeVars

(***************************************************************************)
(* A message in chunks gives what one exchange of any length would give:   *)
(* at every point of a call the blocks written are those of the mode       *)
(* applied to the whole message, in place too, the others are as they      *)
(* were, and success means that all is done, unless the call has taken a   *)
(* late answer for a chunk's own (kse_ubuntu.c 1402-1970).                 *)
(***************************************************************************)
THEOREM PrefixTheorem == Spec => []PrefixExact
<1>1. ExactInv => PrefixExact
  BY DEF ExactInv, CipherExact, ExactTo, PrefixExact, Ciphers!PrefixExact, Ciphers!Whole, WholeOf,
         MessageOf, Untouched
<1>2. Spec => []ExactInv
  BY InitExactInv, StepExactInv, IInvHolds, SizeInvHolds, PTL DEF Spec
<1> QED
  BY <1>1, <1>2, PTL
=============================================================================
