---------------------------- MODULE KseCiphers -----------------------------
(***************************************************************************)
(* The block cipher functions of the kse library (kse_ubuntu.c 1402-1970): *)
(* AES and ARIA in ECB, CBC, CTR and GCM mode.  The device works on at     *)
(* most MAX_IO_DATA_SIZE bytes, and a longer message goes to it in chunks: *)
(* the functions chain the chunks, in CBC mode by the last cipher block,   *)
(* in CTR mode by a counter they advance byte by byte, and they write the  *)
(* output, perhaps over the input, as it comes.  A step is one chunk       *)
(* (KseExchange).  The reference is the mode applied to the whole message. *)
(*                                                                         *)
(* Blocks are symbolic: a block is the set of the atoms of which it is the *)
(* exclusive or, and a cipher makes a new atom of a block (what deciphers  *)
(* to x is what x is enciphered to).                                       *)
(***************************************************************************)
EXTENDS KseExchange, Sequences, SequencesExt

CONSTANTS
  MAX_IO,     \* MAX_IO_DATA_SIZE in blocks
  MaxSize,    \* bound: blocks of a message
  MaxCalls,   \* bound: calls
  Base,       \* bound: values of a byte of the counter, which has two here
  Counters    \* bound: values the counter begins with

VARIABLES
  pc,      \* "idle", or "run" in a call
  call,    \* number of the present, or last, call
  job,     \* its mode, direction, cipher, size, whether output = input, IV
  output,  \* pbOutput, as an array
  done,    \* blocks that have been written
  iv,      \* pbIv or abCtr for the next chunk
  behind   \* history: the call has had a late answer for its own

jobVars == <<call, job>>
vars == <<exchangeVars, ret, pc, jobVars, output, done, iv, behind>>

Modes == {"ECB", "CBC", "CTR", "GCM"}
Algs == {"AES", "ARIA"}
\* Bytes of a block.  It stands for two of the code's, so that a chunk of one
\* goes in one report and a chunk of more does not.
BlockSize == 32

-----------------------------------------------------------------------------
(* Blocks and the modes (external: the device).                            *)

Xor(a, b) == (a \ b) \cup (b \ a)
Crypt(dir, alg, b) ==
  LET other == IF dir = "E" THEN "D" ELSE "E"
      inverse == {x \in b : x[1] = other /\ x[2] = alg}
  IN  IF Cardinality(b) = 1 /\ inverse # {} THEN (CHOOSE x \in b : TRUE)[3] ELSE {<<dir, alg, b>>}
CounterBlock(n) == {<<"C", n>>}
ValueOf(counterBlock) == (CHOOSE x \in counterBlock : TRUE)[2]

\* What mode m makes of the blocks in, with v as its IV or first counter.
Apply(j, v, in) ==
  LET e[i \in 0 .. Len(in)] == IF i = 0 THEN v ELSE Crypt("E", j.alg, Xor(in[i], e[i - 1]))
      chain(i) == IF i = 1 THEN v ELSE in[i - 1]
      stream(i) == Crypt("E", j.alg, CounterBlock((ValueOf(v) + i - 1) % (Base * Base)))
  IN  [i \in 1 .. Len(in) |->
        CASE j.mode = "ECB" -> Crypt(j.dir, j.alg, in[i])
          [] j.mode = "CBC" /\ j.dir = "E" -> e[i]
          [] j.mode = "CBC" /\ j.dir = "D" -> Xor(Crypt("D", j.alg, in[i]), chain(i))
          [] OTHER -> Xor(in[i], stream(i))]

-----------------------------------------------------------------------------
(* The call.                                                               *)

Plain(c, i) == {<<"P", c, i>>}
Message(c, n) == [i \in 1 .. n |-> Plain(c, i)]
Jobs == [mode : Modes, dir : {"E", "D"}, alg : Algs, keyOf : Algs, size : 0 .. MaxSize,
         inPlace : BOOLEAN, iv : Counters, tagOk : BOOLEAN]

IvOf(c, j) == IF j.mode \in {"CTR", "GCM"} THEN CounterBlock(j.iv) ELSE {<<"IV", c>>}

Init ==
  /\ ExchangeInit
  /\ pc = "idle" /\ call = 0 /\ output = <<>> /\ done = 0 /\ iv = {} /\ behind = FALSE
  /\ job = [mode |-> "ECB", dir |-> "E", alg |-> "AES", keyOf |-> "AES", size |-> 0,
            inPlace |-> FALSE, iv |-> 0, tagOk |-> TRUE]

\* Whether the checks let a call pass.  GCM takes an empty message, but none
\* that is too long for one exchange.
InputOk(j) ==
  /\ j.keyOf = j.alg
  /\ IF j.mode = "GCM" THEN j.size + 1 <= MAX_IO ELSE j.size # 0

\* The choices a mode does not have are fixed.
Sensible(j) ==
  /\ j.mode \in {"ECB", "CBC"} => j.iv = Min(Counters)
  /\ j.mode = "CTR" => j.dir = "E"
  /\ ~j.tagOk => j.mode = "GCM" /\ j.dir = "D"
  /\ j.keyOf # j.alg => j.size = 1 /\ ~j.inPlace

Call ==
  /\ pc = "idle" /\ call < MaxCalls
  /\ call' = call + 1
  /\ job' \in {j \in Jobs : Sensible(j)}
  /\ output' = IF job'.inPlace THEN Message(call', job'.size)
               ELSE [i \in 1 .. job'.size |-> {}]
  /\ done' = 0 /\ behind' = FALSE /\ iv' = IvOf(call', job')
  /\ IF Guarded(InputOk(job')) = Success
     THEN pc' = "run" /\ UNCHANGED ret
     ELSE ret' = Guarded(InputOk(job')) /\ UNCHANGED pc
  /\ UNCHANGED exchangeVars

\* Blocks of a chunk: the IV takes room too.
ChunkLimit == IF job.mode = "ECB" THEN MAX_IO ELSE MAX_IO - 1
ChunkSize == Min({job.size - done, ChunkLimit})

\* Mutant: the carry of the counter's last byte is lost.
AddToCounterNoCarry(v, n) == (v \div Base) * Base + (((v % Base) + n) % Base)

\* usSum: n is added to the last byte of abCtr, and the carry to the next.
AddToCounter(v, n) ==
  LET low == n + (v % Base)
      high == (low \div Base) + (v \div Base)
  IN  (high % Base) * Base + (low % Base)

\* The last cipher block, when it is input from the copy that was made of it
\* (abBuffer); the advanced counter.
NextIv(in, out) ==
  CASE job.mode = "CTR" -> CounterBlock(AddToCounter(ValueOf(iv), Len(out)))
    [] job.mode = "CBC" -> IF job.dir = "E" THEN Last(out) ELSE Last(in)
    [] OTHER -> iv

Source == IF job.inPlace THEN output ELSE Message(call, job.size)
CommandSize == BlockSize * ChunkSize + (IF job.mode = "ECB" THEN 8 ELSE 24)

\* A return before the end.
Fail(result) == pc' = "idle" /\ ret' = result /\ UNCHANGED <<output, done, iv>>

\* A chunk is sent, the device's answer checked, and its data copied out.  In
\* GCM mode it is the only one, and the device refuses a wrong tag.
Chunk ==
  /\ pc = "run"
  /\ LET n == ChunkSize
         in == SubSeq(Source, done + 1, done + n)
         own == Answer(BlockSize * n, Apply(job, iv, in))
     IN  \E a \in {Refusal} \cup (IF job.tagOk THEN {own} ELSE {}) :
         \E x \in Exchanges(CommandSize, a, FALSE) :
           LET result == StatusOf(x.got, {BlockSize * n + 2}) IN
           /\ ExchangeWith(x)
           /\ behind' = (behind \/ (result = Success /\ x.got # a))
           /\ IF result # Success THEN Fail(result)
              ELSE /\ output' = SubSeq(output, 1, done) \o x.got.data
                                  \o SubSeq(output, done + n + 1, job.size)
                   /\ done' = done + n
                   /\ iv' = IF n = 0 THEN iv ELSE NextIv(in, x.got.data)
                   /\ IF done' = job.size THEN pc' = "idle" /\ ret' = Success
                      ELSE UNCHANGED <<pc, ret>>
  /\ UNCHANGED jobVars

Next == Call \/ Chunk
Spec == Init /\ [][Next]_vars

-----------------------------------------------------------------------------

TypeOK ==
  /\ ExchangeTypeOK
  /\ pc \in {"idle", "run"} /\ call \in 0 .. MaxCalls /\ done \in 0 .. job.size
  /\ Len(output) = job.size
  /\ call > 0 /\ job.mode \in {"CTR", "GCM"} => ValueOf(iv) \in 0 .. Base * Base - 1

Whole == Apply(job, IvOf(call, job), Message(call, job.size))

(***************************************************************************)
(* A message in chunks gives what one exchange of any length would give,   *)
(* at every point of the call and after it, in place too: the blocks done  *)
(* are those of the whole message, the others are as they were, also when  *)
(* the call fails.  A call that has taken a late answer for a chunk's own  *)
(* (behind), which needs a failed transfer before it, is excepted: that    *)
(* chunk holds the bytes of another command (MixedOnlyAtEnd says which     *)
(* chunk it can be).                                                       *)
(***************************************************************************)
PrefixExact ==
  ~behind => \A i \in 1 .. job.size :
    output[i] = IF i <= done THEN Whole[i] ELSE IF job.inPlace THEN Plain(call, i) ELSE {}

(***************************************************************************)
(* Success means that the whole message is done; in GCM mode also that the *)
(* tag was right, unless a late answer was taken (behind).                 *)
(***************************************************************************)
SuccessIsWhole ==
  pc = "idle" /\ call > 0 /\ ret = Success => done = job.size /\ (job.tagOk \/ behind)

(***************************************************************************)
(* A late answer is taken for a chunk only if the chunk is so short that   *)
(* it goes in one report: a message that needs chunks is never mixed with  *)
(* another, but for a short rest at its end.                               *)
(***************************************************************************)
MixedOnlyAtEnd ==
  behind => /\ failed /\ done = job.size
            /\ job.size = 0 \/ (job.size - 1) % ChunkLimit = 0
=============================================================================
