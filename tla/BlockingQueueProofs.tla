------------------------ MODULE BlockingQueueProofs ------------------------
(***************************************************************************)
(* The queues between the threads are correct, for any number of elements, *)
(* blocks and signals and however the loads and stores of the two threads  *)
(* interleave.                                                             *)
(*                                                                         *)
(* The semaphore.  Whatever the two threads do to the ring, each of their  *)
(* steps is a step of LightweightSemaphore or leaves it alone.             *)
(* PermitsExact says little of the places where the waiter has seen a      *)
(* permit and not taken it: that the permit is still there (only the       *)
(* waiter takes one) is what makes the invariant inductive.  The bound on  *)
(* the permits plays no part.                                              *)
(*                                                                         *)
(* The ring.  RingInv says where every element is: there is an order w of  *)
(* the linked blocks (with its inverse r) in which next leads from each to *)
(* the following one, and a number base[b] of elements put before those of *)
(* block b, such that slot i of b holds element base[b] + i + 1, counted   *)
(* from the front.  A step moves these witnesses: Leave turns the order,   *)
(* Link inserts into it, Release raises the base of the front block.  All  *)
(* the rest says what each thread, at each of its places, knows of the     *)
(* indices of the other although they may have moved since it read them.   *)
(*                                                                         *)
(* Both.  What is in the ring is what the semaphore counts, but for the    *)
(* calls in progress.                                                      *)
(***************************************************************************)
EXTENDS BlockingQueue, WellFoundedInduction, TLAPS

WaiterPlaces == {"idle", "test", "take", "decrement", "sleep", "restore", "redo", "trywait"}

Typed ==
  /\ count \in Int /\ sema \in Nat /\ permits \in Nat
  /\ wpc \in WaiterPlaces /\ mode \in S!Modes /\ spc \in {"idle", "post"}
  /\ answer \in {"none", "true", "false"}

\* A waiter that has seen a permit finds it, and has no answer before its end.
InProgress ==
  /\ wpc \in {"take", "redo", "trywait"} => permits > 0
  /\ wpc # "idle" => answer = "none"

SemaphoreInv == Typed /\ S!PermitsExact /\ InProgress

-----------------------------------------------------------------------------

(***************************************************************************)
(* A semaphore of count 0 is exact (the constructor).                      *)
(***************************************************************************)
LEMMA InitExact == S!Init => SemaphoreInv
  <1> SUFFICES ASSUME S!Init PROVE SemaphoreInv
    OBVIOUS
  <1>1. count = 0 /\ sema = 0 /\ permits = 0 /\ wpc = "idle" /\ spc = "idle"
    BY DEF S!Init
  <1>2. Typed
    BY DEF S!Init, Typed, S!Modes, WaiterPlaces
  <1>3. S!PermitsExact
    BY <1>1 DEF S!PermitsExact, S!Counted
  <1>4. InProgress
    BY DEF S!Init, InProgress
  <1> QED BY <1>2, <1>3, <1>4 DEF SemaphoreInv

(***************************************************************************)
(* Each atomic operation of the waiter keeps it so; what it finds in       *)
(* m_count tells it whether a post is bound for it.                        *)
(***************************************************************************)
LEMMA WaiterExact == ASSUME SemaphoreInv, S!WaiterStep \/ \E m \in S!Modes : S!WaitCall(m)
                     PROVE  SemaphoreInv'
  <1> USE DEF SemaphoreInv, Typed, S!PermitsExact, InProgress, S!Counted, S!Modes,
              WaiterPlaces, S!Acquired, S!TimedOut, S!GoTo, S!FetchDecrement
  <1>1. ASSUME NEW m \in S!Modes, S!WaitCall(m) PROVE SemaphoreInv'
    BY <1>1 DEF S!WaitCall
  <1>2. CASE S!Test       BY <1>2 DEF S!Test
  <1>3. CASE S!Take       BY <1>3 DEF S!Take
  <1>4. CASE S!Decrement  BY <1>4 DEF S!Decrement
  <1>5. CASE S!Wake       BY <1>5 DEF S!Wake
  <1>6. CASE S!TimeOut    BY <1>6 DEF S!TimeOut
  <1>7. CASE S!Restore    BY <1>7 DEF S!Restore
  <1>8. CASE S!Redo       BY <1>8 DEF S!Redo
  <1>9. CASE S!TryWait    BY <1>9 DEF S!TryWait
  <1> QED BY <1>1, <1>2, <1>3, <1>4, <1>5, <1>6, <1>7, <1>8, <1>9 DEF S!WaiterStep

(***************************************************************************)
(* So does a signal, which decides by the old count whether to post, and   *)
(* the post that follows it, however much later.                           *)
(***************************************************************************)
LEMMA SignallerExact == ASSUME SemaphoreInv, S!Signal \/ S!Post PROVE SemaphoreInv'
  <1> USE DEF SemaphoreInv, Typed, S!PermitsExact, InProgress, S!Counted, S!Modes, WaiterPlaces
  <1>1. CASE S!Signal  BY <1>1 DEF S!Signal
  <1>2. CASE S!Post    BY <1>2 DEF S!Post
  <1> QED BY <1>1, <1>2

LEMMA StepExact == SemaphoreInv /\ [S!Next]_(S!semaphoreVars) => SemaphoreInv'
  <1> SUFFICES ASSUME SemaphoreInv, [S!Next]_(S!semaphoreVars) PROVE SemaphoreInv'
    OBVIOUS
  <1>1. CASE S!Next
    BY <1>1, WaiterExact, SignallerExact DEF S!Next
  <1>2. CASE UNCHANGED S!semaphoreVars
    BY <1>2 DEF S!semaphoreVars, SemaphoreInv, Typed, S!PermitsExact, InProgress, S!Counted
  <1> QED BY <1>1, <1>2

LEMMA Exact == S!Spec => []SemaphoreInv
  BY InitExact, StepExact, PTL DEF S!Spec

(***************************************************************************)
(* A wait that answers false finds no permit when it does.                 *)
(***************************************************************************)
FalseStep == answer = "none" /\ answer' = "false" => permits = 0

LEMMA FalseExact == SemaphoreInv /\ [S!Next]_(S!semaphoreVars) => [FalseStep]_(S!semaphoreVars)
  <1> SUFFICES ASSUME SemaphoreInv, S!Next, answer = "none", answer' = "false"
               PROVE  permits = 0
    BY DEF FalseStep
  <1> USE DEF SemaphoreInv, Typed, S!PermitsExact, InProgress, S!Counted,
              S!Acquired, S!TimedOut, S!GoTo, S!FetchDecrement
  <1>1. CASE S!Test     BY <1>1 DEF S!Test
  <1>2. CASE S!Restore  BY <1>2 DEF S!Restore
  <1>3. CASE S!Next /\ ~S!Test /\ ~S!Restore
    BY <1>3 DEF S!Next, S!WaiterStep, S!WaitCall, S!Take, S!Decrement, S!Wake, S!TimeOut,
                S!Redo, S!TryWait, S!Signal, S!Post
  <1> QED BY <1>1, <1>2, <1>3

-----------------------------------------------------------------------------

(***************************************************************************)
(* The semaphore inside: enqueue only signals it and its post, the         *)
(* dequeues only wait on it.                                               *)
(***************************************************************************)
LEMMA SemaphoreSteps == [Next]_vars => [S!Next]_semaphoreVars
  <1> SUFFICES ASSUME [Next]_vars PROVE [S!Next]_semaphoreVars
    OBVIOUS
  <1>1. CASE Enqueue \/ EnqueueStep
    BY <1>1 DEF Enqueue, EnqueueStep
  <1>2. CASE SignalElement
    BY <1>2 DEF SignalElement, S!Next
  <1>3. CASE PostElement
    BY <1>3 DEF PostElement, S!Next
  <1>4. CASE WaitDequeue
    BY <1>4 DEF WaitDequeue, S!Next
  <1>5. CASE WaitStep
    BY <1>5 DEF WaitStep, S!Next
  <1>6. CASE Dequeue \/ DequeueStep \/ Peek
    BY <1>6 DEF Dequeue, DequeueStep, Peek
  <1>7. CASE UNCHANGED vars
    BY <1>7 DEF vars
  <1> QED
    BY <1>1, <1>2, <1>3, <1>4, <1>5, <1>6, <1>7 DEF Next, Producer, Consumer

(***************************************************************************)
(* The queue implements the semaphore's specification.                     *)
(***************************************************************************)
THEOREM SemaphoreTheorem == Spec => S!Spec
  <1>1. Init => S!Init
    BY DEF Init
  <1>2. [Next]_vars => [S!Next]_(S!semaphoreVars)
    BY SemaphoreSteps DEF semaphoreVars, S!semaphoreVars
  <1> QED BY <1>1, <1>2, PTL DEF Spec, S!Spec

(***************************************************************************)
(* The count is what is left of the signals, and a post is there exactly   *)
(* while a waiter is bound to take it: no time-out of wait_dequeue_timed   *)
(* loses a signal or leaves its post for a later wait, so that a message   *)
(* is not left behind until the next one comes.                            *)
(***************************************************************************)
THEOREM PermitsTheorem == Spec => []PermitsExact
  <1>1. SemaphoreInv => PermitsExact
    BY DEF SemaphoreInv, PermitsExact
  <1> QED BY <1>1, Exact, SemaphoreTheorem, PTL

(***************************************************************************)
(* A wait that returns false has missed no signal: at the moment it gives  *)
(* up there is none (the loop of waitWithPartialSpinning ends only then).  *)
(***************************************************************************)
THEOREM FalseTheorem == Spec => S!FalseMeansNoPermit
  <1>1. S!Spec => [][FalseStep]_(S!semaphoreVars)
    BY Exact, FalseExact, PTL DEF S!Spec
  <1>2. [FalseStep]_(S!semaphoreVars)
          => [answer = "none" /\ answer' = "false" => permits = 0]_(S!semaphoreVars)
    BY DEF FalseStep
  <1> QED BY <1>1, <1>2, SemaphoreTheorem, PTL DEF S!FalseMeansNoPermit

-----------------------------------------------------------------------------
(* The ring.                                                               *)

(***************************************************************************)
(* Distances in a ring of s slots, from the difference of two indices.     *)
(***************************************************************************)
Cyc(d, s) == IF d >= 0 THEN d ELSE d + s

Count(b) == Cyc(tail[b] - front[b], size[b])        \* elements of block b
Freed(b) == Cyc(front[b] - localFront[b], size[b])  \* taken, unknown to the producer
Seen(b) == Cyc(localTail[b] - front[b], size[b])    \* known to the consumer
Offset(b, i) == Cyc(i - front[b], size[b])          \* from the oldest to slot i

\* The blocks that are in the ring.
Linked == IF ppc = "link" THEN blockCount - 1 ELSE blockCount

ProducerPlaces == {"idle", "loadFront", "write", "publish", "testNext", "useNext", "writeNext",
                   "publishNext", "allocate", "link", "advance"}
ConsumerPlaces == {"idle", "loadTail", "testTailBlock", "recheck", "loadNext", "loadNextTail",
                   "leave", "take", "release"}

\* The sizes there are: FirstSize, doubled again and again up to MaxSize.
Doublings == CHOOSE sizes \in SUBSET (FirstSize .. MaxSize) :
               FirstSize \in sizes /\ \A s \in sizes : s < MaxSize => 2 * s \in sizes

\* The variables are what the declarations say.
Shapes ==
  /\ front \in [Q!Blocks -> Int] /\ tail \in [Q!Blocks -> Int]
  /\ localFront \in [Q!Blocks -> Int] /\ localTail \in [Q!Blocks -> Int]
  /\ next \in [Q!Blocks -> Q!Blocks] /\ size \in [Q!Blocks -> Int]
  /\ data \in [Q!Blocks -> [Q!Slots -> Int]]
  /\ blockCount \in Q!Blocks /\ newBlock \in 1 .. blockCount
  /\ largestBlockSize \in Doublings
  /\ ppc \in ProducerPlaces /\ canAlloc \in BOOLEAN
  /\ cpc \in ConsumerPlaces /\ op \in Q!Ops /\ item \in 0 .. MaxElements
  /\ put \in 0 .. MaxElements /\ got \in Nat /\ out \in 0 .. put
  /\ call \in {"idle", "some", "none"}

\* A block is a ring that is never full, in which each thread knows less than
\* the other has done.
BlockOK(b) ==
  /\ size[b] \in FirstSize .. MaxSize
  /\ front[b] \in 0 .. size[b] - 1 /\ tail[b] \in 0 .. size[b] - 1
  /\ localFront[b] \in 0 .. size[b] - 1 /\ localTail[b] \in 0 .. size[b] - 1
  /\ Freed(b) + Count(b) < size[b] /\ Seen(b) <= Count(b)
  /\ b > blockCount => front[b] = 0 /\ tail[b] = 0 /\ localFront[b] = 0 /\ localTail[b] = 0

BlocksOK == \A b \in Q!Blocks : BlockOK(b)

\* The linked blocks in the order of the ring, from the front block; r is the rank.
Ring(w, r) ==
  /\ w \in [0 .. Linked - 1 -> 1 .. Linked] /\ r \in [1 .. Linked -> 0 .. Linked - 1]
  /\ \A k \in 0 .. Linked - 1 : r[w[k]] = k
  /\ \A b \in 1 .. Linked :
       w[r[b]] = b /\ next[b] = w[IF r[b] = Linked - 1 THEN 0 ELSE r[b] + 1]
  /\ w[0] = frontBlock /\ tailBlock \in 1 .. Linked /\ block \in 1 .. Linked

\* base[b] elements have been put into the queue before those of block b.
Numbers(r, base) ==
  /\ base \in [Q!Blocks -> Nat]
  /\ base[frontBlock] = got /\ base[tailBlock] + Count(tailBlock) = put
  /\ \A b \in 1 .. Linked :
       /\ r[b] < r[tailBlock] => base[next[b]] = base[b] + Count(b)
       /\ r[b] <= r[tailBlock] => base[b] + Count(b) <= put
       /\ 0 < r[b] /\ r[b] <= r[tailBlock] => Count(b) > 0
       /\ r[b] > r[tailBlock] => Count(b) = IF ppc = "advance" /\ b = newBlock THEN 1 ELSE 0

\* The element that has been moved out, and the one not yet published.
Taken(b, i) == cpc = "release" /\ b = frontBlock /\ i = front[b]
Written(b, i) == /\ i = tail[b]
                 /\ \/ ppc = "publish" /\ b = tailBlock
                    \/ ppc = "publishNext" /\ b = newBlock

Content(base, b, i) ==
  IF Taken(b, i) THEN 0
  ELSE IF i < size[b] /\ Offset(b, i) < Count(b) THEN base[b] + Offset(b, i) + 1
  ELSE IF Written(b, i) THEN put + 1 ELSE 0

Contents(base) == \A b \in Q!Blocks, i \in Q!Slots : data[b][i] = Content(base, b, i)

\* What the producer knows where it is.
ProducerAt(r, base) ==
  /\ ppc # "idle" => put < MaxElements
  /\ ppc \in {"write", "publish"} => Freed(tailBlock) + Count(tailBlock) + 1 < size[tailBlock]
  /\ ppc \in {"useNext", "writeNext", "publishNext", "advance"} => r[tailBlock] < Linked - 1
  /\ ppc \in {"writeNext", "publishNext", "advance"} => newBlock = next[tailBlock]
  /\ ppc \in {"writeNext", "publishNext"} => localFront[newBlock] = front[newBlock]
  /\ ppc \in {"link", "advance"} => Count(newBlock) = 1 /\ base[newBlock] = put
  /\ ppc = "link" => newBlock = blockCount /\ next[newBlock] = next[tailBlock]

\* What the consumer knows where it is.
ConsumerAt ==
  /\ call = "idle" <=> cpc = "idle"
  /\ call = "some" => got < put
  /\ cpc \in {"loadTail", "testTailBlock", "recheck", "loadNext"} => block = frontBlock
  /\ cpc = "testTailBlock" /\ call = "some" => frontBlock # tailBlock
  /\ cpc \in {"recheck", "loadNext", "loadNextTail", "leave"} => frontBlock # tailBlock
  /\ cpc \in {"loadNext", "loadNextTail", "leave"} => Count(frontBlock) = 0
  /\ cpc \in {"loadNextTail", "leave"} => block = next[frontBlock]
  /\ cpc = "leave" => op # "peek" /\ Seen(block) > 0
  /\ cpc \in {"take", "release"} /\ op # "peek" => block = frontBlock /\ Seen(block) > 0
  /\ cpc = "take" /\ op = "peek" =>
       /\ Count(block) > 0
       /\ block # frontBlock => /\ frontBlock # tailBlock /\ Count(frontBlock) = 0
                                /\ block = next[frontBlock]
  /\ cpc = "release" => op # "peek" /\ item = got + 1

Body(w, r, base) ==
  /\ Shapes /\ BlocksOK
  /\ Ring(w, r) /\ Numbers(r, base) /\ Contents(base) /\ ProducerAt(r, base) /\ ConsumerAt

RingInv == \E w, r, base : Body(w, r, base)

-----------------------------------------------------------------------------

\* What is assumed of the constants.
LEMMA Constants ==
  /\ FirstSize \in Nat /\ MaxSize \in Nat /\ 1 < FirstSize /\ FirstSize <= MaxSize
  /\ MaxBlocks \in Nat \ {0} /\ MaxElements \in Nat
  /\ Doublings \subseteq FirstSize .. MaxSize /\ FirstSize \in Doublings
  /\ \A s \in Doublings : s < MaxSize => 2 * s \in Doublings
  BY BlockingQueueAssumption DEF Doublings

\* The next slot of a block.
LEMMA SuccSlot == ASSUME NEW s \in Nat, NEW i \in 0 .. s - 1
                  PROVE  (i + 1) % s = IF i + 1 = s THEN 0 ELSE i + 1
  OBVIOUS

(***************************************************************************)
(* A set of numbers has a least one, so that what fails somewhere in a     *)
(* walk fails somewhere first.                                             *)
(***************************************************************************)
LEMMA LeastNumber == ASSUME NEW T, T \subseteq Nat, T # {}
                     PROVE  \E x \in T : \A y \in T : x <= y
  <1> DEFINE R == OpToRel(<, Nat)
  <1>1. IsWellFoundedOn(R, Nat)
    BY NatLessThanWellFounded
  <1> HIDE DEF R
  <1>2. PICK x \in T : \A y \in T : ~(<<y, x>> \in R)
    BY <1>1, WFMin
  <1>3. \A y \in T : ~(y < x)
    BY <1>2 DEF R, OpToRel
  <1> QED BY <1>2, <1>3

-----------------------------------------------------------------------------
(* What a step leaves alone.                                               *)

\* The distances depend on the indices and the sizes alone.
LEMMA CyclesSame ==
  UNCHANGED <<front, tail, localFront, localTail, size>> =>
    \A b : Count(b)' = Count(b) /\ Freed(b)' = Freed(b) /\ Seen(b)' = Seen(b)
  BY DEF Count, Freed, Seen, Cyc

\* The consumer moves on, and what the producer relies on stays.
LEMMA RingSame ==
  ASSUME NEW w, NEW r, NEW base, Ring(w, r), Numbers(r, base), ProducerAt(r, base),
         UNCHANGED <<front, tail, localFront, Q!ringVars, ppc, newBlock, put, got>>,
         block' \in 1 .. Linked
  PROVE  Ring(w, r)' /\ Numbers(r, base)' /\ ProducerAt(r, base)'
  <1>1. Linked' = Linked BY DEF Linked, Q!ringVars
  <1>2. \A b : Count(b)' = Count(b) /\ Freed(b)' = Freed(b)
    BY DEF Count, Freed, Cyc, Q!ringVars
  <1>3. Ring(w, r)'
    BY <1>1 DEF Ring, Q!ringVars
  <1>4. Numbers(r, base)'
    BY <1>1, <1>2 DEF Numbers, Q!ringVars
  <1>5. ProducerAt(r, base)'
    BY <1>1, <1>2 DEF ProducerAt, Q!ringVars
  <1> QED BY <1>3, <1>4, <1>5

\* Unless it takes or gives back a slot, the contents stay too.
LEMMA ConsumerFrame ==
  ASSUME NEW w, NEW r, NEW base,
         Ring(w, r), Numbers(r, base), Contents(base), ProducerAt(r, base),
         UNCHANGED <<front, tail, localFront, data, Q!ringVars, ppc, newBlock, put, got>>,
         cpc # "release", cpc' # "release", block' \in 1 .. Linked
  PROVE  Ring(w, r)' /\ Numbers(r, base)' /\ Contents(base)' /\ ProducerAt(r, base)'
  <1>1. Contents(base)'
    BY DEF Contents, Content, Taken, Written, Offset, Count, Cyc, Q!ringVars
  <1> QED BY <1>1, RingSame

\* The producer moves on, and what the consumer relies on stays.
LEMMA ProducerFrame ==
  ASSUME NEW w, NEW r, ConsumerAt,
         UNCHANGED <<front, tail, localTail, Q!ringVars, cpc, op, block, item, put, got, call>>
  PROVE  ConsumerAt'
  <1>1. \A b : Count(b)' = Count(b) /\ Seen(b)' = Seen(b)
    BY DEF Count, Seen, Cyc, Q!ringVars
  <1> QED BY <1>1 DEF ConsumerAt, Q!ringVars

\* The walk leads from each linked block to the next one.
LEMMA RingLinked ==
  ASSUME NEW w, NEW r, Ring(w, r), Shapes
  PROVE  /\ Linked \in Nat /\ Linked >= 1 /\ 1 .. Linked \subseteq Q!Blocks
         /\ frontBlock \in 1 .. Linked /\ r[frontBlock] = 0
         /\ \A b \in 1 .. Linked : /\ next[b] \in 1 .. Linked
                                   /\ r[b] \in 0 .. Linked - 1
                                   /\ r[next[b]] = IF r[b] = Linked - 1 THEN 0 ELSE r[b] + 1
                                   /\ r[b] = 0 => b = frontBlock
  <1>1. blockCount \in Nat /\ blockCount <= MaxBlocks
    BY Constants DEF Shapes, Q!Blocks
  <1>2. Linked \in Int /\ Linked <= blockCount
    BY <1>1 DEF Linked
  <1>3. Linked >= 1
    BY <1>2 DEF Ring
  <1>4. 1 .. Linked \subseteq Q!Blocks
    BY <1>1, <1>2, Constants DEF Q!Blocks
  <1>5. frontBlock \in 1 .. Linked /\ r[frontBlock] = 0
    BY <1>2, <1>3 DEF Ring
  <1>6. ASSUME NEW b \in 1 .. Linked
        PROVE  /\ next[b] \in 1 .. Linked
               /\ r[b] \in 0 .. Linked - 1
               /\ r[next[b]] = IF r[b] = Linked - 1 THEN 0 ELSE r[b] + 1
               /\ r[b] = 0 => b = frontBlock
    <2>1. r[b] \in 0 .. Linked - 1 /\ w[r[b]] = b
      BY DEF Ring
    <2>2. PICK k \in 0 .. Linked - 1 : k = IF r[b] = Linked - 1 THEN 0 ELSE r[b] + 1
      BY <1>2, <1>3, <2>1
    <2>3. next[b] = w[k]
      BY <2>2 DEF Ring
    <2>4. w[k] \in 1 .. Linked /\ r[w[k]] = k /\ w[0] = frontBlock
      BY DEF Ring
    <2> QED BY <2>1, <2>2, <2>3, <2>4
  <1> QED BY <1>2, <1>3, <1>4, <1>5, <1>6

\* The distances in a block.
LEMMA Distances ==
  ASSUME BlocksOK, NEW b \in Q!Blocks
  PROVE  /\ size[b] \in Nat /\ 1 < size[b]
         /\ Count(b) \in 0 .. size[b] - 1 /\ Freed(b) \in 0 .. size[b] - 1
         /\ Seen(b) \in 0 .. Count(b)
         /\ Count(b) = 0 <=> front[b] = tail[b]
         /\ Seen(b) = 0 <=> front[b] = localTail[b]
  BY Constants DEF BlocksOK, BlockOK, Count, Freed, Seen, Cyc

\* One linked block: every number about it is one.
LEMMA LinkedBlock ==
  ASSUME NEW w, NEW r, NEW base, Shapes, BlocksOK, Ring(w, r), Numbers(r, base),
         NEW b \in 1 .. Linked
  PROVE  /\ b \in Q!Blocks /\ next[b] \in 1 .. Linked /\ next[b] \in Q!Blocks
         /\ r[b] \in Int /\ 0 <= r[b] /\ r[b] < Linked /\ Linked \in Int
         /\ r[tailBlock] \in Int /\ r[tailBlock] < Linked
         /\ r[next[b]] = IF r[b] = Linked - 1 THEN 0 ELSE r[b] + 1
         /\ r[b] = 0 <=> b = frontBlock
         /\ r[b] = r[tailBlock] <=> b = tailBlock
         /\ Count(b) \in Nat /\ base[b] \in Nat /\ put \in Nat /\ got \in Nat
         /\ r[b] < r[tailBlock] => base[next[b]] = base[b] + Count(b)
         /\ r[b] <= r[tailBlock] => base[b] + Count(b) <= put
         /\ 0 < r[b] /\ r[b] <= r[tailBlock] => Count(b) > 0
         /\ r[b] > r[tailBlock] => Count(b) = IF ppc = "advance" /\ b = newBlock THEN 1 ELSE 0
  <1>1. /\ b \in Q!Blocks /\ next[b] \in 1 .. Linked /\ next[b] \in Q!Blocks
        /\ r[b] \in 0 .. Linked - 1 /\ Linked \in Int /\ tailBlock \in 1 .. Linked
        /\ r[tailBlock] \in 0 .. Linked - 1
        /\ r[next[b]] = IF r[b] = Linked - 1 THEN 0 ELSE r[b] + 1
        /\ r[b] = 0 <=> b = frontBlock
    <2>1. tailBlock \in 1 .. Linked
      BY DEF Ring
    <2> QED BY <2>1, RingLinked
  <1>2. r[b] = r[tailBlock] => b = tailBlock
    BY <1>1 DEF Ring
  <1>3. Count(b) \in Nat
    BY <1>1, Distances
  <1>4. base[b] \in Nat /\ put \in Nat /\ got \in Nat
    BY <1>1, Constants DEF Numbers, Shapes
  <1>5. /\ r[b] < r[tailBlock] => base[next[b]] = base[b] + Count(b)
        /\ r[b] <= r[tailBlock] => base[b] + Count(b) <= put
        /\ 0 < r[b] /\ r[b] <= r[tailBlock] => Count(b) > 0
        /\ r[b] > r[tailBlock] => Count(b) = IF ppc = "advance" /\ b = newBlock THEN 1 ELSE 0
    BY DEF Numbers
  <1> QED BY <1>1, <1>2, <1>3, <1>4, <1>5

\* Where the front block ends, and what is left of the elements.
LEMMA FrontFacts ==
  ASSUME NEW w, NEW r, NEW base, Shapes, BlocksOK, Ring(w, r), Numbers(r, base)
  PROVE  /\ Count(frontBlock) > 0 => got < put
         /\ frontBlock = tailBlock /\ Count(frontBlock) = 0 => got = put
         /\ frontBlock # tailBlock =>
              /\ r[tailBlock] > 0 /\ next[frontBlock] # frontBlock
              /\ r[next[frontBlock]] = 1 /\ Count(next[frontBlock]) > 0
              /\ base[next[frontBlock]] = got + Count(frontBlock)
              /\ got < put
  <1>1. /\ frontBlock \in 1 .. Linked /\ tailBlock \in 1 .. Linked
        /\ next[frontBlock] \in 1 .. Linked /\ r[frontBlock] = 0
    BY RingLinked DEF Ring
  <1>2. base[frontBlock] = got /\ base[tailBlock] + Count(tailBlock) = put
    BY DEF Numbers
  <1>3. Count(frontBlock) > 0 => got < put
    BY <1>1, <1>2, LinkedBlock
  <1>4. frontBlock = tailBlock /\ Count(frontBlock) = 0 => got = put
    BY <1>1, <1>2, LinkedBlock
  <1>5. ASSUME frontBlock # tailBlock
        PROVE  /\ r[tailBlock] > 0 /\ next[frontBlock] # frontBlock
               /\ r[next[frontBlock]] = 1 /\ Count(next[frontBlock]) > 0
               /\ base[next[frontBlock]] = got + Count(frontBlock)
               /\ got < put
    <2>1. r[tailBlock] > 0 /\ Linked > 1 /\ Linked \in Int /\ r[tailBlock] \in Int
      BY <1>1, <1>5, LinkedBlock
    <2>2. r[next[frontBlock]] = 1
      BY <1>1, <2>1, LinkedBlock
    <2>3. base[next[frontBlock]] = got + Count(frontBlock)
      BY <1>1, <1>2, <2>1, LinkedBlock
    <2>4. Count(next[frontBlock]) > 0 /\ base[next[frontBlock]] + Count(next[frontBlock]) <= put
      BY <1>1, <2>1, <2>2, LinkedBlock
    <2>5. Count(frontBlock) \in Nat /\ Count(next[frontBlock]) \in Nat /\ got \in Nat /\ put \in Nat
      BY <1>1, LinkedBlock
    <2> QED BY <1>1, <2>1, <2>2, <2>3, <2>4, <2>5
  <1> QED BY <1>3, <1>4, <1>5

-----------------------------------------------------------------------------
(* The consumer's steps.                                                   *)

\* The blocks are what their indices and sizes say.
LEMMA BlocksSame ==
  BlocksOK /\ UNCHANGED <<front, tail, localFront, localTail, size, blockCount>> => BlocksOK'
  BY DEF BlocksOK, BlockOK, Count, Freed, Seen, Cyc

\* The tail of block c, as the consumer reads it.
LEMMA LoadTailBlocks ==
  ASSUME Shapes, BlocksOK, NEW c \in Q!Blocks, localTail' = [localTail EXCEPT ![c] = tail[c]],
         UNCHANGED <<front, tail, localFront, size, blockCount>>
  PROVE  /\ localTail' \in [Q!Blocks -> Int] /\ BlocksOK'
         /\ Seen(c)' = Count(c) /\ Count(c)' = Count(c)
  <1>1. localTail' \in [Q!Blocks -> Int] /\ localTail'[c] = tail[c]
    BY DEF Shapes
  <1>2. ASSUME NEW b \in Q!Blocks PROVE BlockOK(b)'
    <2>1. BlockOK(b)
      BY DEF BlocksOK
    <2>2. localTail'[b] = IF b = c THEN tail[b] ELSE localTail[b]
      BY DEF Shapes
    <2> QED BY <2>1, <2>2 DEF BlockOK, Count, Freed, Seen, Cyc
  <1>3. Seen(c)' = Count(c) /\ Count(c)' = Count(c)
    BY <1>1 DEF Seen, Count, Cyc
  <1> QED BY <1>1, <1>2, <1>3 DEF BlocksOK

\* A call of the consumer begins (try_dequeue, pop, peek).
LEMMA CallStep ==
  ASSUME NEW w, NEW r, NEW base, Body(w, r, base), NEW o \in Q!Ops, Q!ConsumerCall(o)
  PROVE  Body(w, r, base)'
  <1>1. /\ Shapes /\ BlocksOK /\ Ring(w, r) /\ Numbers(r, base) /\ Contents(base)
        /\ ProducerAt(r, base) /\ ConsumerAt
    BY DEF Body
  <1>2. /\ UNCHANGED <<front, tail, localFront, localTail, data, Q!ringVars, ppc, canAlloc,
                       newBlock, put, got, item, out>>
        /\ cpc = "idle" /\ cpc' \in {"take", "loadTail"} /\ block' = frontBlock /\ op' = o
        /\ call' = IF got < put THEN "some" ELSE "none"
        /\ cpc' = "take" => front[frontBlock] # localTail[frontBlock]
    BY DEF Q!ConsumerCall, Q!blockVars, Q!producerVars
  <1>3. frontBlock \in 1 .. Linked /\ frontBlock \in Q!Blocks
    BY <1>1, RingLinked
  <1>4. Shapes'
    BY <1>1, <1>2 DEF Shapes, ConsumerPlaces, Q!ringVars
  <1>5. BlocksOK'
    BY <1>1, <1>2, BlocksSame DEF Q!ringVars
  <1>6. Ring(w, r)' /\ Numbers(r, base)' /\ Contents(base)' /\ ProducerAt(r, base)'
    BY <1>1, <1>2, <1>3, ConsumerFrame
  <1>7. ConsumerAt'
    <2>1. Seen(frontBlock)' = Seen(frontBlock) /\ Count(frontBlock)' = Count(frontBlock)
      BY <1>2, CyclesSame DEF Q!ringVars
    <2>2. cpc' = "take" => Seen(frontBlock) > 0 /\ Count(frontBlock) > 0
      BY <1>1, <1>2, <1>3, Distances
    <2> QED BY <1>2, <2>1, <2>2 DEF ConsumerAt, Q!ringVars
  <1> QED BY <1>4, <1>5, <1>6, <1>7 DEF Body

\* The consumer reads the tail of the front block, the first time or again.
LEMMA LoadTailStep ==
  ASSUME NEW w, NEW r, NEW base, Body(w, r, base), Q!LoadTail \/ Q!Recheck
  PROVE  Body(w, r, base)'
  <1>1. /\ Shapes /\ BlocksOK /\ Ring(w, r) /\ Numbers(r, base) /\ Contents(base)
        /\ ProducerAt(r, base) /\ ConsumerAt
    BY DEF Body
  <1>2. /\ UNCHANGED <<front, tail, localFront, data, Q!ringVars, ppc, canAlloc, newBlock,
                       put, got, op, block, item, out, call>>
        /\ cpc = "loadTail" \/ (cpc = "recheck" /\ frontBlock # tailBlock)
        /\ localTail' = [localTail EXCEPT ![frontBlock] = tail[frontBlock]]
        /\ cpc' = IF front[frontBlock] # tail[frontBlock] THEN "take"
                  ELSE IF cpc = "loadTail" THEN "testTailBlock" ELSE "loadNext"
    BY <1>1 DEF Q!LoadTail, Q!Recheck, Q!LoadTailInto, Q!producerVars, Q!historyVars, ConsumerAt
  <1>3. frontBlock \in 1 .. Linked /\ frontBlock \in Q!Blocks /\ block \in 1 .. Linked
    BY <1>1, RingLinked DEF Ring
  <1>4. /\ localTail' \in [Q!Blocks -> Int] /\ BlocksOK'
        /\ Seen(frontBlock)' = Count(frontBlock) /\ Count(frontBlock)' = Count(frontBlock)
    BY <1>1, <1>2, <1>3, LoadTailBlocks DEF Q!ringVars
  <1>5. Shapes'
    BY <1>1, <1>2, <1>4 DEF Shapes, ConsumerPlaces, Q!ringVars
  <1>7. Ring(w, r)' /\ Numbers(r, base)' /\ Contents(base)' /\ ProducerAt(r, base)'
    BY <1>1, <1>2, <1>3, ConsumerFrame
  <1>8. ConsumerAt'
    <2>1. /\ Count(frontBlock) = 0 <=> front[frontBlock] = tail[frontBlock]
          /\ Count(frontBlock) \in Nat
      BY <1>1, <1>3, Distances
    <2>2. call = "some" /\ Count(frontBlock) = 0 => frontBlock # tailBlock
      BY <1>1, FrontFacts, Constants DEF ConsumerAt, Shapes
    <2>3. block = frontBlock
      BY <1>1, <1>2 DEF ConsumerAt
    <2> QED BY <1>1, <1>2, <1>4, <2>1, <2>2, <2>3 DEF ConsumerAt, Q!ringVars
  <1> QED BY <1>4, <1>5, <1>7, <1>8 DEF Body

\* The consumer asks whether the empty front block is the tail block.
LEMMA TestTailBlockStep ==
  ASSUME NEW w, NEW r, NEW base, Body(w, r, base), Q!TestTailBlock
  PROVE  Body(w, r, base)'
  <1>1. /\ Shapes /\ BlocksOK /\ Ring(w, r) /\ Numbers(r, base) /\ Contents(base)
        /\ ProducerAt(r, base) /\ ConsumerAt
    BY DEF Body
  <1>2. /\ UNCHANGED <<front, tail, localFront, localTail, data, Q!ringVars, ppc, canAlloc,
                       newBlock, put, got, op, block, item, out>>
        /\ cpc = "testTailBlock"
        /\ \/ frontBlock # tailBlock /\ cpc' = "recheck" /\ call' = call
           \/ frontBlock = tailBlock /\ cpc' = "idle" /\ call' = "idle"
    BY DEF Q!TestTailBlock, Q!blockVars, Q!producerVars
  <1>3. block \in 1 .. Linked
    BY <1>1 DEF Ring
  <1>4. Shapes'
    BY <1>1, <1>2 DEF Shapes, ConsumerPlaces, Q!ringVars
  <1>5. BlocksOK'
    BY <1>1, <1>2, BlocksSame DEF Q!ringVars
  <1>6. Ring(w, r)' /\ Numbers(r, base)' /\ Contents(base)' /\ ProducerAt(r, base)'
    BY <1>1, <1>2, <1>3, ConsumerFrame
  <1>7. ConsumerAt'
    BY <1>1, <1>2 DEF ConsumerAt, Q!ringVars
  <1> QED BY <1>4, <1>5, <1>6, <1>7 DEF Body

\* It is not, and the next block is where the oldest element is.
LEMMA LoadNextStep ==
  ASSUME NEW w, NEW r, NEW base, Body(w, r, base), Q!LoadNext
  PROVE  Body(w, r, base)'
  <1>1. /\ Shapes /\ BlocksOK /\ Ring(w, r) /\ Numbers(r, base) /\ Contents(base)
        /\ ProducerAt(r, base) /\ ConsumerAt
    BY DEF Body
  <1>2. /\ UNCHANGED <<front, tail, localFront, localTail, data, Q!ringVars, ppc, canAlloc,
                       newBlock, put, got, op, item, out, call>>
        /\ cpc = "loadNext" /\ cpc' = "loadNextTail" /\ block' = next[frontBlock]
    BY DEF Q!LoadNext, Q!blockVars, Q!producerVars, Q!historyVars
  <1>3. block' \in 1 .. Linked
    BY <1>1, <1>2, RingLinked
  <1>4. Shapes'
    BY <1>1, <1>2 DEF Shapes, ConsumerPlaces, Q!ringVars
  <1>5. BlocksOK'
    BY <1>1, <1>2, BlocksSame DEF Q!ringVars
  <1>6. Ring(w, r)' /\ Numbers(r, base)' /\ Contents(base)' /\ ProducerAt(r, base)'
    BY <1>1, <1>2, <1>3, ConsumerFrame
  <1>7. ConsumerAt'
    <2>1. Count(frontBlock)' = Count(frontBlock)
      BY <1>2 DEF Count, Q!ringVars
    <2> QED BY <1>1, <1>2, <2>1 DEF ConsumerAt, Q!ringVars
  <1> QED BY <1>4, <1>5, <1>6, <1>7 DEF Body

\* The consumer reads the tail of the next block; peek already looks into it.
LEMMA LoadNextTailStep ==
  ASSUME NEW w, NEW r, NEW base, Body(w, r, base), Q!LoadNextTail
  PROVE  Body(w, r, base)'
  <1>1. /\ Shapes /\ BlocksOK /\ Ring(w, r) /\ Numbers(r, base) /\ Contents(base)
        /\ ProducerAt(r, base) /\ ConsumerAt
    BY DEF Body
  <1>2. /\ UNCHANGED <<front, tail, localFront, data, Q!ringVars, ppc, canAlloc,
                       newBlock, put, got, op, block, item, out, call>>
        /\ cpc = "loadNextTail"
        /\ \/ op = "peek" /\ cpc' = "take" /\ localTail' = localTail
           \/ /\ op # "peek" /\ cpc' = "leave"
              /\ localTail' = [localTail EXCEPT ![block] = tail[block]]
    BY DEF Q!LoadNextTail, Q!producerVars, Q!historyVars
  <1>3. /\ block \in 1 .. Linked /\ block \in Q!Blocks
        /\ frontBlock # tailBlock /\ block = next[frontBlock] /\ Count(frontBlock) = 0
    BY <1>1, <1>2, RingLinked DEF Ring, ConsumerAt
  <1>4. Count(block) > 0 /\ Count(block) \in Nat
    BY <1>1, <1>3, FrontFacts, LinkedBlock
  <1>5. Count(frontBlock)' = Count(frontBlock) /\ Count(block)' = Count(block)
    BY <1>2 DEF Count, Q!ringVars
  <1>6. Ring(w, r)' /\ Numbers(r, base)' /\ Contents(base)' /\ ProducerAt(r, base)'
    BY <1>1, <1>2, <1>3, ConsumerFrame
  <1>7. CASE op = "peek"
    <2>1. Shapes'
      BY <1>1, <1>2, <1>7 DEF Shapes, ConsumerPlaces, Q!ringVars
    <2>2. BlocksOK'
      BY <1>1, <1>2, <1>7, BlocksSame DEF Q!ringVars
    <2>3. ConsumerAt'
      BY <1>1, <1>2, <1>3, <1>4, <1>5, <1>7 DEF ConsumerAt, Q!ringVars
    <2> QED BY <1>6, <2>1, <2>2, <2>3 DEF Body
  <1>8. CASE op # "peek"
    <2>1. localTail' \in [Q!Blocks -> Int] /\ BlocksOK' /\ Seen(block)' = Count(block)
      BY <1>1, <1>2, <1>3, <1>8, LoadTailBlocks DEF Q!ringVars
    <2>2. Shapes'
      BY <1>1, <1>2, <1>8, <2>1 DEF Shapes, ConsumerPlaces, Q!ringVars
    <2>3. ConsumerAt'
      BY <1>1, <1>2, <1>3, <1>4, <1>5, <1>8, <2>1 DEF ConsumerAt, Q!ringVars
    <2> QED BY <1>6, <2>1, <2>2, <2>3 DEF Body
  <1> QED BY <1>7, <1>8

\* The block the producer prepares is neither the front nor the tail block.
LEMMA NewBlock ==
  ASSUME NEW w, NEW r, NEW base, Shapes, BlocksOK, Ring(w, r), Numbers(r, base),
         ProducerAt(r, base), ppc \in {"writeNext", "publishNext", "link", "advance"}
  PROVE  /\ newBlock # frontBlock /\ newBlock # tailBlock /\ newBlock \in Q!Blocks
         /\ ppc # "link" => newBlock \in 1 .. Linked /\ r[newBlock] = r[tailBlock] + 1
         /\ ppc \in {"writeNext", "publishNext"} => Count(newBlock) = 0
  <1>1. /\ tailBlock \in 1 .. Linked /\ frontBlock \in 1 .. Linked /\ Linked \in Nat
        /\ 1 .. Linked \subseteq Q!Blocks /\ r[frontBlock] = 0
    BY RingLinked DEF Ring
  <1>2. CASE ppc = "link"
    <2>1. newBlock = Linked + 1
      BY <1>1, <1>2, Constants DEF ProducerAt, Linked, Shapes, Q!Blocks
    <2>2. newBlock \in Q!Blocks
      BY <1>2, Constants DEF Shapes, ProducerAt, Q!Blocks
    <2> QED BY <1>1, <1>2, <2>1, <2>2
  <1>3. CASE ppc # "link"
    <2>1. newBlock = next[tailBlock] /\ r[tailBlock] < Linked - 1
      BY <1>3 DEF ProducerAt
    <2>2. /\ newBlock \in 1 .. Linked /\ r[newBlock] = r[tailBlock] + 1
          /\ r[tailBlock] \in Int /\ 0 <= r[tailBlock]
      BY <1>1, <2>1, LinkedBlock
    <2>3. ppc # "advance" => Count(newBlock) = 0
      BY <2>2, LinkedBlock
    <2> QED BY <1>1, <1>3, <2>2, <2>3
  <1> QED BY <1>2, <1>3

\* What the consumer finds where it takes: the oldest element.
LEMMA OldestElement ==
  ASSUME NEW w, NEW r, NEW base, Body(w, r, base), cpc = "take"
  PROVE  /\ block \in Q!Blocks /\ front[block] \in Q!Slots /\ Count(block) > 0
         /\ data[block][front[block]] = got + 1 /\ got < put
  <1>1. /\ Shapes /\ BlocksOK /\ Ring(w, r) /\ Numbers(r, base) /\ Contents(base)
        /\ ProducerAt(r, base) /\ ConsumerAt
    BY DEF Body
  <1>2. block \in 1 .. Linked /\ block \in Q!Blocks
    BY <1>1, RingLinked DEF Ring
  <1>3. Count(block) > 0
    BY <1>1, <1>2, Distances DEF ConsumerAt
  <1>4. base[block] = got /\ got < put
    <2>1. CASE block = frontBlock
      BY <1>1, <1>3, <2>1, FrontFacts DEF Numbers
    <2>2. CASE block # frontBlock
      <3>1. block = next[frontBlock] /\ frontBlock # tailBlock /\ Count(frontBlock) = 0
        BY <1>1, <2>2 DEF ConsumerAt
      <3>2. base[next[frontBlock]] = got + Count(frontBlock) /\ got < put
        BY <1>1, <3>1, FrontFacts
      <3>3. got \in Int
        BY <1>1, Constants DEF Shapes
      <3> QED BY <3>1, <3>2, <3>3
    <2> QED BY <2>1, <2>2
  <1>5. /\ front[block] \in Q!Slots /\ front[block] < size[block]
        /\ Offset(block, front[block]) = 0
    BY <1>1, <1>2, Constants DEF BlocksOK, BlockOK, Q!Slots, Offset, Cyc
  <1>6. data[block][front[block]] = Content(base, block, front[block])
    BY <1>1, <1>2, <1>5 DEF Contents
  <1>7. Content(base, block, front[block]) = got + 1
    BY <1>1, <1>3, <1>4, <1>5 DEF Content, Taken, Shapes
  <1> QED BY <1>2, <1>3, <1>4, <1>5, <1>6, <1>7

\* The consumer moves the oldest element out of its slot, or looks at it.
LEMMA TakeElementStep ==
  ASSUME NEW w, NEW r, NEW base, Body(w, r, base), Q!TakeElement
  PROVE  Body(w, r, base)'
  <1>1. /\ Shapes /\ BlocksOK /\ Ring(w, r) /\ Numbers(r, base) /\ Contents(base)
        /\ ProducerAt(r, base) /\ ConsumerAt
    BY DEF Body
  <1>2. /\ UNCHANGED <<front, tail, localFront, localTail, Q!ringVars, ppc, canAlloc,
                       newBlock, put, got, op, block>>
        /\ cpc = "take" /\ item' = data[block][front[block]]
        /\ \/ /\ op = "peek" /\ cpc' = "idle" /\ call' = "idle" /\ out' = item'
              /\ data' = data
           \/ /\ op # "peek" /\ cpc' = "release" /\ call' = call /\ out' = out
              /\ data' = [data EXCEPT ![block][front[block]] = 0]
    BY DEF Q!TakeElement, Q!producerVars
  <1>3. /\ block \in Q!Blocks /\ front[block] \in Q!Slots /\ item' = got + 1 /\ got < put
        /\ Count(block) > 0
    BY <1>1, <1>2, OldestElement
  <1>4. block \in 1 .. Linked
    BY <1>1 DEF Ring
  <1>5. Shapes'
    <2>1. data' \in [Q!Blocks -> [Q!Slots -> Int]]
      BY <1>1, <1>2, <1>3 DEF Shapes
    <2>2. item' \in 0 .. MaxElements /\ out' \in 0 .. put'
      BY <1>1, <1>2, <1>3, Constants DEF Shapes
    <2> QED BY <1>1, <1>2, <2>1, <2>2 DEF Shapes, ConsumerPlaces, Q!ringVars
  <1>6. BlocksOK'
    BY <1>1, <1>2, BlocksSame DEF Q!ringVars
  <1>7. Ring(w, r)' /\ Numbers(r, base)' /\ ProducerAt(r, base)'
    BY <1>1, <1>2, <1>4, RingSame
  <1>8. Contents(base)'
    <2>1. CASE op = "peek"
      BY <1>1, <1>2, <2>1
         DEF Contents, Content, Taken, Written, Offset, Count, Cyc, Q!ringVars
    <2>2. CASE op # "peek"
      <3>1. block = frontBlock
        BY <1>1, <1>2, <2>2 DEF ConsumerAt
      <3> SUFFICES ASSUME NEW b \in Q!Blocks, NEW i \in Q!Slots
                   PROVE  data'[b][i] = Content(base, b, i)'
        BY DEF Contents
      <3>2. data[b][i] = Content(base, b, i)
        BY <1>1 DEF Contents
      <3>3. data'[b][i] = IF b = block /\ i = front[block] THEN 0 ELSE data[b][i]
        BY <1>1, <1>2, <2>2 DEF Shapes
      <3> QED BY <1>2, <2>2, <3>1, <3>2, <3>3
                 DEF Content, Taken, Written, Offset, Count, Cyc, Q!ringVars
    <2> QED BY <2>1, <2>2
  <1>9. ConsumerAt'
    <2>1. Seen(block)' = Seen(block)
      BY <1>2 DEF Seen, Q!ringVars
    <2> QED BY <1>1, <1>2, <1>3, <2>1 DEF ConsumerAt, Q!ringVars
  <1> QED BY <1>5, <1>6, <1>7, <1>8, <1>9 DEF Body

\* The consumer leaves an empty block, which goes to the end of the walk.
LEMMA LeaveStep ==
  ASSUME NEW w, NEW r, NEW base, Body(w, r, base), Q!Leave
  PROVE  \E w2, r2 : Body(w2, r2, base)'
  <1>1. /\ Shapes /\ BlocksOK /\ Ring(w, r) /\ Numbers(r, base) /\ Contents(base)
        /\ ProducerAt(r, base) /\ ConsumerAt
    BY DEF Body
  <1>2. /\ UNCHANGED <<front, tail, localFront, localTail, data, next, size, tailBlock,
                       largestBlockSize, blockCount, ppc, canAlloc, newBlock, op, block,
                       item, put, got, out, call>>
        /\ cpc = "leave" /\ cpc' = "take" /\ frontBlock' = block
    BY DEF Q!Leave, Q!producerVars, Q!historyVars
  <1>3. /\ frontBlock # tailBlock /\ Count(frontBlock) = 0 /\ block = next[frontBlock]
        /\ Seen(block) > 0 /\ op # "peek"
    BY <1>1, <1>2 DEF ConsumerAt
  <1>4. /\ Linked \in Nat /\ frontBlock \in 1 .. Linked /\ tailBlock \in 1 .. Linked
        /\ block \in 1 .. Linked /\ block \in Q!Blocks
        /\ r[frontBlock] = 0 /\ r[block] = 1 /\ r[tailBlock] > 0
        /\ r[tailBlock] \in Int /\ r[tailBlock] < Linked
        /\ base[block] = got /\ block # frontBlock
    <2>1. frontBlock \in 1 .. Linked /\ tailBlock \in 1 .. Linked /\ r[frontBlock] = 0
      BY <1>1, RingLinked DEF Ring
    <2>2. /\ block \in 1 .. Linked /\ block \in Q!Blocks /\ Linked \in Nat
          /\ r[tailBlock] \in Int /\ r[tailBlock] < Linked /\ got \in Nat
      BY <1>1, <1>3, <2>1, RingLinked, LinkedBlock
    <2>3. r[tailBlock] > 0 /\ r[block] = 1 /\ base[block] = got + Count(frontBlock)
      BY <1>1, <1>3, FrontFacts
    <2> QED BY <1>3, <2>1, <2>2, <2>3
  <1>5. Linked' = Linked
    BY <1>2 DEF Linked
  <1>6. \A b : Count(b)' = Count(b) /\ Freed(b)' = Freed(b) /\ Seen(b)' = Seen(b)
    BY <1>2, CyclesSame
  <1> DEFINE W == [k \in 0 .. Linked - 1 |-> IF k = Linked - 1 THEN frontBlock ELSE w[k + 1]]
             R == [b \in 1 .. Linked |-> IF b = frontBlock THEN Linked - 1 ELSE r[b] - 1]
  <1>7. PICK w2, r2 : w2 = W /\ r2 = R
    OBVIOUS
  <1>8. /\ Linked > 1
        /\ \A b \in 1 .. Linked :
             r2[b] \in Int /\ r2[b] = IF b = frontBlock THEN Linked - 1 ELSE r[b] - 1
    BY <1>1, <1>4, <1>7, RingLinked
  <1>9. Ring(w2, r2)'
    <2>1. /\ w \in [0 .. Linked - 1 -> 1 .. Linked] /\ r \in [1 .. Linked -> 0 .. Linked - 1]
          /\ w[0] = frontBlock
      BY <1>1 DEF Ring
    <2>2. w2 \in [0 .. Linked - 1 -> 1 .. Linked]
      <3>1. ASSUME NEW k \in 0 .. Linked - 1, k # Linked - 1 PROVE w[k + 1] \in 1 .. Linked
        <4>1. k + 1 \in 0 .. Linked - 1
          BY <1>4, <3>1
        <4> QED BY <2>1, <4>1
      <3> QED BY <1>4, <1>7, <3>1
    <2>3. r2 \in [1 .. Linked -> 0 .. Linked - 1]
      <3>1. ASSUME NEW b \in 1 .. Linked, b # frontBlock PROVE r[b] \in 1 .. Linked - 1
        BY <1>1, <1>4, <3>1, RingLinked
      <3> QED BY <1>4, <1>7, <3>1
    <2>4. ASSUME NEW k \in 0 .. Linked - 1 PROVE r2[w2[k]] = k
      <3>1. CASE k = Linked - 1
        BY <1>4, <1>7, <3>1
      <3>2. CASE k # Linked - 1
        <4>1. k + 1 \in 0 .. Linked - 1 /\ w2[k] = w[k + 1]
          BY <1>4, <1>7, <3>2
        <4>2. w[k + 1] \in 1 .. Linked /\ r[w[k + 1]] = k + 1
          <5>1. \A j \in 0 .. Linked - 1 : r[w[j]] = j
            BY <1>1 DEF Ring
          <5> QED BY <2>1, <4>1, <5>1
        <4>3. r2[w[k + 1]] = IF w[k + 1] = frontBlock THEN Linked - 1 ELSE r[w[k + 1]] - 1
          BY <1>7, <4>2
        <4>4. w[k + 1] # frontBlock
          BY <1>4, <4>1, <4>2, <3>2
        <4> QED BY <4>1, <4>2, <4>3, <4>4
      <3> QED BY <3>1, <3>2
    <2>5. ASSUME NEW b \in 1 .. Linked
          PROVE  w2[r2[b]] = b /\ next[b] = w2[IF r2[b] = Linked - 1 THEN 0 ELSE r2[b] + 1]
      <3>1. /\ w[r[b]] = b /\ r[b] \in 0 .. Linked - 1
            /\ r[b] = 0 <=> b = frontBlock
            /\ next[b] = w[IF r[b] = Linked - 1 THEN 0 ELSE r[b] + 1]
        BY <1>1, <1>4, RingLinked DEF Ring
      <3>2. CASE b = frontBlock
        <4>1. r2[b] = Linked - 1 /\ w2[Linked - 1] = b
          BY <1>4, <1>7, <3>2
        <4>2. w2[0] = w[1] /\ next[b] = w[1]
          <5>1. 0 # Linked - 1 /\ 0 \in 0 .. Linked - 1 /\ 0 + 1 = 1
            BY <1>4, <1>8
          <5>2. w2[0] = w[1]
            BY <1>7, <5>1
          <5> QED BY <3>1, <3>2, <5>1, <5>2
        <4>3. r2[b] = Linked - 1
          BY <4>1
        <4> QED BY <4>1, <4>2, <4>3
      <3>3. CASE b # frontBlock
        <4>1. r2[b] = r[b] - 1 /\ r2[b] \in 0 .. Linked - 2
          BY <1>4, <1>7, <3>1, <3>3
        <4>2. w2[r2[b]] = b
          <5>1. r2[b] \in 0 .. Linked - 1 /\ r2[b] # Linked - 1 /\ r2[b] + 1 = r[b]
            BY <1>4, <3>1, <4>1
          <5>2. w2[r2[b]] = w[r2[b] + 1]
            BY <1>7, <5>1
          <5> QED BY <3>1, <5>1, <5>2
        <4>3. next[b] = w2[r2[b] + 1]
          <5>1. r2[b] + 1 = r[b] /\ r[b] \in 0 .. Linked - 1
            BY <3>1, <4>1
          <5>2. w2[r[b]] = IF r[b] = Linked - 1 THEN frontBlock ELSE w[r[b] + 1]
            BY <1>7, <5>1
          <5>3. w[0] = frontBlock
            BY <2>1
          <5> QED BY <3>1, <5>1, <5>2, <5>3
        <4> QED BY <1>4, <4>1, <4>2, <4>3
      <3> QED BY <3>2, <3>3
    <2>6. w2[0] = block
      <3>1. w2[0] = w[1]
        BY <1>4, <1>7, <1>8
      <3>2. w[1] = block
        BY <1>1, <1>4 DEF Ring
      <3> QED BY <3>1, <3>2
    <2> QED BY <1>2, <1>4, <1>5, <2>2, <2>3, <2>4, <2>5, <2>6 DEF Ring
  <1>10. Numbers(r2, base)'
    <2>1. base \in [Q!Blocks -> Nat] /\ base[tailBlock] + Count(tailBlock) = put
      BY <1>1 DEF Numbers
    <2>2. r2[tailBlock] = r[tailBlock] - 1
      BY <1>3, <1>4, <1>8
    <2>3. ASSUME NEW b \in 1 .. Linked
          PROVE  /\ r2[b] < r2[tailBlock] => base[next[b]] = base[b] + Count(b)
                 /\ r2[b] <= r2[tailBlock] => base[b] + Count(b) <= put
                 /\ 0 < r2[b] /\ r2[b] <= r2[tailBlock] => Count(b) > 0
                 /\ r2[b] > r2[tailBlock] =>
                      Count(b) = IF ppc = "advance" /\ b = newBlock THEN 1 ELSE 0
      <3>1. CASE b = frontBlock
        <4>1. ppc = "advance" => newBlock # frontBlock
          BY <1>1, NewBlock
        <4> QED BY <1>3, <1>4, <1>8, <2>2, <3>1, <4>1
      <3>2. CASE b # frontBlock
        BY <1>1, <1>4, <1>8, <2>2, <3>2, LinkedBlock
      <3> QED BY <3>1, <3>2
    <2> QED BY <1>2, <1>4, <1>5, <1>6, <2>1, <2>3 DEF Numbers
  <1>11. Contents(base)'
    BY <1>1, <1>2 DEF Contents, Content, Taken, Written, Offset, Count, Cyc
  <1>12. ProducerAt(r2, base)'
    <2>1. r2[tailBlock] = r[tailBlock] - 1
      BY <1>3, <1>4, <1>8
    <2>2. r[tailBlock] < Linked - 1 => r2[tailBlock] < Linked - 1
      BY <1>4, <2>1
    <2> QED BY <1>1, <1>2, <1>5, <1>6, <2>2 DEF ProducerAt
  <1>13. Shapes'
    BY <1>1, <1>2 DEF Shapes, ConsumerPlaces
  <1>14. BlocksOK'
    BY <1>1, <1>2, BlocksSame
  <1>15. ConsumerAt'
    BY <1>1, <1>2, <1>3, <1>6 DEF ConsumerAt
  <1>16. Body(w2, r2, base)'
    BY <1>9, <1>10, <1>11, <1>12, <1>13, <1>14, <1>15 DEF Body
  <1> QED BY <1>16

\* The consumer gives the slot back.
LEMMA ReleaseStep ==
  ASSUME NEW w, NEW r, NEW base, Body(w, r, base), Q!Release
  PROVE  \E base2 : Body(w, r, base2)'
  <1>1. /\ Shapes /\ BlocksOK /\ Ring(w, r) /\ Numbers(r, base) /\ Contents(base)
        /\ ProducerAt(r, base) /\ ConsumerAt
    BY DEF Body
  <1>2. /\ UNCHANGED <<tail, localFront, localTail, data, next, size, frontBlock, tailBlock,
                       largestBlockSize, blockCount, ppc, canAlloc, newBlock, op, block, item, put>>
        /\ cpc = "release" /\ cpc' = "idle" /\ call' = "idle"
        /\ front' = [front EXCEPT ![frontBlock] = (front[frontBlock] + 1) % size[frontBlock]]
        /\ got' = got + 1 /\ out' = item
    BY DEF Q!Release, Q!Succ, Q!producerVars, Q!ringVars
  <1>3. item = got + 1 /\ Seen(frontBlock) > 0
    BY <1>1, <1>2 DEF ConsumerAt
  <1>4. /\ Linked \in Nat /\ frontBlock \in 1 .. Linked /\ tailBlock \in 1 .. Linked
        /\ frontBlock \in Q!Blocks /\ tailBlock \in Q!Blocks /\ r[frontBlock] = 0
        /\ Count(frontBlock) \in Nat /\ Count(frontBlock) > 0 /\ got < put
        /\ got \in Nat /\ put \in Nat /\ put <= MaxElements /\ Linked' = Linked
    <2>1. /\ Linked \in Nat /\ frontBlock \in 1 .. Linked /\ tailBlock \in 1 .. Linked
          /\ frontBlock \in Q!Blocks /\ tailBlock \in Q!Blocks /\ r[frontBlock] = 0
      BY <1>1, RingLinked DEF Ring
    <2>2. Count(frontBlock) \in Nat /\ Count(frontBlock) > 0
      BY <1>1, <1>3, <2>1, Distances
    <2>3. got < put /\ got \in Nat /\ put \in Nat /\ put <= MaxElements
      BY <1>1, <2>2, FrontFacts, Constants DEF Shapes
    <2> QED BY <1>2, <2>1, <2>2, <2>3 DEF Linked
  <1>5. /\ front' \in [Q!Blocks -> Int]
        /\ \A b \in Q!Blocks : b # frontBlock => front'[b] = front[b]
        /\ front'[frontBlock] = IF front[frontBlock] + 1 = size[frontBlock] THEN 0
                                ELSE front[frontBlock] + 1
    <2>1. /\ front[frontBlock] \in 0 .. size[frontBlock] - 1 /\ size[frontBlock] \in Nat
      BY <1>1, <1>4, Constants DEF BlocksOK, BlockOK
    <2>2. PICK s \in Int : s = IF front[frontBlock] + 1 = size[frontBlock] THEN 0
                               ELSE front[frontBlock] + 1
      BY <2>1
    <2>3. front' = [front EXCEPT ![frontBlock] = s]
      BY <1>2, <2>1, <2>2, SuccSlot
    <2> QED BY <1>1, <1>4, <2>2, <2>3 DEF Shapes
  <1>6. /\ Count(frontBlock)' = Count(frontBlock) - 1
        /\ Freed(frontBlock)' = Freed(frontBlock) + 1
        /\ Seen(frontBlock)' = Seen(frontBlock) - 1
    <2>1. /\ front[frontBlock] \in Int /\ tail[frontBlock] \in Int /\ size[frontBlock] \in Int
          /\ localFront[frontBlock] \in Int /\ localTail[frontBlock] \in Int
          /\ front[frontBlock] \in 0 .. size[frontBlock] - 1
          /\ tail[frontBlock] \in 0 .. size[frontBlock] - 1
          /\ localFront[frontBlock] \in 0 .. size[frontBlock] - 1
          /\ localTail[frontBlock] \in 0 .. size[frontBlock] - 1
          /\ Freed(frontBlock) + Count(frontBlock) < size[frontBlock]
      BY <1>1, <1>4 DEF BlocksOK, BlockOK, Shapes
    <2>2. Count(frontBlock)' = Count(frontBlock) - 1
      BY <1>2, <1>4, <1>5, <2>1 DEF Count, Cyc
    <2>3. Freed(frontBlock)' = Freed(frontBlock) + 1
      <3>1. Freed(frontBlock) \in Int /\ Freed(frontBlock) + 1 < size[frontBlock]
        BY <1>1, <1>4, <2>1, Distances
      <3> QED BY <1>2, <1>5, <2>1, <3>1 DEF Freed, Cyc
    <2>4. Seen(frontBlock)' = Seen(frontBlock) - 1
      BY <1>2, <1>3, <1>5, <2>1 DEF Seen, Cyc
    <2> QED BY <2>2, <2>3, <2>4
  <1>7. \A b \in Q!Blocks : b # frontBlock =>
          Count(b)' = Count(b) /\ Freed(b)' = Freed(b) /\ Seen(b)' = Seen(b)
    BY <1>2, <1>5 DEF Count, Freed, Seen, Cyc
  <1>8. PICK base2 : base2 = [base EXCEPT ![frontBlock] = got + 1]
    OBVIOUS
  <1>9. /\ base2 \in [Q!Blocks -> Nat] /\ base[frontBlock] = got
        /\ \A b \in Q!Blocks : base2[b] = IF b = frontBlock THEN got + 1 ELSE base[b]
    BY <1>1, <1>4, <1>8 DEF Numbers
  <1>10. Shapes'
    <2>1. out' \in 0 .. put' /\ got' \in Nat
      BY <1>2, <1>3, <1>4
    <2> QED BY <1>1, <1>2, <1>5, <2>1 DEF Shapes, ConsumerPlaces
  <1>11. BlocksOK'
    <2>1. ASSUME NEW b \in Q!Blocks PROVE BlockOK(b)'
      <3>1. BlockOK(b)
        BY <1>1 DEF BlocksOK
      <3>2. CASE b = frontBlock
        <4>1. /\ front'[b] \in 0 .. size[b] - 1 /\ b <= blockCount
          <5>1. size[b] \in Nat /\ front[b] \in 0 .. size[b] - 1
            BY <3>1, Constants DEF BlockOK
          <5>2. front'[b] \in 0 .. size[b] - 1
            BY <1>5, <3>2, <5>1
          <5>3. /\ b \in Int /\ Linked \in Int /\ blockCount \in Int
                /\ b <= Linked /\ Linked <= blockCount
            BY <1>1, <1>4, <3>2, Constants DEF Linked, Shapes, Q!Blocks
          <5> QED BY <5>2, <5>3
        <4>2. Count(b) \in Nat /\ Freed(b) \in Nat /\ Seen(b) \in Nat
          BY <1>1, Distances
        <4>3. Count(b)' = Count(b) - 1 /\ Freed(b)' = Freed(b) + 1 /\ Seen(b)' = Seen(b) - 1
          BY <1>2, <1>6, <3>2
        <4>4. blockCount \in Int /\ b \in Int
          BY <1>1, Constants DEF Shapes, Q!Blocks
        <4>5. Freed(b)' + Count(b)' < size[b] /\ Seen(b)' <= Count(b)'
          BY <3>1, <4>2, <4>3, Constants DEF BlockOK
        <4> QED BY <1>2, <3>1, <4>1, <4>4, <4>5 DEF BlockOK
      <3>3. CASE b # frontBlock
        BY <1>2, <1>5, <1>7, <3>1, <3>3 DEF BlockOK
      <3> QED BY <3>2, <3>3
    <2> QED BY <2>1 DEF BlocksOK
  <1>12. Ring(w, r)'
    BY <1>1, <1>2, <1>4 DEF Ring
  <1>13. Numbers(r, base2)'
    <2>1. base2[tailBlock] + Count(tailBlock)' = put
      <3>1. base[tailBlock] + Count(tailBlock) = put
        BY <1>1 DEF Numbers
      <3>2. Count(tailBlock) \in Nat /\ base[tailBlock] \in Nat
        BY <1>1, <1>4, LinkedBlock
      <3>3. CASE tailBlock = frontBlock
        BY <1>2, <1>4, <1>6, <1>9, <3>1, <3>2, <3>3
      <3>4. CASE tailBlock # frontBlock
        BY <1>2, <1>4, <1>7, <1>9, <3>1, <3>4
      <3> QED BY <3>3, <3>4
    <2>2. ASSUME NEW b \in 1 .. Linked
          PROVE  /\ r[b] < r[tailBlock] => base2[next[b]] = base2[b] + Count(b)'
                 /\ r[b] <= r[tailBlock] => base2[b] + Count(b)' <= put
                 /\ 0 < r[b] /\ r[b] <= r[tailBlock] => Count(b)' > 0
                 /\ r[b] > r[tailBlock] =>
                      Count(b)' = IF ppc = "advance" /\ b = newBlock THEN 1 ELSE 0
      <3>1. r[b] < r[tailBlock] => next[b] # frontBlock /\ next[b] \in Q!Blocks
        BY <1>1, <1>4, LinkedBlock
      <3>2. CASE b = frontBlock
        <4>1. Count(b)' = Count(b) - 1 /\ base2[b] = base[b] + 1
          BY <1>2, <1>4, <1>6, <1>9, <3>2
        <4> QED BY <1>1, <1>4, <1>9, <3>1, <3>2, <4>1, LinkedBlock
      <3>3. CASE b # frontBlock
        <4>1. Count(b)' = Count(b) /\ base2[b] = base[b]
          BY <1>1, <1>7, <1>9, <3>3, LinkedBlock
        <4> QED BY <1>1, <1>4, <1>9, <3>1, <3>3, <4>1, LinkedBlock
      <3> QED BY <3>2, <3>3
    <2> QED BY <1>2, <1>4, <1>9, <2>1, <2>2 DEF Numbers
  <1>14. Contents(base2)'
    <2> SUFFICES ASSUME NEW b \in Q!Blocks, NEW i \in Q!Slots
                 PROVE  data[b][i] = Content(base2, b, i)'
      BY <1>2 DEF Contents
    <2>1. data[b][i] = Content(base, b, i)
      BY <1>1 DEF Contents
    <2>2. CASE b # frontBlock
      BY <1>2, <1>5, <1>7, <1>9, <2>1, <2>2 DEF Content, Taken, Written, Offset
    <2>3. CASE b = frontBlock
      <3>1. i \in Nat /\ BlockOK(b)
        BY <1>1, Constants DEF BlocksOK, Q!Slots
      <3>2. CASE i = front[b]
        <4>1. ~Written(b, i)'
          BY <1>2, <1>4, <2>3, <3>1, <3>2, Constants DEF Written, BlockOK, Count, Cyc
        <4>2. ~(Offset(b, i)' < Count(b)')
          <5>1. /\ size[b] \in Nat /\ front[b] \in 0 .. size[b] - 1 /\ Count(b) \in 0 .. size[b] - 1
            BY <1>1, <3>1, Distances DEF BlockOK
          <5>2. Offset(b, i)' = size[b] - 1
            BY <1>2, <1>5, <2>3, <3>2, <5>1 DEF Offset, Cyc
          <5>3. Count(b)' = Count(b) - 1
            BY <1>2, <1>6, <2>3
          <5> QED BY <5>1, <5>2, <5>3
        <4> QED BY <1>2, <2>1, <2>3, <3>2, <4>1, <4>2 DEF Content, Taken
      <3>3. CASE i # front[b]
        <4>1. i < size[b] => Offset(b, i)' = Offset(b, i) - 1 /\ Offset(b, i) \in Nat
          BY <1>2, <1>4, <1>5, <2>3, <3>1, <3>3, Constants DEF BlockOK, Offset, Cyc
        <4> QED BY <1>2, <1>4, <1>6, <1>9, <2>1, <2>3, <3>3, <4>1
                   DEF Content, Taken, Written
      <3> QED BY <3>2, <3>3
    <2> QED BY <2>2, <2>3
  <1>15. ProducerAt(r, base2)'
    <2>1. ppc \in {"writeNext", "publishNext", "link", "advance"} =>
            newBlock # frontBlock /\ newBlock \in Q!Blocks
      BY <1>1, NewBlock
    <2>2. Freed(tailBlock)' + Count(tailBlock)' = Freed(tailBlock) + Count(tailBlock)
      <3>1. Count(tailBlock) \in Nat /\ Freed(tailBlock) \in Nat
        BY <1>1, <1>4, Distances
      <3>2. CASE tailBlock = frontBlock
        BY <1>2, <1>6, <3>1, <3>2
      <3>3. CASE tailBlock # frontBlock
        BY <1>2, <1>4, <1>7, <3>1, <3>3
      <3> QED BY <3>2, <3>3
    <2> QED BY <1>1, <1>2, <1>4, <1>5, <1>7, <1>9, <2>1, <2>2 DEF ProducerAt
  <1>16. ConsumerAt'
    BY <1>2 DEF ConsumerAt
  <1>17. Body(w, r, base2)'
    BY <1>10, <1>11, <1>12, <1>13, <1>14, <1>15, <1>16 DEF Body
  <1> QED BY <1>17

-----------------------------------------------------------------------------
(* The producer's steps.                                                   *)

\* The producer moves on, and what both rely on stays.
LEMMA ProducerMoves ==
  ASSUME NEW w, NEW r, NEW base, Ring(w, r), Numbers(r, base), Contents(base), ConsumerAt,
         UNCHANGED <<front, tail, localTail, data, Q!ringVars, cpc, op, block, item, call,
                     put, got>>,
         ppc \notin {"publish", "publishNext", "link", "advance"},
         ppc' \notin {"publish", "publishNext", "link", "advance"}
  PROVE  Ring(w, r)' /\ Numbers(r, base)' /\ Contents(base)' /\ ConsumerAt'
  <1>1. Linked' = Linked BY DEF Linked, Q!ringVars
  <1>2. \A b : Count(b)' = Count(b)
    BY DEF Count, Cyc, Q!ringVars
  <1>3. Ring(w, r)'
    BY <1>1 DEF Ring, Q!ringVars
  <1>4. Numbers(r, base)'
    BY <1>1, <1>2 DEF Numbers, Q!ringVars
  <1>5. Contents(base)'
    BY <1>2 DEF Contents, Content, Taken, Written, Offset, Cyc, Q!ringVars
  <1>6. ConsumerAt'
    BY ProducerFrame
  <1> QED BY <1>3, <1>4, <1>5, <1>6

\* The front of block c, as the producer reads it.
LEMMA LoadFrontBlocks ==
  ASSUME Shapes, BlocksOK, NEW c \in Q!Blocks, localFront' = [localFront EXCEPT ![c] = front[c]],
         UNCHANGED <<front, tail, localTail, size, blockCount>>
  PROVE  /\ localFront' \in [Q!Blocks -> Int] /\ BlocksOK' /\ localFront'[c] = front[c]
         /\ Freed(c)' = 0 /\ Count(c)' = Count(c)
  <1>1. localFront' \in [Q!Blocks -> Int] /\ localFront'[c] = front[c]
    BY DEF Shapes
  <1>2. Freed(c)' = 0 /\ Count(c)' = Count(c)
    BY <1>1 DEF Shapes, Freed, Count, Cyc
  <1>3. ASSUME NEW b \in Q!Blocks PROVE BlockOK(b)'
    <2>1. BlockOK(b)
      BY DEF BlocksOK
    <2>2. localFront'[b] = IF b = c THEN front[b] ELSE localFront[b]
      BY DEF Shapes
    <2>3. Count(b)' = Count(b) /\ Seen(b)' = Seen(b) /\ Count(b) \in 0 .. size[b] - 1
      BY Distances DEF Count, Seen, Cyc
    <2>4. CASE b = c
      BY <1>2, <2>1, <2>2, <2>3, <2>4, Constants DEF BlockOK
    <2>5. CASE b # c
      BY <2>1, <2>2, <2>3, <2>5 DEF BlockOK, Freed
    <2> QED BY <2>4, <2>5
  <1> QED BY <1>1, <1>2, <1>3 DEF BlocksOK

\* The test for room is the one the counts make.
LEMMA Room ==
  ASSUME Shapes, BlocksOK, NEW b \in Q!Blocks
  PROVE  /\ Q!Succ(b, tail[b]) # localFront[b] => Freed(b) + Count(b) + 1 < size[b]
         /\ Q!Succ(b, tail[b]) # front[b] => Count(b) + 1 < size[b]
  <1>1. /\ size[b] \in Nat /\ front[b] \in 0 .. size[b] - 1 /\ tail[b] \in 0 .. size[b] - 1
        /\ localFront[b] \in 0 .. size[b] - 1 /\ Freed(b) + Count(b) < size[b]
    BY Constants DEF BlocksOK, BlockOK
  <1>2. Q!Succ(b, tail[b]) = IF tail[b] + 1 = size[b] THEN 0 ELSE tail[b] + 1
    BY <1>1, SuccSlot DEF Q!Succ
  <1>3. Q!Succ(b, tail[b]) # localFront[b] => Freed(b) + Count(b) + 1 < size[b]
    BY <1>1, <1>2 DEF Freed, Count, Cyc
  <1>4. Q!Succ(b, tail[b]) # front[b] => Count(b) + 1 < size[b]
    BY <1>1, <1>2 DEF Count, Cyc
  <1> QED BY <1>3, <1>4

\* A call of the producer begins (enqueue, try_enqueue).
LEMMA EnqueueCallStep ==
  ASSUME NEW w, NEW r, NEW base, Body(w, r, base), NEW alloc \in BOOLEAN, Q!EnqueueCall(alloc)
  PROVE  Body(w, r, base)'
  <1>1. /\ Shapes /\ BlocksOK /\ Ring(w, r) /\ Numbers(r, base) /\ Contents(base)
        /\ ProducerAt(r, base) /\ ConsumerAt
    BY DEF Body
  <1>2. /\ UNCHANGED <<front, tail, localFront, localTail, data, Q!ringVars, newBlock,
                       cpc, op, block, item, put, got, out, call>>
        /\ ppc = "idle" /\ put < MaxElements /\ canAlloc' = alloc
        /\ \/ ppc' = "loadFront"
           \/ ppc' = "write" /\ Q!Succ(tailBlock, tail[tailBlock]) # localFront[tailBlock]
    BY DEF Q!EnqueueCall, Q!HasRoom, Q!blockVars, Q!consumerVars, Q!historyVars
  <1>3. tailBlock \in Q!Blocks
    BY <1>1, RingLinked DEF Ring
  <1>4. Shapes'
    BY <1>1, <1>2 DEF Shapes, ProducerPlaces, Q!ringVars
  <1>5. BlocksOK'
    BY <1>1, <1>2, BlocksSame DEF Q!ringVars
  <1>6. Ring(w, r)' /\ Numbers(r, base)' /\ Contents(base)' /\ ConsumerAt'
    BY <1>1, <1>2, ProducerMoves
  <1>7. ProducerAt(r, base)'
    <2>1. Freed(tailBlock)' = Freed(tailBlock) /\ Count(tailBlock)' = Count(tailBlock)
      BY <1>2 DEF Freed, Count, Q!ringVars
    <2>2. ppc' = "write" => Freed(tailBlock) + Count(tailBlock) + 1 < size[tailBlock]
      BY <1>1, <1>2, <1>3, Room
    <2> QED BY <1>2, <2>1, <2>2 DEF ProducerAt, Q!ringVars
  <1> QED BY <1>4, <1>5, <1>6, <1>7 DEF Body

\* The producer reads the front of the tail block again.
LEMMA LoadFrontStep ==
  ASSUME NEW w, NEW r, NEW base, Body(w, r, base), Q!LoadFront
  PROVE  Body(w, r, base)'
  <1>1. /\ Shapes /\ BlocksOK /\ Ring(w, r) /\ Numbers(r, base) /\ Contents(base)
        /\ ProducerAt(r, base) /\ ConsumerAt
    BY DEF Body
  <1>2. /\ UNCHANGED <<front, tail, localTail, data, Q!ringVars, canAlloc, newBlock,
                       cpc, op, block, item, put, got, out, call>>
        /\ ppc = "loadFront"
        /\ localFront' = [localFront EXCEPT ![tailBlock] = front[tailBlock]]
        /\ \/ ppc' = "testNext"
           \/ ppc' = "write" /\ Q!Succ(tailBlock, tail[tailBlock]) # front[tailBlock]
    BY DEF Q!LoadFront, Q!HasRoom, Q!consumerVars, Q!historyVars
  <1>3. tailBlock \in Q!Blocks
    BY <1>1, RingLinked DEF Ring
  <1>4. /\ localFront' \in [Q!Blocks -> Int] /\ BlocksOK'
        /\ Freed(tailBlock)' = 0 /\ Count(tailBlock)' = Count(tailBlock)
    BY <1>1, <1>2, <1>3, LoadFrontBlocks DEF Q!ringVars
  <1>5. Shapes'
    BY <1>1, <1>2, <1>4 DEF Shapes, ProducerPlaces, Q!ringVars
  <1>6. Ring(w, r)' /\ Numbers(r, base)' /\ Contents(base)' /\ ConsumerAt'
    BY <1>1, <1>2, ProducerMoves
  <1>7. ProducerAt(r, base)'
    <2>1. ppc' = "write" => Freed(tailBlock)' + Count(tailBlock)' + 1 < size[tailBlock]
      <3>1. ppc' = "write" => Count(tailBlock) + 1 < size[tailBlock]
        BY <1>1, <1>2, <1>3, Room
      <3>2. Count(tailBlock) \in Nat
        BY <1>1, <1>3, Distances
      <3> QED BY <1>4, <3>1, <3>2
    <2>2. put < MaxElements
      BY <1>1, <1>2 DEF ProducerAt
    <2> QED BY <1>2, <2>1, <2>2 DEF ProducerAt, Q!ringVars
  <1> QED BY <1>4, <1>5, <1>6, <1>7 DEF Body

\* The tail block is full: is there a next one, and if not, memory for one?
LEMMA TestNextStep ==
  ASSUME NEW w, NEW r, NEW base, Body(w, r, base), Q!TestNext \/ Q!AllocateFails
  PROVE  Body(w, r, base)'
  <1>1. /\ Shapes /\ BlocksOK /\ Ring(w, r) /\ Numbers(r, base) /\ Contents(base)
        /\ ProducerAt(r, base) /\ ConsumerAt
    BY DEF Body
  <1>2. /\ UNCHANGED <<front, tail, localFront, localTail, data, Q!ringVars, canAlloc, newBlock,
                       cpc, op, block, item, put, got, out, call>>
        /\ ppc \in {"testNext", "allocate"} /\ ppc' \in {"idle", "allocate", "useNext"}
        /\ ppc' = "useNext" => next[tailBlock] # frontBlock
    BY DEF Q!TestNext, Q!AllocateFails, Q!blockVars, Q!consumerVars, Q!historyVars
  <1>3. Shapes'
    BY <1>1, <1>2 DEF Shapes, ProducerPlaces, Q!ringVars
  <1>4. BlocksOK'
    BY <1>1, <1>2, BlocksSame DEF Q!ringVars
  <1>5. Ring(w, r)' /\ Numbers(r, base)' /\ Contents(base)' /\ ConsumerAt'
    BY <1>1, <1>2, ProducerMoves
  <1>6. ProducerAt(r, base)'
    <2>1. ppc' = "useNext" => r[tailBlock] < Linked - 1
      <3>1. tailBlock \in 1 .. Linked /\ next[tailBlock] \in 1 .. Linked
        BY <1>1, RingLinked DEF Ring
      <3> QED BY <1>1, <1>2, <3>1, LinkedBlock
    <2>2. put < MaxElements /\ Linked' = Linked
      BY <1>1, <1>2 DEF ProducerAt, Linked, Q!ringVars
    <2> QED BY <1>2, <2>1, <2>2 DEF ProducerAt, Q!ringVars
  <1> QED BY <1>3, <1>4, <1>5, <1>6 DEF Body

\* The next block is the producer's: nobody is in it.
LEMMA UseNextStep ==
  ASSUME NEW w, NEW r, NEW base, Body(w, r, base), Q!UseNext
  PROVE  Body(w, r, base)'
  <1>1. /\ Shapes /\ BlocksOK /\ Ring(w, r) /\ Numbers(r, base) /\ Contents(base)
        /\ ProducerAt(r, base) /\ ConsumerAt
    BY DEF Body
  <1>2. /\ UNCHANGED <<front, tail, localTail, data, Q!ringVars, canAlloc,
                       cpc, op, block, item, put, got, out, call>>
        /\ ppc = "useNext" /\ ppc' = "writeNext" /\ newBlock' = next[tailBlock]
        /\ localFront' = [localFront EXCEPT ![next[tailBlock]] = front[next[tailBlock]]]
    BY DEF Q!UseNext, Q!consumerVars, Q!historyVars
  <1>3. next[tailBlock] \in 1 .. blockCount /\ next[tailBlock] \in Q!Blocks
    BY <1>1, <1>2, RingLinked DEF Ring, Linked
  <1>4. /\ localFront' \in [Q!Blocks -> Int] /\ BlocksOK'
        /\ localFront'[next[tailBlock]] = front[next[tailBlock]]
    BY <1>1, <1>2, <1>3, LoadFrontBlocks DEF Q!ringVars
  <1>5. Shapes'
    BY <1>1, <1>2, <1>3, <1>4 DEF Shapes, ProducerPlaces, Q!ringVars
  <1>6. Ring(w, r)' /\ Numbers(r, base)' /\ Contents(base)' /\ ConsumerAt'
    BY <1>1, <1>2, ProducerMoves
  <1>7. ProducerAt(r, base)'
    <2>1. put < MaxElements /\ Linked' = Linked /\ r[tailBlock] < Linked - 1
      BY <1>1, <1>2 DEF ProducerAt, Linked, Q!ringVars
    <2> QED BY <1>2, <1>4, <2>1 DEF ProducerAt, Q!ringVars
  <1> QED BY <1>4, <1>5, <1>6, <1>7 DEF Body

\* The next element goes into the slot behind the others of block c.
LEMMA WriteSlot ==
  ASSUME NEW base, Shapes, BlocksOK, Contents(base), ConsumerAt, NEW c \in Q!Blocks,
         data' = [data EXCEPT ![c][tail[c]] = put + 1],
         UNCHANGED <<front, tail, size, put, cpc, frontBlock>>,
         frontBlock \in Q!Blocks,
         \A b, i : ~Written(b, i),
         \A b, i : Written(b, i)' <=> b = c /\ i = tail[c]
  PROVE  Contents(base)' /\ data' \in [Q!Blocks -> [Q!Slots -> Int]]
  <1>1. /\ tail[c] \in Q!Slots /\ size[c] \in Nat /\ tail[c] \in 0 .. size[c] - 1
        /\ front[c] \in 0 .. size[c] - 1 /\ put + 1 \in Int
    <2>1. /\ size[c] \in FirstSize .. MaxSize /\ tail[c] \in 0 .. size[c] - 1
          /\ front[c] \in 0 .. size[c] - 1
      BY DEF BlocksOK, BlockOK
    <2>2. put \in Int
      BY DEF Shapes
    <2> QED BY <2>1, <2>2, Constants DEF Q!Slots
  <1>2. data' \in [Q!Blocks -> [Q!Slots -> Int]]
    BY <1>1 DEF Shapes
  <1> SUFFICES ASSUME NEW b \in Q!Blocks, NEW i \in Q!Slots
               PROVE  data'[b][i] = Content(base, b, i)'
    BY <1>2 DEF Contents
  <1>3. data[b][i] = Content(base, b, i)
    BY DEF Contents
  <1>4. data'[b][i] = IF b = c /\ i = tail[c] THEN put + 1 ELSE data[b][i]
    BY <1>1 DEF Shapes
  <1>5. /\ Taken(b, i)' <=> Taken(b, i)
        /\ Offset(b, i)' = Offset(b, i) /\ Count(b)' = Count(b)
    BY DEF Taken, Offset, Count
  <1>6. CASE b = c /\ i = tail[c]
    <2>1. Offset(b, i) = Count(b) /\ Count(b) \in Int
      BY <1>6, Distances DEF Offset, Count
    <2>2. ~Taken(b, i)
      <3>1. cpc = "release" => Seen(frontBlock) > 0
        BY DEF ConsumerAt
      <3>2. Taken(b, i) => Count(frontBlock) > 0 /\ front[frontBlock] = tail[frontBlock]
        BY <1>6, <3>1, Distances DEF Taken
      <3>3. front[frontBlock] = tail[frontBlock] /\ frontBlock \in Q!Blocks => Count(frontBlock) = 0
        BY Distances
      <3> QED BY <3>2, <3>3 DEF Taken
    <2> QED BY <1>4, <1>5, <1>6, <2>1, <2>2 DEF Content
  <1>7. CASE ~(b = c /\ i = tail[c])
    BY <1>3, <1>4, <1>5, <1>7 DEF Content
  <1> QED BY <1>6, <1>7

\* The producer constructs the element, in the tail block or the next one.
LEMMA WriteStep ==
  ASSUME NEW w, NEW r, NEW base, Body(w, r, base), Q!Write \/ Q!WriteNext
  PROVE  Body(w, r, base)'
  <1>1. /\ Shapes /\ BlocksOK /\ Ring(w, r) /\ Numbers(r, base) /\ Contents(base)
        /\ ProducerAt(r, base) /\ ConsumerAt
    BY DEF Body
  <1>2. /\ UNCHANGED <<front, tail, localFront, localTail, Q!ringVars, canAlloc, newBlock,
                       cpc, op, block, item, put, got, out, call>>
        /\ \/ /\ ppc = "write" /\ ppc' = "publish"
              /\ data' = [data EXCEPT ![tailBlock][tail[tailBlock]] = put + 1]
           \/ /\ ppc = "writeNext" /\ ppc' = "publishNext"
              /\ data' = [data EXCEPT ![newBlock][tail[newBlock]] = put + 1]
    BY DEF Q!Write, Q!WriteNext, Q!consumerVars, Q!historyVars
  <1>3. /\ tailBlock \in Q!Blocks /\ frontBlock \in Q!Blocks
    BY <1>1, RingLinked DEF Ring
  <1>4. Contents(base)' /\ data' \in [Q!Blocks -> [Q!Slots -> Int]]
    <2>1. CASE ppc = "write"
      <3>1. \A b, i : Written(b, i)' <=> b = tailBlock /\ i = tail[tailBlock]
        BY <1>2, <2>1 DEF Written, Q!ringVars
      <3>2. \A b, i : ~Written(b, i)
        BY <2>1 DEF Written
      <3>3. data' = [data EXCEPT ![tailBlock][tail[tailBlock]] = put + 1]
        BY <1>2, <2>1
      <3> QED BY <1>1, <1>2, <1>3, <3>1, <3>2, <3>3, WriteSlot DEF Q!ringVars
    <2>2. CASE ppc = "writeNext"
      <3>1. \A b, i : Written(b, i)' <=> b = newBlock /\ i = tail[newBlock]
        BY <1>2, <2>2 DEF Written, Q!ringVars
      <3>2. \A b, i : ~Written(b, i)
        BY <2>2 DEF Written
      <3>3. data' = [data EXCEPT ![newBlock][tail[newBlock]] = put + 1]
        BY <1>2, <2>2
      <3>4. newBlock \in Q!Blocks /\ newBlock # frontBlock
        BY <1>1, <2>2, NewBlock
      <3> QED BY <1>1, <1>2, <1>3, <3>1, <3>2, <3>3, <3>4, WriteSlot DEF Q!ringVars
    <2> QED BY <1>2, <2>1, <2>2
  <1>5. Shapes'
    BY <1>1, <1>2, <1>4 DEF Shapes, ProducerPlaces, Q!ringVars
  <1>6. BlocksOK'
    BY <1>1, <1>2, BlocksSame DEF Q!ringVars
  <1>7. Linked' = Linked
    BY <1>2 DEF Linked, Q!ringVars
  <1>8. \A b : Count(b)' = Count(b) /\ Freed(b)' = Freed(b)
    BY <1>2, CyclesSame DEF Q!ringVars
  <1>9. Ring(w, r)'
    BY <1>1, <1>2, <1>7 DEF Ring, Q!ringVars
  <1>10. Numbers(r, base)'
    BY <1>1, <1>2, <1>7, <1>8 DEF Numbers, Q!ringVars
  <1>11. ProducerAt(r, base)'
    BY <1>1, <1>2, <1>7, <1>8 DEF ProducerAt, Q!ringVars
  <1>12. ConsumerAt'
    BY <1>1, <1>2, ProducerFrame
  <1> QED BY <1>4, <1>5, <1>6, <1>9, <1>10, <1>11, <1>12 DEF Body

\* The tail of block c moves over the slot just written.
LEMMA PublishBlock ==
  ASSUME Shapes, BlocksOK, NEW c \in 1 .. blockCount,
         c \in Q!Blocks, Freed(c) + Count(c) + 1 < size[c],
         tail' = [tail EXCEPT ![c] = Q!Succ(c, tail[c])],
         UNCHANGED <<front, localFront, localTail, size, blockCount>>
  PROVE  /\ tail' \in [Q!Blocks -> Int] /\ BlocksOK'
         /\ Count(c)' = Count(c) + 1
         /\ \A b \in Q!Blocks : b # c => Count(b)' = Count(b)
         /\ \A b : Freed(b)' = Freed(b) /\ Seen(b)' = Seen(b)
  <1>1. /\ size[c] \in Nat /\ tail[c] \in 0 .. size[c] - 1 /\ front[c] \in 0 .. size[c] - 1
        /\ Count(c) \in 0 .. size[c] - 1 /\ Freed(c) \in 0 .. size[c] - 1
    BY Constants, Distances DEF BlocksOK, BlockOK
  <1>2. Q!Succ(c, tail[c]) = IF tail[c] + 1 = size[c] THEN 0 ELSE tail[c] + 1
    BY <1>1, SuccSlot DEF Q!Succ
  <1>3. /\ tail' \in [Q!Blocks -> Int]
        /\ tail'[c] = IF tail[c] + 1 = size[c] THEN 0 ELSE tail[c] + 1
        /\ tail'[c] \in 0 .. size[c] - 1
        /\ \A b \in Q!Blocks : b # c => tail'[b] = tail[b]
    <2>1. PICK s \in Int : s = Q!Succ(c, tail[c])
      BY <1>1, <1>2
    <2>2. tail' = [tail EXCEPT ![c] = s]
      BY <2>1
    <2>3. /\ tail' \in [Q!Blocks -> Int] /\ tail'[c] = s
          /\ \A b \in Q!Blocks : b # c => tail'[b] = tail[b]
      BY <2>2 DEF Shapes
    <2> QED BY <1>1, <1>2, <2>1, <2>3
  <1>4. Count(c)' = Count(c) + 1
    <2>1. Count(c) + 1 < size[c]
      BY <1>1
    <2> QED BY <1>1, <1>3, <2>1 DEF Count, Cyc
  <1>5. \A b \in Q!Blocks : b # c => Count(b)' = Count(b)
    BY <1>3 DEF Count
  <1>6. \A b : Freed(b)' = Freed(b) /\ Seen(b)' = Seen(b)
    BY DEF Freed, Seen
  <1>7. BlocksOK'
    <2>1. ASSUME NEW b \in Q!Blocks PROVE BlockOK(b)'
      <3>1. BlockOK(b)
        BY DEF BlocksOK
      <3>2. CASE b = c
        <4>1. Seen(b) \in 0 .. Count(b)
          BY Distances
        <4>2. Freed(b)' + Count(b)' < size[b] /\ Seen(b)' <= Count(b)'
          BY <1>1, <1>4, <1>6, <3>2, <4>1
        <4>3. ~(b > blockCount)
          BY <3>2, Constants DEF Shapes, Q!Blocks
        <4> QED BY <1>3, <3>1, <3>2, <4>2, <4>3 DEF BlockOK
      <3>3. CASE b # c
        BY <1>3, <1>5, <1>6, <3>1, <3>3 DEF BlockOK
      <3> QED BY <3>2, <3>3
    <2> QED BY <2>1 DEF BlocksOK
  <1> QED BY <1>3, <1>4, <1>5, <1>6, <1>7

\* And the element in the slot is one of the queue's.
LEMMA PublishSlot ==
  ASSUME NEW base, Shapes, BlocksOK, Contents(base), NEW c \in Q!Blocks,
         Count(c)' = Count(c) + 1, \A b \in Q!Blocks : b # c => Count(b)' = Count(b),
         UNCHANGED <<front, data, size, cpc, frontBlock>>,
         \A b, i : Written(b, i) <=> b = c /\ i = tail[c],
         \A b, i : ~Written(b, i)',
         NEW base2, \A b \in Q!Blocks : base2[b] = base[b] \/ (b = c /\ Count(c) = 0),
         base2[c] + Count(c) = put
  PROVE  Contents(base2)'
  <1>1. /\ size[c] \in Nat /\ tail[c] \in 0 .. size[c] - 1 /\ front[c] \in 0 .. size[c] - 1
        /\ Count(c) \in 0 .. size[c] - 1
    BY Constants, Distances DEF BlocksOK, BlockOK
  <1> SUFFICES ASSUME NEW b \in Q!Blocks, NEW i \in Q!Slots
               PROVE  data[b][i] = Content(base2, b, i)'
    BY DEF Contents
  <1>2. data[b][i] = Content(base, b, i)
    BY DEF Contents
  <1>3. /\ Taken(b, i)' <=> Taken(b, i)
        /\ Offset(b, i)' = Offset(b, i)
    BY DEF Taken, Offset
  <1>4. CASE b # c
    BY <1>2, <1>3, <1>4 DEF Content
  <1>5. CASE b = c /\ i = tail[c]
    <2>1. Offset(b, i) = Count(b)
      BY <1>5 DEF Offset, Count
    <2> QED BY <1>1, <1>2, <1>3, <1>5, <2>1 DEF Content
  <1>6. CASE b = c /\ i # tail[c]
    <2>1. i \in Nat /\ i < size[c] => Offset(b, i) \in Nat /\ Offset(b, i) # Count(c)
      BY <1>1, <1>6 DEF Offset, Count, Cyc
    <2>2. i \in Nat
      BY Constants DEF Q!Slots
    <2>3. i < size[b] => (Offset(b, i) < Count(b)' <=> Offset(b, i) < Count(b))
      BY <1>1, <1>6, <2>1, <2>2
    <2>4. ~Written(b, i)
      BY <1>6
    <2>5. Offset(b, i) < Count(b) /\ i < size[b] => base2[b] = base[b]
      BY <1>1, <1>6, <2>1, <2>2
    <2> QED BY <1>1, <1>2, <1>3, <2>3, <2>4, <2>5 DEF Content
  <1> QED BY <1>4, <1>5, <1>6

\* The element in the tail block becomes visible.
LEMMA PublishStep ==
  ASSUME NEW w, NEW r, NEW base, Body(w, r, base), Q!Publish
  PROVE  Body(w, r, base)'
  <1>1. /\ Shapes /\ BlocksOK /\ Ring(w, r) /\ Numbers(r, base) /\ Contents(base)
        /\ ProducerAt(r, base) /\ ConsumerAt
    BY DEF Body
  <1>2. /\ UNCHANGED <<front, localFront, localTail, data, Q!ringVars, canAlloc, newBlock,
                       cpc, op, block, item, got, out, call>>
        /\ ppc = "publish" /\ ppc' = "idle" /\ put' = put + 1
        /\ tail' = [tail EXCEPT ![tailBlock] = Q!Succ(tailBlock, tail[tailBlock])]
    BY DEF Q!Publish, Q!consumerVars
  <1>3. /\ tailBlock \in 1 .. Linked /\ Linked = blockCount /\ tailBlock \in Q!Blocks
        /\ frontBlock \in 1 .. Linked /\ block \in 1 .. Linked
        /\ frontBlock \in Q!Blocks /\ block \in Q!Blocks
    BY <1>1, <1>2, RingLinked DEF Ring, Linked
  <1>4. Freed(tailBlock) + Count(tailBlock) + 1 < size[tailBlock] /\ put < MaxElements
    BY <1>1, <1>2 DEF ProducerAt
  <1>5. base[tailBlock] + Count(tailBlock) = put
    BY <1>1 DEF Numbers
  <1>6. /\ \A b, i : Written(b, i) <=> b = tailBlock /\ i = tail[tailBlock]
        /\ \A b, i : ~Written(b, i)'
    BY <1>2 DEF Written
  <1>7. /\ tail' \in [Q!Blocks -> Int] /\ BlocksOK' /\ Contents(base)'
        /\ Count(tailBlock)' = Count(tailBlock) + 1
        /\ \A b \in Q!Blocks : b # tailBlock => Count(b)' = Count(b)
        /\ \A b : Freed(b)' = Freed(b) /\ Seen(b)' = Seen(b)
    <2>1. /\ tail' \in [Q!Blocks -> Int] /\ BlocksOK'
          /\ Count(tailBlock)' = Count(tailBlock) + 1
          /\ \A b \in Q!Blocks : b # tailBlock => Count(b)' = Count(b)
          /\ \A b : Freed(b)' = Freed(b) /\ Seen(b)' = Seen(b)
      BY <1>1, <1>2, <1>3, <1>4, PublishBlock DEF Q!ringVars
    <2>2. Contents(base)'
      BY <1>1, <1>2, <1>3, <1>5, <1>6, <2>1, PublishSlot DEF Q!ringVars
    <2> QED BY <2>1, <2>2
  <1>8. Shapes'
    <2>1. put' \in 0 .. MaxElements /\ out' \in 0 .. put'
      BY <1>1, <1>2, <1>4, Constants DEF Shapes
    <2> QED BY <1>1, <1>2, <1>7, <2>1 DEF Shapes, ProducerPlaces, Q!ringVars
  <1>9. Linked' = Linked
    BY <1>2 DEF Linked, Q!ringVars
  <1>10. Ring(w, r)'
    <2>1. UNCHANGED <<next, frontBlock, tailBlock, block>>
      BY <1>2 DEF Q!ringVars
    <2> QED BY <1>1, <1>9, <2>1 DEF Ring
  <1>11. Numbers(r, base)'
    <2>1. base[tailBlock] + Count(tailBlock)' = put'
      <3>1. put \in Nat /\ base[tailBlock] \in Nat /\ Count(tailBlock) \in Nat
        BY <1>1, <1>3, Distances DEF Numbers, Shapes
      <3>2. base[tailBlock] + Count(tailBlock) = put
        BY <1>1 DEF Numbers
      <3> QED BY <1>2, <1>7, <3>1, <3>2
    <2>2. ASSUME NEW b \in 1 .. Linked
          PROVE  /\ r[b] < r[tailBlock] => base[next[b]] = base[b] + Count(b)'
                 /\ r[b] <= r[tailBlock] => base[b] + Count(b)' <= put'
                 /\ 0 < r[b] /\ r[b] <= r[tailBlock] => Count(b)' > 0
                 /\ r[b] > r[tailBlock] => Count(b)' = 0
      <3>1. CASE b = tailBlock
        <4>1. Count(b)' = Count(b) + 1
          BY <1>2, <1>7, <3>1 DEF Q!ringVars
        <4> QED BY <1>1, <1>2, <1>5, <3>1, <4>1, LinkedBlock
      <3>2. CASE b # tailBlock
        BY <1>1, <1>2, <1>7, <3>2, LinkedBlock
      <3> QED BY <3>1, <3>2
    <2>3. base \in [Q!Blocks -> Nat] /\ base[frontBlock] = got
      BY <1>1 DEF Numbers
    <2> QED BY <1>2, <1>9, <2>1, <2>2, <2>3 DEF Numbers, Q!ringVars
  <1>12. ProducerAt(r, base)'
    BY <1>2 DEF ProducerAt
  <1>13. ConsumerAt'
    <2>1. call = "some" => got < put'
      BY <1>1, <1>2, Constants DEF ConsumerAt, Shapes
    <2>2. frontBlock # tailBlock => Count(frontBlock)' = Count(frontBlock)
      BY <1>2, <1>3, <1>7 DEF Q!ringVars
    <2>3. Count(block) > 0 => Count(block)' > 0
      <3>1. CASE block = tailBlock
        BY <1>1, <1>2, <1>3, <1>7, <3>1, LinkedBlock DEF Q!ringVars
      <3>2. CASE block # tailBlock
        BY <1>2, <1>3, <1>7, <3>2
      <3> QED BY <3>1, <3>2
    <2>4. Seen(block)' = Seen(block)
      BY <1>2, <1>7
    <2> QED BY <1>1, <1>2, <2>1, <2>2, <2>3, <2>4 DEF ConsumerAt, Q!ringVars
  <1> QED BY <1>7, <1>8, <1>10, <1>11, <1>12, <1>13 DEF Body

\* The element in the next block will be, when the block is the tail block.
LEMMA PublishNextStep ==
  ASSUME NEW w, NEW r, NEW base, Body(w, r, base), Q!PublishNext
  PROVE  \E base2 : Body(w, r, base2)'
  <1>1. /\ Shapes /\ BlocksOK /\ Ring(w, r) /\ Numbers(r, base) /\ Contents(base)
        /\ ProducerAt(r, base) /\ ConsumerAt
    BY DEF Body
  <1>2. /\ UNCHANGED <<front, localFront, localTail, data, Q!ringVars, canAlloc, newBlock,
                       cpc, op, block, item, put, got, out, call>>
        /\ ppc = "publishNext" /\ ppc' = "advance"
        /\ tail' = [tail EXCEPT ![newBlock] = Q!Succ(newBlock, tail[newBlock])]
    BY DEF Q!PublishNext, Q!consumerVars, Q!historyVars
  <1>3. /\ tailBlock \in 1 .. Linked /\ Linked = blockCount /\ tailBlock \in Q!Blocks
        /\ frontBlock \in 1 .. Linked /\ block \in 1 .. Linked
        /\ frontBlock \in Q!Blocks /\ block \in Q!Blocks
    BY <1>1, <1>2, RingLinked DEF Ring, Linked
  <1>4. /\ newBlock # frontBlock /\ newBlock # tailBlock /\ newBlock \in Q!Blocks
        /\ newBlock \in 1 .. Linked /\ r[newBlock] = r[tailBlock] + 1 /\ Count(newBlock) = 0
    BY <1>1, <1>2, NewBlock
  <1>5. PICK base2 : base2 = [base EXCEPT ![newBlock] = put]
    OBVIOUS
  <1>6. /\ base2 \in [Q!Blocks -> Nat]
        /\ \A b \in Q!Blocks : base2[b] = IF b = newBlock THEN put ELSE base[b]
        /\ base2[newBlock] + Count(newBlock) = put
    BY <1>1, <1>4, <1>5, Constants DEF Numbers, Shapes
  <1>7. Freed(newBlock) + Count(newBlock) + 1 < size[newBlock]
    <2>1. localFront[newBlock] = front[newBlock] /\ front[newBlock] \in Int
      BY <1>1, <1>2, <1>4 DEF ProducerAt, Shapes
    <2>2. Freed(newBlock) = 0
      BY <2>1 DEF Freed, Cyc
    <2> QED BY <1>1, <1>4, <2>2, Distances
  <1>8. /\ \A b, i : Written(b, i) <=> b = newBlock /\ i = tail[newBlock]
        /\ \A b, i : ~Written(b, i)'
    BY <1>2 DEF Written
  <1>9. /\ tail' \in [Q!Blocks -> Int] /\ BlocksOK' /\ Contents(base2)'
        /\ Count(newBlock)' = Count(newBlock) + 1
        /\ \A b \in Q!Blocks : b # newBlock => Count(b)' = Count(b)
        /\ \A b : Freed(b)' = Freed(b) /\ Seen(b)' = Seen(b)
    <2>1. \A b \in Q!Blocks : base2[b] = base[b] \/ (b = newBlock /\ Count(newBlock) = 0)
      BY <1>4, <1>6
    <2>2. newBlock \in 1 .. blockCount
      BY <1>1 DEF Shapes
    <2>3. UNCHANGED <<front, localFront, localTail, data, size, blockCount, cpc, frontBlock>>
      BY <1>2 DEF Q!ringVars
    <2>4. Shapes /\ BlocksOK /\ Contents(base) /\ ConsumerAt
      BY <1>1
    <2>5. /\ newBlock \in Q!Blocks /\ newBlock' = newBlock
          /\ tail' = [tail EXCEPT ![newBlock] = Q!Succ(newBlock, tail[newBlock])]
          /\ base2[newBlock] + Count(newBlock) = put
      BY <1>2, <1>4, <1>6
    <2>6. /\ tail' \in [Q!Blocks -> Int] /\ BlocksOK'
          /\ Count(newBlock)' = Count(newBlock) + 1
          /\ \A b \in Q!Blocks : b # newBlock => Count(b)' = Count(b)
          /\ \A b : Freed(b)' = Freed(b) /\ Seen(b)' = Seen(b)
      BY <1>7, <2>2, <2>3, <2>4, <2>5, PublishBlock
    <2>7. Contents(base2)'
      BY <1>8, <2>1, <2>3, <2>4, <2>5, <2>6, PublishSlot
    <2> QED BY <2>6, <2>7
  <1>10. Shapes'
    BY <1>1, <1>2, <1>9 DEF Shapes, ProducerPlaces, Q!ringVars
  <1>11. Linked' = Linked
    BY <1>2 DEF Linked, Q!ringVars
  <1>12. Ring(w, r)'
    BY <1>1, <1>2, <1>11 DEF Ring, Q!ringVars
  <1>13. Count(newBlock)' = 1
    BY <1>4, <1>9
  <1>14. Numbers(r, base2)'
    <2>1. base2[tailBlock] + Count(tailBlock)' = put /\ base2[frontBlock] = got
      BY <1>1, <1>2, <1>3, <1>4, <1>6, <1>9 DEF Numbers, Q!ringVars
    <2>2. ASSUME NEW b \in 1 .. Linked
          PROVE  /\ r[b] < r[tailBlock] => base2[next[b]] = base2[b] + Count(b)'
                 /\ r[b] <= r[tailBlock] => base2[b] + Count(b)' <= put
                 /\ 0 < r[b] /\ r[b] <= r[tailBlock] => Count(b)' > 0
                 /\ r[b] > r[tailBlock] => Count(b)' = IF b = newBlock THEN 1 ELSE 0
      <3>1. r[b] < r[tailBlock] => next[b] # newBlock
        BY <1>1, <1>4, LinkedBlock
      <3>2. CASE b = newBlock
        BY <1>1, <1>2, <1>3, <1>4, <1>13, <3>2, LinkedBlock
      <3>3. CASE b # newBlock
        BY <1>1, <1>2, <1>6, <1>9, <3>1, <3>3, LinkedBlock
      <3> QED BY <3>2, <3>3
    <2> QED BY <1>2, <1>6, <1>11, <2>1, <2>2 DEF Numbers, Q!ringVars
  <1>15. ProducerAt(r, base2)'
    BY <1>1, <1>2, <1>4, <1>6, <1>11, <1>13 DEF ProducerAt, Q!ringVars
  <1>16. ConsumerAt'
    <2>1. Count(frontBlock)' = Count(frontBlock)
      BY <1>2, <1>3, <1>4, <1>9 DEF Q!ringVars
    <2>2. Count(block) > 0 => Count(block)' > 0
      BY <1>2, <1>3, <1>4, <1>9
    <2>3. Seen(block)' = Seen(block)
      BY <1>2, <1>9
    <2> QED BY <1>1, <1>2, <2>1, <2>2, <2>3 DEF ConsumerAt, Q!ringVars
  <1>17. Body(w, r, base2)'
    BY <1>9, <1>10, <1>12, <1>14, <1>15, <1>16 DEF Body
  <1> QED BY <1>17

\* A new block with the element in it, which nothing leads to yet.
LEMMA AllocateStep ==
  ASSUME NEW w, NEW r, NEW base, Body(w, r, base), Q!Allocate
  PROVE  \E base2 : Body(w, r, base2)'
  <1>1. /\ Shapes /\ BlocksOK /\ Ring(w, r) /\ Numbers(r, base) /\ Contents(base)
        /\ ProducerAt(r, base) /\ ConsumerAt
    BY DEF Body
  <1>0. PICK nb \in Int : nb = blockCount + 1
    BY <1>1, Constants DEF Shapes, Q!Blocks
  <1>2. /\ UNCHANGED <<front, localFront, frontBlock, tailBlock, canAlloc,
                       cpc, op, block, item, put, got, out, call>>
        /\ ppc = "allocate" /\ ppc' = "link" /\ blockCount < MaxBlocks
        /\ largestBlockSize' = IF largestBlockSize >= MaxSize THEN largestBlockSize
                                                              ELSE 2 * largestBlockSize
        /\ blockCount' = nb /\ newBlock' = nb
        /\ size' = [size EXCEPT ![nb] = largestBlockSize']
        /\ data' = [data EXCEPT ![nb][0] = put + 1]
        /\ tail' = [tail EXCEPT ![nb] = 1]
        /\ localTail' = [localTail EXCEPT ![nb] = 1]
        /\ next' = [next EXCEPT ![nb] = next[tailBlock]]
    BY <1>0 DEF Q!Allocate, Q!consumerVars, Q!historyVars
  <1>3. /\ blockCount \in Nat /\ nb \in Q!Blocks /\ nb \in Int /\ Linked = blockCount
        /\ Linked' = Linked /\ \A b \in 1 .. Linked : b # nb
        /\ \A b \in Q!Blocks : b \in Int
    BY <1>1, <1>2, <1>0, Constants DEF Shapes, Q!Blocks, Linked
  <1>4. /\ frontBlock \in 1 .. Linked /\ tailBlock \in 1 .. Linked /\ block \in 1 .. Linked
        /\ 1 .. Linked \subseteq Q!Blocks /\ next[tailBlock] \in 1 .. Linked
    BY <1>1, RingLinked DEF Ring
  <1>5. largestBlockSize' \in Doublings /\ largestBlockSize' \in FirstSize .. MaxSize
        /\ largestBlockSize' \in Nat /\ 1 < largestBlockSize'
    <2>1. largestBlockSize \in Doublings
      BY <1>1 DEF Shapes
    <2>2. largestBlockSize \in FirstSize .. MaxSize
      BY <2>1, Constants
    <2>3. largestBlockSize' \in Doublings
      BY <1>2, <2>1, <2>2, Constants
    <2> QED BY <2>3, Constants
  <1>6. /\ size' \in [Q!Blocks -> Int] /\ tail' \in [Q!Blocks -> Int]
        /\ localTail' \in [Q!Blocks -> Int] /\ next' \in [Q!Blocks -> Q!Blocks]
        /\ size'[nb] = largestBlockSize' /\ tail'[nb] = 1 /\ localTail'[nb] = 1
        /\ next'[nb] = next[tailBlock]
        /\ \A b \in Q!Blocks : b # nb =>
             /\ size'[b] = size[b] /\ tail'[b] = tail[b] /\ localTail'[b] = localTail[b]
             /\ next'[b] = next[b]
    <2>1. next[tailBlock] \in Q!Blocks
      BY <1>4
    <2>2. PICK s \in Int : s = largestBlockSize'
      BY <1>5
    <2>3. size' = [size EXCEPT ![nb] = s]
      BY <1>2, <2>2
    <2> QED BY <1>1, <1>2, <1>3, <2>1, <2>2, <2>3 DEF Shapes
  <1>7. /\ 0 \in Q!Slots /\ data' \in [Q!Blocks -> [Q!Slots -> Int]]
        /\ \A b \in Q!Blocks, i \in Q!Slots :
             data'[b][i] = IF b = nb /\ i = 0 THEN put + 1 ELSE data[b][i]
    <2>1. 0 \in Q!Slots /\ put + 1 \in Int
      BY <1>1, Constants DEF Q!Slots, Shapes
    <2> QED BY <1>1, <1>2, <1>3, <2>1 DEF Shapes
  <1>8. front[nb] = 0 /\ tail[nb] = 0 /\ localFront[nb] = 0 /\ localTail[nb] = 0
    BY <1>1, <1>3, <1>0 DEF BlocksOK, BlockOK
  <1>9. /\ Count(nb)' = 1 /\ Freed(nb)' = 0 /\ Seen(nb)' = 1 /\ Count(nb) = 0
        /\ \A b \in Q!Blocks : b # nb =>
             Count(b)' = Count(b) /\ Freed(b)' = Freed(b) /\ Seen(b)' = Seen(b)
    BY <1>2, <1>6, <1>8 DEF Count, Freed, Seen, Cyc
  <1>10. PICK base2 : base2 = [base EXCEPT ![nb] = put]
    OBVIOUS
  <1>11. /\ base2 \in [Q!Blocks -> Nat]
         /\ \A b \in Q!Blocks : base2[b] = IF b = nb THEN put ELSE base[b]
    BY <1>1, <1>3, <1>10, Constants DEF Numbers, Shapes
  <1>12. Shapes'
    <2>1. blockCount' \in Q!Blocks /\ newBlock' \in 1 .. blockCount'
      BY <1>2, <1>3, Constants DEF Q!Blocks
    <2> QED BY <1>1, <1>2, <1>5, <1>6, <1>7, <2>1 DEF Shapes, ProducerPlaces
  <1>13. BlocksOK'
    <2>1. ASSUME NEW b \in Q!Blocks PROVE BlockOK(b)'
      <3>1. BlockOK(b)
        BY <1>1 DEF BlocksOK
      <3>2. CASE b = nb
        <4>1. ~(b > blockCount')
          BY <1>2, <1>3, <3>2
        <4> QED BY <1>2, <1>5, <1>6, <1>8, <1>9, <3>2, <4>1 DEF BlockOK
      <3>3. CASE b # nb
        <4>1. b > blockCount' => b > blockCount
          BY <1>2, <1>3, <1>0
        <4> QED BY <1>2, <1>6, <1>9, <3>1, <3>3, <4>1 DEF BlockOK
      <3> QED BY <3>2, <3>3
    <2> QED BY <2>1 DEF BlocksOK
  <1>14. Ring(w, r)'
    <2>1. \A b \in 1 .. Linked : next'[b] = next[b]
      BY <1>3, <1>4, <1>6
    <2> QED BY <1>1, <1>2, <1>3, <2>1 DEF Ring
  <1>15. Numbers(r, base2)'
    <2>1. base2[tailBlock] + Count(tailBlock)' = put /\ base2[frontBlock] = got
      BY <1>1, <1>2, <1>3, <1>4, <1>9, <1>11 DEF Numbers
    <2>2. ASSUME NEW b \in 1 .. Linked
          PROVE  /\ r[b] < r[tailBlock] => base2[next'[b]] = base2[b] + Count(b)'
                 /\ r[b] <= r[tailBlock] => base2[b] + Count(b)' <= put
                 /\ 0 < r[b] /\ r[b] <= r[tailBlock] => Count(b)' > 0
                 /\ r[b] > r[tailBlock] => Count(b)' = 0
      <3>1. /\ next'[b] = next[b] /\ base2[b] = base[b] /\ Count(b)' = Count(b)
            /\ base2[next[b]] = base[next[b]]
        BY <1>1, <1>3, <1>6, <1>9, <1>11, LinkedBlock
      <3> QED BY <1>1, <1>2, <3>1, LinkedBlock
    <2> QED BY <1>2, <1>3, <1>11, <2>1, <2>2 DEF Numbers
  <1>16. Contents(base2)'
    <2> SUFFICES ASSUME NEW b \in Q!Blocks, NEW i \in Q!Slots
                 PROVE  data'[b][i] = Content(base2, b, i)'
      BY DEF Contents
    <2>1. data[b][i] = Content(base, b, i)
      BY <1>1 DEF Contents
    <2>2. ~Written(b, i) /\ ~Written(b, i)'
      BY <1>2 DEF Written
    <2>3. Taken(b, i)' <=> Taken(b, i)
      BY <1>2 DEF Taken
    <2>4. CASE b = nb
      <3>1. ~Taken(b, i)
        BY <1>3, <1>4, <2>4 DEF Taken
      <3>2. i \in Nat /\ Offset(b, i) = i /\ Offset(b, i)' = i
        BY <1>2, <1>8, <2>4, Constants DEF Offset, Cyc, Q!Slots
      <3>3. data[b][i] = 0
        BY <1>9, <2>1, <2>2, <2>4, <3>1, <3>2 DEF Content
      <3>4. i < size'[b] /\ Offset(b, i)' < Count(b)' <=> i = 0
        BY <1>5, <1>6, <1>9, <2>4, <3>2
      <3> QED BY <1>1, <1>7, <1>11, <2>2, <2>3, <2>4, <3>1, <3>2, <3>3, <3>4
                 DEF Content, Shapes
    <2>5. CASE b # nb
      <3>1. Offset(b, i)' = Offset(b, i)
        BY <1>2, <1>6, <2>5 DEF Offset
      <3> QED BY <1>2, <1>6, <1>7, <1>9, <1>11, <2>1, <2>2, <2>3, <2>5, <3>1 DEF Content
    <2> QED BY <2>4, <2>5
  <1>17. ProducerAt(r, base2)'
    <2>1. put < MaxElements
      BY <1>1, <1>2 DEF ProducerAt
    <2>2. next'[nb] = next'[tailBlock]
      BY <1>3, <1>4, <1>6
    <2> QED BY <1>2, <1>3, <1>9, <1>11, <2>1, <2>2 DEF ProducerAt
  <1>18. ConsumerAt'
    <2>1. /\ Count(frontBlock)' = Count(frontBlock) /\ Count(block)' = Count(block)
          /\ Seen(frontBlock)' = Seen(frontBlock) /\ Seen(block)' = Seen(block)
          /\ next'[frontBlock] = next[frontBlock]
      BY <1>2, <1>3, <1>4, <1>6, <1>9
    <2> QED BY <1>1, <1>2, <2>1 DEF ConsumerAt
  <1>19. Body(w, r, base2)'
    BY <1>12, <1>13, <1>14, <1>15, <1>16, <1>17, <1>18 DEF Body
  <1> QED BY <1>19

\* The new block comes after the tail block, before those behind it.
LEMMA LinkStep ==
  ASSUME NEW w, NEW r, NEW base, Body(w, r, base), Q!Link
  PROVE  \E w2, r2 : Body(w2, r2, base)'
  <1>1. /\ Shapes /\ BlocksOK /\ Ring(w, r) /\ Numbers(r, base) /\ Contents(base)
        /\ ProducerAt(r, base) /\ ConsumerAt
    BY DEF Body
  <1>2. /\ UNCHANGED <<front, tail, localFront, localTail, data, size, frontBlock, tailBlock,
                       largestBlockSize, blockCount, canAlloc, newBlock,
                       cpc, op, block, item, put, got, out, call>>
        /\ ppc = "link" /\ ppc' = "advance"
        /\ next' = [next EXCEPT ![tailBlock] = newBlock]
    BY DEF Q!Link, Q!consumerVars, Q!historyVars
  <1>3. PICK n \in Nat, t \in Nat : n = Linked /\ t = r[tailBlock]
    <2>1. tailBlock \in 1 .. Linked
      BY <1>1 DEF Ring
    <2>2. Linked \in Nat /\ r[tailBlock] \in 0 .. Linked - 1
      BY <1>1, <2>1, RingLinked
    <2> QED BY <2>2
  <1>4. /\ newBlock = n + 1 /\ Linked' = n + 1 /\ newBlock \in Q!Blocks
        /\ next[newBlock] = next[tailBlock] /\ Count(newBlock) = 1 /\ base[newBlock] = put
        /\ put < MaxElements
    BY <1>1, <1>2, <1>3, NewBlock, Constants DEF ProducerAt, Linked, Shapes, Q!Blocks
  <1>5. /\ frontBlock \in 1 .. n /\ tailBlock \in 1 .. n /\ block \in 1 .. n
        /\ 1 .. n \subseteq Q!Blocks /\ t \in 0 .. n - 1 /\ n >= 1
    BY <1>1, <1>3, RingLinked DEF Ring
  <1>6. /\ next' \in [Q!Blocks -> Q!Blocks] /\ next'[tailBlock] = newBlock
        /\ \A b \in Q!Blocks : b # tailBlock => next'[b] = next[b]
    BY <1>1, <1>2, <1>4, <1>5 DEF Shapes
  <1>7. \A b : Count(b)' = Count(b) /\ Freed(b)' = Freed(b) /\ Seen(b)' = Seen(b)
    BY <1>2, CyclesSame
  <1> DEFINE W == [k \in 0 .. n |-> IF k <= t THEN w[k] ELSE IF k = t + 1 THEN n + 1 ELSE w[k - 1]]
             R == [b \in 1 .. n + 1 |-> IF b = n + 1 THEN t + 1
                                        ELSE IF r[b] <= t THEN r[b] ELSE r[b] + 1]
  <1>8. PICK w2, r2 : w2 = W /\ r2 = R
    OBVIOUS
  <1>9. /\ w \in [0 .. n - 1 -> 1 .. n] /\ r \in [1 .. n -> 0 .. n - 1] /\ w[0] = frontBlock
        /\ \A k \in 0 .. n - 1 : r[w[k]] = k
        /\ \A b \in 1 .. n : w[r[b]] = b /\ next[b] = w[IF r[b] = n - 1 THEN 0 ELSE r[b] + 1]
    BY <1>1, <1>3 DEF Ring
  <1>10. /\ r2[n + 1] = t + 1
         /\ \A b \in 1 .. n : /\ r[b] \in 0 .. n - 1
                              /\ r2[b] = IF r[b] <= t THEN r[b] ELSE r[b] + 1
    BY <1>8, <1>9
  <1>11. \A k \in 0 .. n : w2[k] = IF k <= t THEN w[k] ELSE IF k = t + 1 THEN n + 1 ELSE w[k - 1]
    BY <1>8
  <1>12. Ring(w2, r2)'
    <2>1. ASSUME NEW k \in 0 .. n PROVE w2[k] \in 1 .. n + 1 /\ r2[w2[k]] = k
      <3>1. CASE k <= t
        <4>1. k \in 0 .. n - 1
          BY <1>5, <3>1
        <4>2. w2[k] = w[k] /\ w[k] \in 1 .. n /\ r[w[k]] = k
          BY <1>9, <1>11, <3>1, <4>1
        <4> QED BY <1>10, <3>1, <4>1, <4>2
      <3>2. CASE k = t + 1
        BY <1>10, <1>11, <3>2
      <3>3. CASE k > t + 1
        <4>1. k - 1 \in 0 .. n - 1 /\ k - 1 > t
          BY <1>5, <3>3
        <4>2. w2[k] = w[k - 1]
          BY <1>11, <3>3
        <4>3. w[k - 1] \in 1 .. n /\ r[w[k - 1]] = k - 1
          BY <1>9, <4>1
        <4> QED BY <1>10, <4>1, <4>2, <4>3
      <3> QED BY <3>1, <3>2, <3>3
    <2>2. ASSUME NEW b \in 1 .. n + 1
          PROVE  /\ r2[b] \in 0 .. n /\ w2[r2[b]] = b
                 /\ next'[b] = w2[IF r2[b] = n THEN 0 ELSE r2[b] + 1]
      <3>1. CASE b = n + 1
        <4>1. r2[b] = t + 1 /\ t + 1 \in 0 .. n /\ w2[t + 1] = b
          BY <1>5, <1>10, <1>11, <3>1
        <4>2. next'[b] = w[IF t = n - 1 THEN 0 ELSE t + 1]
          <5>1. newBlock # tailBlock
            BY <1>4, <1>5
          <5>2. next'[b] = next[tailBlock]
            BY <1>4, <1>6, <3>1, <5>1
          <5>3. next[tailBlock] = w[IF r[tailBlock] = n - 1 THEN 0 ELSE r[tailBlock] + 1]
            BY <1>5, <1>9
          <5>4. r[tailBlock] = t
            BY <1>3
          <5> QED BY <5>2, <5>3, <5>4
        <4>3. CASE t = n - 1
          BY <1>5, <1>11, <4>1, <4>2, <4>3
        <4>4. CASE t # n - 1
          <5>1. t + 2 \in 0 .. n /\ w2[t + 2] = w[t + 1]
            BY <1>5, <1>11, <4>4
          <5>2. r2[b] # n /\ r2[b] + 1 = t + 2
            BY <1>5, <4>1, <4>4
          <5>3. next'[b] = w[t + 1]
            BY <4>2, <4>4
          <5>4. (t + 1) + 1 = t + 2
            BY <1>5
          <5>5. w2[r2[b] + 1] = w[t + 1]
            BY <4>1, <5>1, <5>4
          <5> QED BY <1>5, <4>1, <5>2, <5>3, <5>5
        <4> QED BY <4>3, <4>4
      <3>2. CASE b = tailBlock
        <4>1. r2[b] = t /\ b \in 1 .. n /\ w[t] = b
          <5>1. r[b] = t /\ b \in 1 .. n
            BY <1>3, <1>5, <3>2
          <5>2. w[r[b]] = b
            BY <1>9, <5>1
          <5>3. r2[b] = IF r[b] <= t THEN r[b] ELSE r[b] + 1
            BY <1>10, <5>1
          <5> QED BY <1>5, <5>1, <5>2, <5>3
        <4>2. w2[t] = b /\ w2[t + 1] = n + 1
          BY <1>5, <1>11, <4>1
        <4> QED BY <1>4, <1>5, <1>6, <3>2, <4>1, <4>2
      <3>3. CASE b # n + 1 /\ b # tailBlock
        <4>1. b \in 1 .. n /\ r[b] \in 0 .. n - 1 /\ w[r[b]] = b /\ r[b] # t
          BY <1>3, <1>5, <1>9, <3>3
        <4>2. next'[b] = w[IF r[b] = n - 1 THEN 0 ELSE r[b] + 1]
          BY <1>5, <1>6, <1>9, <3>3, <4>1
        <4>3. CASE r[b] < t
          <5>1. r2[b] = r[b] /\ r[b] + 1 \in 0 .. n - 1 /\ r[b] + 1 <= t
            BY <1>5, <1>10, <4>1, <4>3
          <5>2. w2[r[b]] = w[r[b]] /\ w2[r[b] + 1] = w[r[b] + 1]
            BY <1>5, <1>11, <4>1, <5>1
          <5> QED BY <4>1, <4>2, <5>1, <5>2
        <4>4. CASE r[b] > t
          <5>1. r2[b] = r[b] + 1 /\ r[b] + 1 \in 0 .. n /\ r[b] > t
            BY <1>5, <1>10, <4>1, <4>4
          <5>2. w2[r[b] + 1] = w[r[b]]
            BY <1>5, <1>11, <4>1, <5>1
          <5>3. CASE r[b] = n - 1
            BY <1>5, <1>11, <4>1, <4>2, <5>1, <5>2, <5>3
          <5>4. CASE r[b] # n - 1
            <6>1. r[b] + 2 \in 0 .. n /\ w2[r[b] + 2] = w[r[b] + 1]
              BY <1>5, <1>11, <4>1, <5>1, <5>4
            <6> QED BY <4>1, <4>2, <5>1, <5>2, <5>4, <6>1
          <5> QED BY <5>3, <5>4
        <4> QED BY <4>1, <4>3, <4>4
      <3> QED BY <3>1, <3>2, <3>3
    <2>3. w2 \in [0 .. n -> 1 .. n + 1] /\ r2 \in [1 .. n + 1 -> 0 .. n]
      <3>1. w2 = [k \in 0 .. n |-> w2[k]] /\ r2 = [b \in 1 .. n + 1 |-> r2[b]]
        BY <1>8
      <3> QED BY <2>1, <2>2, <3>1
    <2>4. w2[0] = frontBlock
      BY <1>5, <1>9, <1>11
    <2>5. /\ Linked' = n + 1 /\ (n + 1) - 1 = n
          /\ frontBlock' = frontBlock /\ tailBlock' = tailBlock /\ block' = block
          /\ frontBlock \in 1 .. n + 1 /\ tailBlock \in 1 .. n + 1 /\ block \in 1 .. n + 1
      BY <1>2, <1>4, <1>5
    <2> QED BY <2>1, <2>2, <2>3, <2>4, <2>5 DEF Ring
  <1>13. Numbers(r2, base)'
    <2>1. r2[tailBlock] = t
      BY <1>3, <1>5, <1>10
    <2>2. ASSUME NEW b \in 1 .. n + 1
          PROVE  /\ r2[b] < t => base[next'[b]] = base[b] + Count(b)
                 /\ r2[b] <= t => base[b] + Count(b) <= put
                 /\ 0 < r2[b] /\ r2[b] <= t => Count(b) > 0
                 /\ r2[b] > t => Count(b) = IF b = newBlock THEN 1 ELSE 0
      <3>1. CASE b = n + 1
        BY <1>4, <1>10, <3>1
      <3>2. CASE b # n + 1
        <4>1. b \in 1 .. n /\ b # newBlock
          BY <1>4, <3>2
        <4>2. r2[b] = (IF r[b] <= t THEN r[b] ELSE r[b] + 1) /\ r[b] \in Int
          BY <1>10, <4>1
        <4>3. r[b] < t => next'[b] = next[b]
          BY <1>3, <1>5, <1>6, <4>1
        <4> QED BY <1>1, <1>2, <1>3, <4>1, <4>2, <4>3, LinkedBlock
      <3> QED BY <3>1, <3>2
    <2>3. /\ base \in [Q!Blocks -> Nat] /\ base[frontBlock] = got
          /\ base[tailBlock] + Count(tailBlock) = put
      BY <1>1 DEF Numbers
    <2> QED BY <1>2, <1>4, <1>7, <2>1, <2>2, <2>3 DEF Numbers
  <1>14. Contents(base)'
    BY <1>1, <1>2 DEF Contents, Content, Taken, Written, Offset, Count, Cyc
  <1>15. Shapes'
    BY <1>1, <1>2, <1>6 DEF Shapes, ProducerPlaces
  <1>16. BlocksOK'
    BY <1>1, <1>2, BlocksSame
  <1>17. ProducerAt(r2, base)'
    <2>1. r2[tailBlock] < (n + 1) - 1
      BY <1>3, <1>5, <1>10
    <2> QED BY <1>2, <1>4, <1>6, <1>7, <2>1 DEF ProducerAt
  <1>18. ConsumerAt'
    <2>1. frontBlock # tailBlock => next'[frontBlock] = next[frontBlock]
      BY <1>5, <1>6
    <2> QED BY <1>1, <1>2, <1>7, <2>1 DEF ConsumerAt
  <1>19. Body(w2, r2, base)'
    BY <1>12, <1>13, <1>14, <1>15, <1>16, <1>17, <1>18 DEF Body
  <1> QED BY <1>19

\* The new block becomes the tail block.
LEMMA AdvanceStep ==
  ASSUME NEW w, NEW r, NEW base, Body(w, r, base), Q!Advance
  PROVE  Body(w, r, base)'
  <1>1. /\ Shapes /\ BlocksOK /\ Ring(w, r) /\ Numbers(r, base) /\ Contents(base)
        /\ ProducerAt(r, base) /\ ConsumerAt
    BY DEF Body
  <1>2. /\ UNCHANGED <<front, tail, localFront, localTail, data, next, size, frontBlock,
                       largestBlockSize, blockCount, canAlloc, newBlock,
                       cpc, op, block, item, got, out, call>>
        /\ ppc = "advance" /\ ppc' = "idle" /\ put' = put + 1 /\ tailBlock' = newBlock
    BY DEF Q!Advance, Q!consumerVars
  <1>3. /\ newBlock # frontBlock /\ newBlock # tailBlock /\ newBlock \in Q!Blocks
        /\ newBlock \in 1 .. Linked /\ r[newBlock] = r[tailBlock] + 1
        /\ Count(newBlock) = 1 /\ base[newBlock] = put /\ put < MaxElements
        /\ newBlock = next[tailBlock]
    BY <1>1, <1>2, NewBlock DEF ProducerAt
  <1>4. Linked' = Linked
    BY <1>2 DEF Linked
  <1>5. \A b : Count(b)' = Count(b)
    BY <1>2 DEF Count
  <1>6. put \in Nat /\ put + 1 <= MaxElements
    BY <1>1, <1>3, Constants DEF Shapes
  <1>7. Shapes'
    <2>1. put' \in 0 .. MaxElements /\ out' \in 0 .. put'
      BY <1>1, <1>2, <1>6, Constants DEF Shapes
    <2> QED BY <1>1, <1>2, <2>1 DEF Shapes, ProducerPlaces
  <1>8. BlocksOK'
    BY <1>1, <1>2, BlocksSame
  <1>9. Ring(w, r)'
    BY <1>1, <1>2, <1>3, <1>4 DEF Ring
  <1>10. Numbers(r, base)'
    <2>1. ASSUME NEW b \in 1 .. Linked
          PROVE  /\ r[b] < r[newBlock] => base[next[b]] = base[b] + Count(b)
                 /\ r[b] <= r[newBlock] => base[b] + Count(b) <= put + 1
                 /\ 0 < r[b] /\ r[b] <= r[newBlock] => Count(b) > 0
                 /\ r[b] > r[newBlock] => Count(b) = 0
      <3>1. r[b] = r[newBlock] => b = newBlock
        BY <1>1, <1>3 DEF Ring
      <3>2. base[tailBlock] + Count(tailBlock) = put
        BY <1>1 DEF Numbers
      <3> QED BY <1>1, <1>2, <1>3, <1>6, <3>1, <3>2, LinkedBlock
    <2>2. base \in [Q!Blocks -> Nat] /\ base[frontBlock] = got
      BY <1>1 DEF Numbers
    <2> QED BY <1>2, <1>3, <1>4, <1>5, <1>6, <2>1, <2>2 DEF Numbers
  <1>11. Contents(base)'
    BY <1>1, <1>2 DEF Contents, Content, Taken, Written, Offset, Count, Cyc
  <1>12. ProducerAt(r, base)'
    BY <1>2 DEF ProducerAt
  <1>13. ConsumerAt'
    <2>1. call = "some" => got < put'
      BY <1>1, <1>2, <1>6 DEF ConsumerAt, Shapes
    <2>2. Seen(block)' = Seen(block) /\ Seen(frontBlock)' = Seen(frontBlock)
      BY <1>2 DEF Seen
    <2> QED BY <1>1, <1>2, <1>3, <1>5, <2>1, <2>2 DEF ConsumerAt
  <1> QED BY <1>7, <1>8, <1>9, <1>10, <1>11, <1>12, <1>13 DEF Body

-----------------------------------------------------------------------------

\* The constructor makes a ring of one empty block.
LEMMA InitRing == Q!Init => RingInv
  <1> SUFFICES ASSUME Q!Init PROVE RingInv
    OBVIOUS
  <1>1. PICK w, r, base : /\ w = [k \in 0 .. 0 |-> 1] /\ r = [b \in 1 .. 1 |-> 0]
                          /\ base = [b \in Q!Blocks |-> 0]
    OBVIOUS
  <1>2. /\ front = [b \in Q!Blocks |-> 0] /\ tail = [b \in Q!Blocks |-> 0]
        /\ localFront = [b \in Q!Blocks |-> 0] /\ localTail = [b \in Q!Blocks |-> 0]
        /\ next = [b \in Q!Blocks |-> 1] /\ size = [b \in Q!Blocks |-> FirstSize]
        /\ data = [b \in Q!Blocks |-> [i \in Q!Slots |-> 0]]
        /\ frontBlock = 1 /\ tailBlock = 1 /\ largestBlockSize = FirstSize /\ blockCount = 1
        /\ ppc = "idle" /\ canAlloc = TRUE /\ newBlock = 1
        /\ cpc = "idle" /\ op = "try_dequeue" /\ block = 1 /\ item = 0
        /\ put = 0 /\ got = 0 /\ out = 0 /\ call = "idle"
    BY DEF Q!Init
  <1>3. 1 \in Q!Blocks /\ Linked = 1
    BY <1>2, Constants DEF Q!Blocks, Linked
  <1>4. Shapes
    BY <1>2, <1>3, Constants DEF Shapes, ProducerPlaces, ConsumerPlaces, Q!Ops
  <1>5. \A b : b \in Q!Blocks => Count(b) = 0 /\ Freed(b) = 0 /\ Seen(b) = 0
    BY <1>2 DEF Count, Freed, Seen, Cyc
  <1>6. BlocksOK
    BY <1>2, <1>5, Constants DEF BlocksOK, BlockOK
  <1>7. Ring(w, r)
    BY <1>1, <1>2, <1>3 DEF Ring
  <1>8. Numbers(r, base)
    BY <1>1, <1>2, <1>3, <1>5 DEF Numbers
  <1>9. Contents(base)
    <2>1. ASSUME NEW b \in Q!Blocks, NEW i \in Q!Slots PROVE data[b][i] = Content(base, b, i)
      <3>1. i \in Nat /\ Offset(b, i) = i
        BY <1>2, Constants DEF Offset, Cyc, Q!Slots
      <3> QED BY <1>2, <1>5, <3>1 DEF Content, Taken, Written
    <2> QED BY <2>1 DEF Contents
  <1>10. ProducerAt(r, base) /\ ConsumerAt
    BY <1>2 DEF ProducerAt, ConsumerAt
  <1> QED BY <1>4, <1>6, <1>7, <1>8, <1>9, <1>10 DEF RingInv, Body

(***************************************************************************)
(* The ring inside: what the steps of the queue are to it.                 *)
(***************************************************************************)
LEMMA QueueSteps ==
  [Next]_vars => \/ UNCHANGED queueVars
                 \/ \E alloc \in BOOLEAN : Q!EnqueueCall(alloc)
                 \/ Q!ProducerStep
                 \/ \E o \in Q!Ops : Q!ConsumerCall(o)
                 \/ Q!ConsumerStep
  <1> SUFFICES ASSUME [Next]_vars
               PROVE  \/ UNCHANGED queueVars
                      \/ \E alloc \in BOOLEAN : Q!EnqueueCall(alloc)
                      \/ Q!ProducerStep
                      \/ \E o \in Q!Ops : Q!ConsumerCall(o)
                      \/ Q!ConsumerStep
    OBVIOUS
  <1>1. CASE Enqueue
    BY <1>1 DEF Enqueue
  <1>2. CASE EnqueueStep
    BY <1>2 DEF EnqueueStep
  <1>3. CASE SignalElement \/ PostElement \/ WaitDequeue \/ WaitStep
    BY <1>3 DEF SignalElement, PostElement, WaitDequeue, WaitStep
  <1>4. CASE Dequeue
    BY <1>4 DEF Dequeue, Q!TryDequeueCall, Q!PopCall, Q!Ops
  <1>5. CASE DequeueStep
    BY <1>5 DEF DequeueStep
  <1>6. CASE Peek
    BY <1>6 DEF Peek, Q!PeekCall, Q!Ops
  <1>7. CASE UNCHANGED vars
    BY <1>7 DEF vars
  <1> QED
    BY <1>1, <1>2, <1>3, <1>4, <1>5, <1>6, <1>7 DEF Next, Producer, Consumer

\* Every step of either thread keeps the ring.
LEMMA RingStep == RingInv /\ [Next]_vars => RingInv'
  <1> SUFFICES ASSUME RingInv, [Next]_vars PROVE RingInv'
    OBVIOUS
  <1>1. PICK w, r, base : Body(w, r, base)
    BY DEF RingInv
  <1>2. CASE UNCHANGED queueVars
    <2>1. Shapes'
      BY <1>1, <1>2 DEF Body, Shapes, queueVars
    <2>2. BlocksOK'
      BY <1>1, <1>2, BlocksSame DEF Body, queueVars
    <2>3. Ring(w, r)' /\ Numbers(r, base)' /\ ProducerAt(r, base)'
      <3>1. block' \in 1 .. Linked
        BY <1>1, <1>2 DEF Body, Ring, queueVars
      <3> QED BY <1>1, <1>2, <3>1, RingSame DEF Body, queueVars, Q!ringVars
    <2>4. Contents(base)'
      BY <1>1, <1>2 DEF Body, Contents, Content, Taken, Written, Offset, Count, Cyc, queueVars
    <2>5. ConsumerAt'
      BY <1>1, <1>2, ProducerFrame DEF Body, queueVars, Q!ringVars
    <2>6. Body(w, r, base)'
      BY <2>1, <2>2, <2>3, <2>4, <2>5 DEF Body
    <2> QED BY <2>6 DEF RingInv
  <1>3. ASSUME NEW alloc \in BOOLEAN, Q!EnqueueCall(alloc) PROVE RingInv'
    BY <1>1, <1>3, EnqueueCallStep DEF RingInv
  <1>4. CASE Q!ProducerStep
    <2>1. CASE Q!LoadFront                    BY <1>1, <2>1, LoadFrontStep DEF RingInv
    <2>2. CASE Q!Write \/ Q!WriteNext         BY <1>1, <2>2, WriteStep DEF RingInv
    <2>3. CASE Q!Publish                      BY <1>1, <2>3, PublishStep DEF RingInv
    <2>4. CASE Q!TestNext \/ Q!AllocateFails  BY <1>1, <2>4, TestNextStep DEF RingInv
    <2>5. CASE Q!UseNext                      BY <1>1, <2>5, UseNextStep DEF RingInv
    <2>6. CASE Q!PublishNext                  BY <1>1, <2>6, PublishNextStep DEF RingInv
    <2>7. CASE Q!Allocate                     BY <1>1, <2>7, AllocateStep DEF RingInv
    <2>8. CASE Q!Link                         BY <1>1, <2>8, LinkStep DEF RingInv
    <2>9. CASE Q!Advance                      BY <1>1, <2>9, AdvanceStep DEF RingInv
    <2> QED BY <1>4, <2>1, <2>2, <2>3, <2>4, <2>5, <2>6, <2>7, <2>8, <2>9
               DEF Q!ProducerStep
  <1>5. ASSUME NEW o \in Q!Ops, Q!ConsumerCall(o) PROVE RingInv'
    BY <1>1, <1>5, CallStep DEF RingInv
  <1>6. CASE Q!ConsumerStep
    <2>1. CASE Q!LoadTail \/ Q!Recheck  BY <1>1, <2>1, LoadTailStep DEF RingInv
    <2>2. CASE Q!TestTailBlock          BY <1>1, <2>2, TestTailBlockStep DEF RingInv
    <2>3. CASE Q!LoadNext               BY <1>1, <2>3, LoadNextStep DEF RingInv
    <2>4. CASE Q!LoadNextTail           BY <1>1, <2>4, LoadNextTailStep DEF RingInv
    <2>5. CASE Q!Leave                  BY <1>1, <2>5, LeaveStep DEF RingInv
    <2>6. CASE Q!TakeElement            BY <1>1, <2>6, TakeElementStep DEF RingInv
    <2>7. CASE Q!Release                BY <1>1, <2>7, ReleaseStep DEF RingInv
    <2> QED BY <1>6, <2>1, <2>2, <2>3, <2>4, <2>5, <2>6, <2>7 DEF Q!ConsumerStep
  <1> QED BY <1>2, <1>3, <1>4, <1>5, <1>6, QueueSteps

\* So the ring is kept for ever.
LEMMA RingInvariant == Spec => []RingInv
  <1>1. Init => RingInv
    BY InitRing DEF Init
  <1> QED BY <1>1, RingStep, PTL DEF Spec

(***************************************************************************)
(* A walk is determined by where it begins and by the blocks' next.        *)
(***************************************************************************)
LEMMA SameWalk ==
  ASSUME NEW n \in Nat, NEW u, NEW v, u[0] = v[0],
         \A k \in 1 .. n : u[k] = next[u[k - 1]] /\ v[k] = next[v[k - 1]]
  PROVE  \A k \in 0 .. n : u[k] = v[k]
  <1> DEFINE T == {k \in 0 .. n : u[k] # v[k]}
  <1>1. CASE T = {}
    BY <1>1
  <1>2. CASE T # {}
    <2>1. T \subseteq Nat
      OBVIOUS
    <2>2. PICK x \in T : \A y \in T : x <= y
      <3> HIDE DEF T
      <3> QED BY <1>2, <2>1, LeastNumber
    <2>3. x \in 1 .. n /\ u[x] # v[x]
      BY <2>2
    <2>4. x - 1 \in 0 .. n /\ x - 1 \notin T
      BY <2>2, <2>3
    <2>5. u[x - 1] = v[x - 1]
      BY <2>4
    <2> QED BY <2>3, <2>5
  <1> QED BY <1>1, <1>2

\* What the runs check of the ring follows.
LEMMA BodyIntact == ASSUME NEW w, NEW r, NEW base, Body(w, r, base) PROVE RingIntact
  <1>1. /\ Shapes /\ BlocksOK /\ Ring(w, r) /\ Numbers(r, base) /\ Contents(base)
        /\ ProducerAt(r, base) /\ ConsumerAt
    BY DEF Body
  <1>2. /\ Linked \in Nat /\ Linked >= 1 /\ 1 .. Linked \subseteq Q!Blocks
        /\ frontBlock \in 1 .. Linked /\ tailBlock \in 1 .. Linked /\ block \in 1 .. Linked
        /\ blockCount \in Nat /\ Linked <= blockCount
    <2>1. blockCount \in Nat /\ Linked <= blockCount
      BY <1>1, Constants DEF Linked, Shapes, Q!Blocks
    <2>2. tailBlock \in 1 .. Linked /\ block \in 1 .. Linked
      BY <1>1 DEF Ring
    <2> QED BY <1>1, <2>1, <2>2, RingLinked
  <1>3. Q!TypeOK
    <2>1. /\ front \in Q!Positions /\ tail \in Q!Positions
          /\ localFront \in Q!Positions /\ localTail \in Q!Positions
          /\ size \in [Q!Blocks -> FirstSize .. MaxSize]
      <3>1. ASSUME NEW b \in Q!Blocks
            PROVE  /\ size[b] \in FirstSize .. MaxSize
                   /\ front[b] \in Q!Slots /\ tail[b] \in Q!Slots
                   /\ localFront[b] \in Q!Slots /\ localTail[b] \in Q!Slots
        BY <1>1, Constants DEF BlocksOK, BlockOK, Q!Slots
      <3> QED BY <1>1, <3>1 DEF Shapes, Q!Positions
    <2>2. got \in 0 .. put
      <3>1. base[frontBlock] + Count(frontBlock) <= put
        <4>1. r[frontBlock] <= r[tailBlock]
          BY <1>1, <1>2, RingLinked
        <4> QED BY <1>1, <1>2, <4>1, LinkedBlock
      <3> QED BY <1>1, <1>2, <3>1, LinkedBlock DEF Numbers
    <2>3. data \in [Q!Blocks -> [Q!Slots -> 0 .. MaxElements]]
      <3>1. ASSUME NEW b \in Q!Blocks, NEW i \in Q!Slots PROVE data[b][i] \in 0 .. MaxElements
        <4>1. data[b][i] = Content(base, b, i)
          BY <1>1 DEF Contents
        <4>2. put \in Nat /\ put <= MaxElements /\ MaxElements \in Nat
          BY <1>1, Constants DEF Shapes
        <4>3. Written(b, i) => put < MaxElements
          BY <1>1 DEF Written, ProducerAt
        <4>4. ASSUME i < size[b], Offset(b, i) < Count(b)
              PROVE  base[b] + Offset(b, i) + 1 \in 0 .. MaxElements
          <5>1. Offset(b, i) \in Nat /\ base[b] \in Nat /\ Count(b) \in Nat /\ Count(b) > 0
            BY <1>1, <4>4, Distances, Constants
               DEF Offset, Cyc, BlocksOK, BlockOK, Q!Slots, Numbers
          <5>2. CASE b \in 1 .. Linked /\ r[b] <= r[tailBlock]
            <6>1. base[b] + Count(b) <= put
              BY <1>1, <5>2, LinkedBlock
            <6> QED BY <4>2, <4>4, <5>1, <6>1
          <5>3. CASE b \in 1 .. Linked /\ ~(r[b] <= r[tailBlock])
            <6>1. ppc = "advance" /\ b = newBlock /\ Count(b) = 1
              BY <1>1, <5>1, <5>3, LinkedBlock
            <6>2. base[b] = put /\ put < MaxElements
              BY <1>1, <6>1 DEF ProducerAt
            <6> QED BY <4>2, <4>4, <5>1, <6>1, <6>2
          <5>4. CASE b \notin 1 .. Linked
            <6>1. b > Linked /\ b \in Int
              BY <1>2, <5>4, Constants DEF Q!Blocks
            <6>2. b <= blockCount
              <7>1. front[b] # tail[b]
                BY <1>1, <5>1, Distances
              <7> QED BY <1>1, <1>2, <6>1, <7>1 DEF BlocksOK, BlockOK
            <6>3. ppc = "link" /\ b = blockCount
              BY <1>2, <6>1, <6>2 DEF Linked
            <6>4. b = newBlock /\ base[b] = put /\ Count(b) = 1 /\ put < MaxElements
              BY <1>1, <6>3 DEF ProducerAt
            <6> QED BY <4>2, <4>4, <5>1, <6>4
          <5> QED BY <5>2, <5>3, <5>4
        <4> QED BY <4>1, <4>2, <4>3, <4>4 DEF Content
      <3> QED BY <1>1, <3>1 DEF Shapes
    <2>4. largestBlockSize \in FirstSize .. MaxSize
      BY <1>1, Constants DEF Shapes
    <2>5. /\ frontBlock \in 1 .. blockCount /\ tailBlock \in 1 .. blockCount
          /\ block \in 1 .. blockCount
      BY <1>2
    <2> QED BY <1>1, <2>1, <2>2, <2>3, <2>4, <2>5
               DEF Shapes, Q!TypeOK, ProducerPlaces, ConsumerPlaces
  <1>4. Q!NoSlotRace
    <2>1. ASSUME NEW c \in Q!Blocks, ppc \in {"write", "writeNext"} PROVE data[c][tail[c]] = 0
      <3>1. /\ tail[c] \in Q!Slots /\ Offset(c, tail[c]) = Count(c) /\ Count(c) \in Int
        BY <1>1, Distances, Constants DEF BlocksOK, BlockOK, Q!Slots, Offset, Count
      <3>2. data[c][tail[c]] = Content(base, c, tail[c])
        BY <1>1, <3>1 DEF Contents
      <3>3. ~Written(c, tail[c])
        BY <2>1 DEF Written
      <3> QED BY <3>1, <3>2, <3>3 DEF Content
    <2>2. ppc = "write" => tailBlock \in Q!Blocks
      BY <1>2
    <2>3. ppc = "writeNext" => newBlock \in Q!Blocks
      BY <1>1, NewBlock
    <2>4. cpc = "take" => front[block] # tail[block]
      <3>1. cpc = "take" => Count(block) > 0 /\ block \in Q!Blocks
        BY OldestElement
      <3> QED BY <1>1, <3>1, Distances
    <2> QED BY <2>1, <2>2, <2>3, <2>4 DEF Q!NoSlotRace
  <1>5. Q!AssertionsHold
    <2>1. ASSUME ppc = "useNext" PROVE front[next[tailBlock]] = tail[next[tailBlock]]
      <3>1. r[tailBlock] < Linked - 1 /\ next[tailBlock] \in 1 .. Linked
        BY <1>1, <1>2, <2>1, LinkedBlock DEF ProducerAt
      <3>2. r[next[tailBlock]] > r[tailBlock]
        BY <1>1, <1>2, <3>1, LinkedBlock
      <3>3. Count(next[tailBlock]) = 0
        BY <1>1, <2>1, <3>1, <3>2, LinkedBlock
      <3> QED BY <1>1, <1>2, <3>1, <3>3, Distances
    <2>2. ASSUME cpc = "loadNextTail" PROVE front[block] # tail[block]
      <3>1. Count(block) > 0
        BY <1>1, <2>2, FrontFacts DEF ConsumerAt
      <3> QED BY <1>1, <1>2, <3>1, Distances
    <2> QED BY <2>1, <2>2 DEF Q!AssertionsHold
  <1>6. Q!BlocksFormRing
    <2> DEFINE n == Linked
               walk[k \in 0 .. n] == IF k = 0 THEN frontBlock ELSE next[walk[k - 1]]
    <2>1. PICK v : v = [k \in 0 .. n |-> IF k = n THEN frontBlock ELSE w[k]]
      OBVIOUS
    <2>2. /\ w \in [0 .. n - 1 -> 1 .. n] /\ w[0] = frontBlock
          /\ \A k \in 0 .. n - 1 : r[w[k]] = k
          /\ \A b \in 1 .. n : /\ r[b] \in 0 .. n - 1 /\ w[r[b]] = b
                               /\ next[b] = w[IF r[b] = n - 1 THEN 0 ELSE r[b] + 1]
      BY <1>1 DEF Ring
    <2>3. v = [k \in 0 .. n |-> IF k = 0 THEN frontBlock ELSE next[v[k - 1]]]
      <3>1. ASSUME NEW k \in 0 .. n, k # 0 PROVE v[k] = next[v[k - 1]]
        <4>1. k - 1 \in 0 .. n - 1 /\ v[k - 1] = w[k - 1]
          BY <1>2, <2>1, <3>1
        <4>2. w[k - 1] \in 1 .. n /\ r[w[k - 1]] = k - 1
          BY <2>2, <4>1
        <4>3. next[w[k - 1]] = w[IF k - 1 = n - 1 THEN 0 ELSE (k - 1) + 1]
          BY <2>2, <4>2
        <4>4. CASE k = n
          <5>1. k - 1 = n - 1
            BY <4>4
          <5>2. v[k] = frontBlock
            BY <2>1, <4>4
          <5> QED BY <2>2, <4>1, <4>3, <5>1, <5>2
        <4>5. CASE k # n
          <5>1. k - 1 # n - 1 /\ (k - 1) + 1 = k
            BY <1>2, <3>1, <4>5
          <5>2. v[k] = w[k]
            BY <2>1, <4>5
          <5> QED BY <4>1, <4>3, <5>1, <5>2
        <4> QED BY <4>4, <4>5
      <3>2. v[0] = frontBlock
        BY <1>2, <2>1, <2>2
      <3> QED BY <2>1, <3>1, <3>2
    <2>4. walk = [k \in 0 .. n |-> IF k = 0 THEN frontBlock ELSE next[walk[k - 1]]]
      BY <2>3
    <2> HIDE DEF walk
    <2>4a. \A k \in 0 .. n : walk[k] = v[k]
      <3>1. /\ walk[0] = v[0]
            /\ \A k \in 1 .. n : walk[k] = next[walk[k - 1]] /\ v[k] = next[v[k - 1]]
        <4>1. n \in Nat /\ 0 \in 0 .. n /\ \A k \in 1 .. n : k \in 0 .. n /\ k # 0
          BY <1>2
        <4>2. \A k \in 0 .. n : v[k] = IF k = 0 THEN frontBlock ELSE next[v[k - 1]]
          BY <2>3
        <4>3. \A k \in 0 .. n : walk[k] = IF k = 0 THEN frontBlock ELSE next[walk[k - 1]]
          BY <2>4
        <4> QED BY <4>1, <4>2, <4>3
      <3>2. n \in Nat
        BY <1>2
      <3> HIDE DEF n
      <3> QED BY <3>1, <3>2, SameWalk
    <2>5. \A k \in 0 .. n - 1 : walk[k] = w[k]
      BY <1>2, <2>1, <2>4a
    <2>6. walk[n] = frontBlock
      BY <1>2, <2>1, <2>4a
    <2>7. {walk[k] : k \in 0 .. n - 1} = 1 .. n
      BY <2>2, <2>5
    <2>8. ASSUME NEW k \in 0 .. n - 1, NEW t \in 0 .. n - 1, walk[t] = tailBlock, k > t,
                 ~(ppc = "advance" /\ walk[k] = newBlock)
          PROVE  front[walk[k]] = tail[walk[k]]
      <3>1. w[k] \in 1 .. n /\ r[w[k]] = k /\ w[k] = walk[k]
        BY <2>2, <2>5
      <3>2. Count(w[k]) = 0
        <4>1. r[tailBlock] = t
          BY <2>2, <2>5, <2>8
        <4>2. r[w[k]] > r[tailBlock] /\ ~(ppc = "advance" /\ w[k] = newBlock)
          BY <2>8, <3>1, <4>1
        <4> QED BY <1>1, <3>1, <4>2, LinkedBlock
      <3>3. w[k] \in Q!Blocks
        BY <1>2, <2>2
      <3> QED BY <1>1, <2>5, <3>2, <3>3, Distances
    <2> QED BY <2>6, <2>7, <2>8 DEF Q!BlocksFormRing, walk, Linked
  <1> QED BY <1>3, <1>4, <1>5, <1>6 DEF RingIntact, Q!RingIntact

(***************************************************************************)
(* Both threads can rely on the ring, however their loads and stores       *)
(* interleave and wherever memory runs out: no slot is written while it    *)
(* is read or before it is free, the assertions of inner_enqueue,          *)
(* try_dequeue, pop and peek hold, and the blocks form one ring.           *)
(***************************************************************************)
THEOREM RingTheorem == Spec => []RingIntact
  <1>1. RingInv => RingIntact
    BY BodyIntact DEF RingInv
  <1> QED BY <1>1, RingInvariant, PTL

(***************************************************************************)
(* Each step of the ring is one of Fifo's, or none of its business: the    *)
(* element is in the queue at the store that moves the tail past it, or    *)
(* that makes its block the tail block, and out of it at the store that    *)
(* moves the front.                                                        *)
(***************************************************************************)
LEMMA FifoStep == RingInv /\ [Next]_vars => [Q!Abstract!FifoNext]_<<put, got, out, call>>
  <1> SUFFICES ASSUME RingInv, [Next]_vars
               PROVE  \/ Q!Abstract!FifoNext
                      \/ UNCHANGED <<put, got, out, call>>
    OBVIOUS
  <1>1. PICK w, r, base : Body(w, r, base)
    BY DEF RingInv
  <1>2. Shapes /\ ConsumerAt /\ BlocksOK /\ Ring(w, r) /\ Numbers(r, base)
    BY <1>1 DEF Body
  <1> USE DEF Q!Abstract!FifoNext
  <1>3. CASE UNCHANGED queueVars
    BY <1>3 DEF queueVars
  <1>4. ASSUME NEW alloc \in BOOLEAN, Q!EnqueueCall(alloc)
        PROVE  UNCHANGED <<put, got, out, call>>
    BY <1>4 DEF Q!EnqueueCall, Q!historyVars
  <1>5. CASE Q!ProducerStep
    <2>1. CASE Q!Publish
      BY <2>1 DEF Q!Publish, Q!Abstract!Append1
    <2>2. CASE Q!Advance
      BY <2>2 DEF Q!Advance, Q!Abstract!Append1
    <2>3. CASE Q!LoadFront \/ Q!Write \/ Q!TestNext \/ Q!UseNext \/ Q!WriteNext
      BY <2>3 DEF Q!LoadFront, Q!Write, Q!TestNext, Q!UseNext, Q!WriteNext, Q!historyVars
    <2>4. CASE Q!PublishNext \/ Q!Allocate \/ Q!AllocateFails \/ Q!Link
      BY <2>4 DEF Q!PublishNext, Q!Allocate, Q!AllocateFails, Q!Link, Q!historyVars
    <2> QED BY <1>5, <2>1, <2>2, <2>3, <2>4 DEF Q!ProducerStep
  <1>6. ASSUME NEW o \in Q!Ops, Q!ConsumerCall(o) PROVE Q!Abstract!Call
    BY <1>2, <1>6 DEF Q!ConsumerCall, Q!Abstract!Call, ConsumerAt
  <1>7. CASE Q!ConsumerStep
    <2>1. CASE Q!LoadTail \/ Q!Recheck
      BY <2>1 DEF Q!LoadTail, Q!Recheck, Q!LoadTailInto, Q!historyVars
    <2>2. CASE Q!LoadNext \/ Q!LoadNextTail \/ Q!Leave
      BY <2>2 DEF Q!LoadNext, Q!LoadNextTail, Q!Leave, Q!historyVars
    <2>3. CASE Q!TestTailBlock
      <3>1. CASE frontBlock # tailBlock
        BY <2>3, <3>1 DEF Q!TestTailBlock
      <3>2. CASE frontBlock = tailBlock
        <4>1. call = "none"
          BY <1>2, <2>3, <3>2 DEF Q!TestTailBlock, ConsumerAt, Shapes
        <4> QED BY <2>3, <3>2, <4>1 DEF Q!TestTailBlock, Q!Abstract!Miss
      <3> QED BY <3>1, <3>2
    <2>4. CASE Q!TakeElement
      <3>1. data[block][front[block]] = got + 1 /\ got < put /\ call # "idle"
        BY <1>1, <1>2, <2>4, OldestElement DEF Q!TakeElement, ConsumerAt
      <3> QED BY <2>4, <3>1 DEF Q!TakeElement, Q!Abstract!Look
    <2>5. CASE Q!Release
      <3>1. item = got + 1 /\ call # "idle" /\ Seen(frontBlock) > 0
        BY <1>2, <2>5 DEF Q!Release, ConsumerAt
      <3>2. Count(frontBlock) > 0
        BY <1>2, <3>1, RingLinked, Distances
      <3>3. got < put
        BY <1>2, <3>2, FrontFacts
      <3> QED BY <2>5, <3>1, <3>3 DEF Q!Release, Q!Abstract!Take
    <2> QED BY <1>7, <2>1, <2>2, <2>3, <2>4, <2>5 DEF Q!ConsumerStep
  <1> QED BY <1>3, <1>4, <1>5, <1>6, <1>7, QueueSteps

(***************************************************************************)
(* The queue implements Fifo: enqueue and try_dequeue lose, repeat and     *)
(* reorder nothing, for any number of blocks and elements, and a dequeue   *)
(* comes back empty only if the queue was empty when it was called.        *)
(***************************************************************************)
THEOREM FifoTheorem == Spec => ImplementsFifo
  <1>1. Init => Q!Abstract!FifoInit
    BY DEF Init, Q!Init, Q!Abstract!FifoInit
  <1>2. RingInv /\ [Next]_vars => [Q!Abstract!FifoNext]_(Q!Abstract!fifoVars)
    BY FifoStep DEF Q!Abstract!fifoVars
  <1> QED BY <1>1, <1>2, RingInvariant, PTL
          DEF Spec, ImplementsFifo, Q!ImplementsFifo, Q!Abstract!FifoSpec

-----------------------------------------------------------------------------

\* What the calls of the two threads leave between queue and semaphore.
Calls ==
  /\ toSignal \in BOOLEAN /\ toTake \in BOOLEAN
  /\ toSignal => ppc = "idle"
  /\ toTake => cpc = "idle" /\ wpc = "idle"
  /\ wpc # "idle" => cpc = "idle"
  /\ cpc # "idle" /\ op # "peek" => call = "some"
  /\ put - got = permits + (IF toSignal THEN 1 ELSE 0)
                         + (IF toTake \/ (cpc # "idle" /\ op # "peek") THEN 1 ELSE 0)

\* At first nothing is queued or signalled.
LEMMA InitCalls == Init => Calls
  <1> SUFFICES ASSUME Init PROVE Calls
    OBVIOUS
  <1>1. /\ ppc = "idle" /\ cpc = "idle" /\ wpc = "idle" /\ put = 0 /\ got = 0 /\ permits = 0
    BY DEF Init, Q!Init, S!Init
  <1>2. toSignal \in BOOLEAN /\ toTake \in BOOLEAN /\ ~toSignal /\ ~toTake
    BY DEF Init
  <1> QED BY <1>1, <1>2 DEF Calls

\* Every step of either thread keeps the account.
LEMMA CallsStep == RingInv /\ SemaphoreInv /\ Calls /\ [Next]_vars => Calls'
  <1> SUFFICES ASSUME RingInv, SemaphoreInv, Calls, [Next]_vars PROVE Calls'
    OBVIOUS
  <1>1. PICK w, r, base : Body(w, r, base)
    BY DEF RingInv
  <1>2. Shapes /\ ConsumerAt
    BY <1>1 DEF Body
  <1>3. /\ put \in Int /\ got \in Int /\ permits \in Int
        /\ toSignal \in BOOLEAN /\ toTake \in BOOLEAN
    BY <1>2, Constants DEF Shapes, SemaphoreInv, Typed, Calls
  <1>4. CASE Enqueue
    BY <1>4 DEF Enqueue, Q!EnqueueCall, Q!consumerVars, Q!historyVars, semaphoreVars, Calls
  <1>5. CASE EnqueueStep
    <2>1. /\ UNCHANGED <<semaphoreVars, toTake, cpc, op, call, got>> /\ ~toSignal
          /\ toSignal' \in BOOLEAN /\ (toSignal' <=> put' # put)
          /\ \/ put' = put
             \/ put' = put + 1 /\ ppc' = "idle"
      <3>1. ~toSignal
        BY <1>5 DEF Calls, EnqueueStep, Q!ProducerStep, Q!LoadFront, Q!Write, Q!Publish,
                    Q!TestNext, Q!UseNext, Q!WriteNext, Q!PublishNext, Q!Allocate,
                    Q!AllocateFails, Q!Link, Q!Advance
      <3>2. CASE Q!Publish \/ Q!Advance
        BY <1>5, <3>1, <3>2 DEF EnqueueStep, Q!Publish, Q!Advance, Q!consumerVars
      <3>3. CASE Q!LoadFront \/ Q!Write \/ Q!TestNext \/ Q!UseNext \/ Q!WriteNext
        BY <1>5, <3>1, <3>3
           DEF EnqueueStep, Q!LoadFront, Q!Write, Q!TestNext, Q!UseNext, Q!WriteNext,
               Q!consumerVars, Q!historyVars
      <3>4. CASE Q!PublishNext \/ Q!Allocate \/ Q!AllocateFails \/ Q!Link
        BY <1>5, <3>1, <3>4
           DEF EnqueueStep, Q!PublishNext, Q!Allocate, Q!AllocateFails, Q!Link,
               Q!consumerVars, Q!historyVars
      <3> QED BY <1>5, <3>2, <3>3, <3>4 DEF EnqueueStep, Q!ProducerStep
    <2> QED BY <1>3, <2>1 DEF Calls, semaphoreVars
  <1>6. CASE SignalElement
    <2>1. /\ toSignal /\ ~toSignal' /\ toSignal' \in BOOLEAN /\ permits' = permits + 1
          /\ UNCHANGED <<put, got, ppc, cpc, op, call, wpc, toTake>>
      BY <1>6 DEF SignalElement, S!Signal, queueVars
    <2> QED BY <1>3, <2>1 DEF Calls
  <1>7. CASE PostElement
    <2>1. UNCHANGED <<put, got, ppc, cpc, op, call, wpc, permits, toSignal, toTake>>
      BY <1>7 DEF PostElement, S!Post, queueVars
    <2> QED BY <2>1 DEF Calls
  <1>8. CASE WaitDequeue
    <2>1. /\ cpc = "idle" /\ ~toTake
          /\ UNCHANGED <<put, got, ppc, cpc, op, call, permits, toSignal, toTake>>
      BY <1>8 DEF WaitDequeue, S!WaitCall, queueVars
    <2> QED BY <2>1 DEF Calls
  <1>9. CASE WaitStep
    <2>1. /\ wpc # "idle" /\ answer = "none" /\ ~toTake /\ cpc = "idle"
          /\ UNCHANGED <<put, got, ppc, cpc, op, call, toSignal>>
          /\ toTake' \in BOOLEAN /\ (toTake' <=> answer' = "true")
      BY <1>9 DEF WaitStep, S!WaiterStep, S!Test, S!Take, S!Decrement, S!Wake, S!TimeOut,
                  S!Restore, S!Redo, S!TryWait, queueVars, Calls, SemaphoreInv, InProgress
    <2>2. \/ answer' = "true" /\ permits' = permits - 1 /\ wpc' = "idle"
          \/ answer' # "true" /\ permits' = permits
      BY <1>9, <2>1 DEF WaitStep, S!WaiterStep, S!Test, S!Take, S!Decrement, S!Wake, S!TimeOut,
                  S!Restore, S!Redo, S!TryWait, S!Acquired, S!TimedOut, S!GoTo,
                  S!FetchDecrement
    <2> QED BY <1>3, <2>1, <2>2 DEF Calls
  <1>10. CASE Dequeue
    <2>1. /\ toTake /\ ~toTake' /\ toTake' \in BOOLEAN
          /\ cpc = "idle" /\ cpc' # "idle" /\ op' # "peek"
          /\ call' = IF got < put THEN "some" ELSE "none"
          /\ UNCHANGED <<put, got, ppc, wpc, permits, toSignal>>
      BY <1>10 DEF Dequeue, Q!TryDequeueCall, Q!PopCall, Q!ConsumerCall, Q!producerVars,
                   semaphoreVars, Calls
    <2>2. permits \in Nat
      BY DEF SemaphoreInv, Typed
    <2>3. got < put
      BY <1>3, <2>1, <2>2 DEF Calls
    <2> QED BY <1>3, <2>1, <2>3 DEF Calls
  <1>11. CASE DequeueStep
    <2>1. /\ UNCHANGED <<semaphoreVars, toSignal, toTake, put, ppc, op>> /\ cpc # "idle"
          /\ \/ cpc' # "idle" /\ call' = call /\ got' = got
             \/ /\ cpc' = "idle"
                /\ \/ op = "peek" /\ got' = got
                   \/ op # "peek" /\ got' = got + 1
      <3>1. CASE Q!LoadTail \/ Q!Recheck
        BY <1>11, <3>1
           DEF DequeueStep, Q!LoadTail, Q!Recheck, Q!LoadTailInto, Q!producerVars, Q!historyVars
      <3>2. CASE Q!LoadNext \/ Q!LoadNextTail \/ Q!Leave
        BY <1>11, <3>2
           DEF DequeueStep, Q!LoadNext, Q!LoadNextTail, Q!Leave, Q!producerVars, Q!historyVars
      <3>3. CASE Q!TestTailBlock
        <4>1. op # "peek" => frontBlock # tailBlock
          BY <1>2, <3>3 DEF Q!TestTailBlock, ConsumerAt, Calls
        <4> QED BY <1>11, <3>3, <4>1 DEF DequeueStep, Q!TestTailBlock, Q!producerVars
      <3>4. CASE Q!TakeElement
        BY <1>11, <3>4 DEF DequeueStep, Q!TakeElement, Q!producerVars
      <3>5. CASE Q!Release
        BY <1>2, <1>11, <3>5 DEF DequeueStep, Q!Release, Q!producerVars, ConsumerAt
      <3> QED BY <1>11, <3>1, <3>2, <3>3, <3>4, <3>5 DEF DequeueStep, Q!ConsumerStep
    <2> QED BY <1>3, <2>1 DEF Calls, semaphoreVars
  <1>12. CASE Peek
    <2>1. /\ ~toTake /\ wpc = "idle" /\ cpc = "idle" /\ op' = "peek"
          /\ UNCHANGED <<put, got, ppc, wpc, permits, toSignal, toTake>>
      BY <1>12 DEF Peek, Q!PeekCall, Q!ConsumerCall, Q!producerVars, semaphoreVars
    <2> QED BY <1>3, <2>1 DEF Calls
  <1>13. CASE UNCHANGED vars
    BY <1>13 DEF vars, queueVars, semaphoreVars, Calls
  <1> QED BY <1>4, <1>5, <1>6, <1>7, <1>8, <1>9, <1>10, <1>11, <1>12, <1>13
             DEF Next, Producer, Consumer

(***************************************************************************)
(* What is in the queue is what has been signalled, but for the calls in   *)
(* progress, and a wait that has returned true is followed by a dequeue    *)
(* that finds an element (assert(success) of wait_dequeue and              *)
(* wait_dequeue_timed; the threads relay what it leaves in the message).   *)
(***************************************************************************)
THEOREM ElementsTheorem == Spec => []PermitsAreElements
  <1>1. RingInv /\ Calls => PermitsAreElements
    BY DEF RingInv, Body, ConsumerAt, Calls, PermitsAreElements
  <1>2. Spec => []SemaphoreInv
    BY Exact, SemaphoreTheorem, PTL
  <1> QED BY <1>1, <1>2, InitCalls, CallsStep, RingInvariant, PTL DEF Spec
=============================================================================
