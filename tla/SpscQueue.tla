------------------------------ MODULE SpscQueue ------------------------------
(***************************************************************************)
(* ReaderWriterQueue (readerwriterqueue.h): the queue without locks under  *)
(* the message queues of the threads.  It is a ring of blocks, each a ring *)
(* of slots.  The producer owns the tails, the consumer the fronts; each   *)
(* reads the other's when its own copy (localFront, localTail) says that   *)
(* the block is full, or empty.  A full block is followed by the next one, *)
(* unless the consumer is still there; then a new block goes in between.   *)
(*                                                                         *)
(* One thread enqueues, one dequeues.  A step is one load or store of a    *)
(* field that both threads use, or of a slot, with what the thread does    *)
(* to its own fields.  Loads and stores take effect in the order of the    *)
(* program, which is what the fences of the code are there for.            *)
(***************************************************************************)
EXTENDS Integers

CONSTANTS
  FirstSize,   \* slots of the first block
  MaxSize,     \* MAX_BLOCK_SIZE
  MaxBlocks,   \* bound: blocks there is memory for
  MaxElements  \* bound: elements enqueued

VARIABLES
  \* Block
  front, tail, localFront, localTail, next, size,
  data,         \* slot -> number of the element, 0 for none
  \* ReaderWriterQueue
  frontBlock, tailBlock, largestBlockSize,
  blockCount,   \* blocks made so far
  \* The producer.
  ppc, canAlloc,
  newBlock,     \* tailBlockNext or newBlock
  \* The consumer.
  cpc, op,
  block,        \* the block it takes the element from
  item,         \* the element it has moved out
  \* History.
  put, got, out, call

ringVars == <<next, size, frontBlock, tailBlock, largestBlockSize, blockCount>>
blockVars == <<front, tail, localFront, localTail, data, ringVars>>
producerVars == <<ppc, canAlloc, newBlock>>
consumerVars == <<cpc, op, block, item>>
historyVars == <<put, got, out, call>>
queueVars == <<blockVars, producerVars, consumerVars, historyVars>>

Blocks == 1 .. MaxBlocks
Slots == 0 .. MaxSize - 1
Ops == {"try_dequeue", "pop", "peek"}

Succ(b, i) == (i + 1) % size[b]

\* The constructor, with one block (a queue of the default size).
Init ==
  /\ front = [b \in Blocks |-> 0] /\ tail = [b \in Blocks |-> 0]
  /\ localFront = [b \in Blocks |-> 0] /\ localTail = [b \in Blocks |-> 0]
  /\ next = [b \in Blocks |-> 1] /\ size = [b \in Blocks |-> FirstSize]
  /\ data = [b \in Blocks |-> [i \in Slots |-> 0]]
  /\ frontBlock = 1 /\ tailBlock = 1 /\ largestBlockSize = FirstSize /\ blockCount = 1
  /\ ppc = "idle" /\ canAlloc = TRUE /\ newBlock = 1
  /\ cpc = "idle" /\ op = "try_dequeue" /\ block = 1 /\ item = 0
  /\ put = 0 /\ got = 0 /\ out = 0 /\ call = "idle"

-----------------------------------------------------------------------------
(* The producer.  Its element is put + 1.                                  *)

HasRoom(lf) == Succ(tailBlock, tail[tailBlock]) # lf

\* enqueue and try_enqueue, which differ in canAlloc.
EnqueueCall(alloc) ==
  /\ ppc = "idle" /\ put < MaxElements
  /\ canAlloc' = alloc
  /\ ppc' = IF HasRoom(localFront[tailBlock]) THEN "write" ELSE "loadFront"
  /\ UNCHANGED <<blockVars, newBlock, consumerVars, historyVars>>

LoadFront ==
  /\ ppc = "loadFront"
  /\ localFront' = [localFront EXCEPT ![tailBlock] = front[tailBlock]]
  /\ ppc' = IF HasRoom(front[tailBlock]) THEN "write" ELSE "testNext"
  /\ UNCHANGED <<front, tail, localTail, data, ringVars, canAlloc, newBlock,
                 consumerVars, historyVars>>

Write ==
  /\ ppc = "write"
  /\ data' = [data EXCEPT ![tailBlock][tail[tailBlock]] = put + 1]
  /\ ppc' = "publish"
  /\ UNCHANGED <<front, tail, localFront, localTail, ringVars, canAlloc, newBlock,
                 consumerVars, historyVars>>

Publish ==
  /\ ppc = "publish"
  /\ tail' = [tail EXCEPT ![tailBlock] = Succ(tailBlock, @)]
  /\ put' = put + 1
  /\ ppc' = "idle"
  /\ UNCHANGED <<front, localFront, localTail, data, ringVars, canAlloc, newBlock,
                 consumerVars, got, out, call>>

\* The tail block is full.
TestNext ==
  /\ ppc = "testNext"
  /\ ppc' = IF next[tailBlock] # frontBlock THEN "useNext"
            ELSE IF canAlloc THEN "allocate" ELSE "idle"
  /\ UNCHANGED <<blockVars, canAlloc, newBlock, consumerVars, historyVars>>

UseNext ==
  /\ ppc = "useNext"
  /\ newBlock' = next[tailBlock]
  /\ localFront' = [localFront EXCEPT ![newBlock'] = front[newBlock']]
  /\ ppc' = "writeNext"
  /\ UNCHANGED <<front, tail, localTail, data, ringVars, canAlloc, consumerVars,
                 historyVars>>

WriteNext ==
  /\ ppc = "writeNext"
  /\ data' = [data EXCEPT ![newBlock][tail[newBlock]] = put + 1]
  /\ ppc' = "publishNext"
  /\ UNCHANGED <<front, tail, localFront, localTail, ringVars, canAlloc, newBlock,
                 consumerVars, historyVars>>

PublishNext ==
  /\ ppc = "publishNext"
  /\ tail' = [tail EXCEPT ![newBlock] = Succ(newBlock, @)]
  /\ ppc' = "advance"
  /\ UNCHANGED <<front, localFront, localTail, data, ringVars, canAlloc, newBlock,
                 consumerVars, historyVars>>

\* Mutant: the new block does not lead back into the ring.
AllocateUnlinked ==
  /\ ppc = "allocate" /\ blockCount < MaxBlocks
  /\ largestBlockSize' = IF largestBlockSize >= MaxSize THEN largestBlockSize
                                                        ELSE 2 * largestBlockSize
  /\ blockCount' = blockCount + 1 /\ newBlock' = blockCount + 1
  /\ size' = [size EXCEPT ![newBlock'] = largestBlockSize']
  /\ data' = [data EXCEPT ![newBlock'][0] = put + 1]
  /\ tail' = [tail EXCEPT ![newBlock'] = 1]
  /\ localTail' = [localTail EXCEPT ![newBlock'] = 1]
  /\ next' = [next EXCEPT ![newBlock'] = newBlock']
  /\ ppc' = "link"
  /\ UNCHANGED <<front, localFront, frontBlock, tailBlock, canAlloc, consumerVars,
                 historyVars>>

\* A new block, twice as large up to MAX_BLOCK_SIZE, with the element in it.
\* Nobody else can see it before Link.
Allocate ==
  /\ ppc = "allocate" /\ blockCount < MaxBlocks
  /\ largestBlockSize' = IF largestBlockSize >= MaxSize THEN largestBlockSize
                                                        ELSE 2 * largestBlockSize
  /\ blockCount' = blockCount + 1 /\ newBlock' = blockCount + 1
  /\ size' = [size EXCEPT ![newBlock'] = largestBlockSize']
  /\ data' = [data EXCEPT ![newBlock'][0] = put + 1]
  /\ tail' = [tail EXCEPT ![newBlock'] = 1]
  /\ localTail' = [localTail EXCEPT ![newBlock'] = 1]
  /\ next' = [next EXCEPT ![newBlock'] = next[tailBlock]]
  /\ ppc' = "link"
  /\ UNCHANGED <<front, localFront, frontBlock, tailBlock, canAlloc, consumerVars,
                 historyVars>>

\* make_block returns nullptr, and enqueue false.
AllocateFails ==
  /\ ppc = "allocate"
  /\ ppc' = "idle"
  /\ UNCHANGED <<blockVars, canAlloc, newBlock, consumerVars, historyVars>>

Link ==
  /\ ppc = "link"
  /\ next' = [next EXCEPT ![tailBlock] = newBlock]
  /\ ppc' = "advance"
  /\ UNCHANGED <<front, tail, localFront, localTail, data, size, frontBlock, tailBlock,
                 largestBlockSize, blockCount, canAlloc, newBlock, consumerVars, historyVars>>

\* The block, and with it the element, becomes visible.
Advance ==
  /\ ppc = "advance"
  /\ tailBlock' = newBlock
  /\ put' = put + 1
  /\ ppc' = "idle"
  /\ UNCHANGED <<front, tail, localFront, localTail, data, next, size, frontBlock,
                 largestBlockSize, blockCount, canAlloc, newBlock, consumerVars, got, out, call>>

ProducerStep ==
  \/ LoadFront \/ Write \/ Publish \/ TestNext \/ UseNext \/ WriteNext \/ PublishNext
  \/ Allocate \/ AllocateFails \/ Link \/ Advance

-----------------------------------------------------------------------------
(* The consumer.                                                           *)

\* A call begins: try_dequeue, pop or peek.
ConsumerCall(o) ==
  /\ cpc = "idle"
  /\ op' = o /\ block' = frontBlock
  /\ call' = IF got < put THEN "some" ELSE "none"
  /\ cpc' = IF front[frontBlock] # localTail[frontBlock] THEN "take" ELSE "loadTail"
  /\ UNCHANGED <<blockVars, producerVars, item, put, got, out>>

TryDequeueCall == ConsumerCall("try_dequeue")
PopCall == ConsumerCall("pop")
PeekCall == ConsumerCall("peek")

\* The load of the tail of the front block, into localTail.
LoadTailInto(where, empty) ==
  /\ cpc = where
  /\ localTail' = [localTail EXCEPT ![frontBlock] = tail[frontBlock]]
  /\ cpc' = IF front[frontBlock] # tail[frontBlock] THEN "take" ELSE empty
  /\ UNCHANGED <<front, tail, localFront, data, ringVars, producerVars, op, block, item,
                 historyVars>>

LoadTail == LoadTailInto("loadTail", "testTailBlock")

\* The front block seemed empty; was the tail block another one?
TestTailBlock ==
  /\ cpc = "testTailBlock"
  /\ IF frontBlock # tailBlock
       THEN cpc' = "recheck" /\ UNCHANGED call
       ELSE cpc' = "idle" /\ call' = "idle"
  /\ UNCHANGED <<blockVars, producerVars, op, block, item, put, got, out>>

\* It was: then the tail of the front block is final, and has to be read again.
\* Mutant: it is not read again.
RecheckNot ==
  /\ cpc = "recheck"
  /\ cpc' = "loadNext"
  /\ UNCHANGED <<blockVars, producerVars, op, block, item, historyVars>>

Recheck == LoadTailInto("recheck", "loadNext")

LoadNext ==
  /\ cpc = "loadNext"
  /\ block' = next[frontBlock]
  /\ cpc' = "loadNextTail"
  /\ UNCHANGED <<blockVars, producerVars, op, item, historyVars>>

\* peek looks into the next block and stays where it is.
LoadNextTail ==
  /\ cpc = "loadNextTail"
  /\ IF op = "peek" THEN UNCHANGED localTail /\ cpc' = "take"
     ELSE localTail' = [localTail EXCEPT ![block] = tail[block]] /\ cpc' = "leave"
  /\ UNCHANGED <<front, tail, localFront, data, ringVars, producerVars, op, block, item,
                 historyVars>>

\* The producer may now use the old front block.
Leave ==
  /\ cpc = "leave"
  /\ frontBlock' = block
  /\ cpc' = "take"
  /\ UNCHANGED <<front, tail, localFront, localTail, data, next, size, tailBlock,
                 largestBlockSize, blockCount, producerVars, op, block, item, historyVars>>

\* Move the element out and destroy it, or return a pointer to it.
TakeElement ==
  /\ cpc = "take"
  /\ item' = data[block][front[block]]
  /\ IF op = "peek"
       THEN cpc' = "idle" /\ call' = "idle" /\ out' = item' /\ UNCHANGED data
       ELSE cpc' = "release" /\ data' = [data EXCEPT ![block][front[block]] = 0]
            /\ UNCHANGED <<call, out>>
  /\ UNCHANGED <<front, tail, localFront, localTail, ringVars, producerVars, op, block,
                 put, got>>

\* The slot is free.
Release ==
  /\ cpc = "release"
  /\ front' = [front EXCEPT ![frontBlock] = Succ(frontBlock, @)]
  /\ got' = got + 1 /\ out' = item /\ call' = "idle"
  /\ cpc' = "idle"
  /\ UNCHANGED <<tail, localFront, localTail, data, ringVars, producerVars, op, block, item,
                 put>>

ConsumerStep ==
  \/ LoadTail \/ TestTailBlock \/ Recheck \/ LoadNext \/ LoadNextTail \/ Leave
  \/ TakeElement \/ Release

-----------------------------------------------------------------------------

Positions == [Blocks -> Slots]

\* Every variable has its type.
TypeOK ==
  /\ front \in Positions /\ tail \in Positions
  /\ localFront \in Positions /\ localTail \in Positions
  /\ next \in [Blocks -> Blocks] /\ size \in [Blocks -> FirstSize .. MaxSize]
  /\ data \in [Blocks -> [Slots -> 0 .. MaxElements]]
  /\ frontBlock \in 1 .. blockCount /\ tailBlock \in 1 .. blockCount
  /\ largestBlockSize \in FirstSize .. MaxSize /\ blockCount \in Blocks
  /\ ppc \in {"idle", "loadFront", "write", "publish", "testNext", "useNext", "writeNext",
              "publishNext", "allocate", "link", "advance"}
  /\ cpc \in {"idle", "loadTail", "testTailBlock", "recheck", "loadNext", "loadNextTail",
              "leave", "take", "release"}
  /\ canAlloc \in BOOLEAN /\ newBlock \in 1 .. blockCount
  /\ op \in Ops /\ block \in 1 .. blockCount /\ item \in 0 .. MaxElements
  /\ put \in 0 .. MaxElements /\ got \in 0 .. put /\ out \in 0 .. put
  /\ call \in {"idle", "some", "none"}

(***************************************************************************)
(* The two threads never use one slot at the same time, and what the       *)
(* producer constructs never replaces an element that is still there.      *)
(***************************************************************************)
NoSlotRace ==
  LET target == IF ppc = "write" THEN tailBlock ELSE newBlock
  IN ppc \in {"write", "writeNext"} =>
       /\ data[target][tail[target]] = 0
       /\ ~(cpc = "take" /\ block = target /\ front[block] = tail[target])

(***************************************************************************)
(* The assertions of the code: the block after a full one is empty when    *)
(* the producer enters it (inner_enqueue), and not empty when the consumer *)
(* does (try_dequeue, pop, peek).                                          *)
(***************************************************************************)
AssertionsHold ==
  /\ ppc = "useNext" => front[next[tailBlock]] = tail[next[tailBlock]]
  /\ cpc = "loadNextTail" => front[block] # tail[block]

(***************************************************************************)
(* The blocks always form one ring, also between the two stores that put a *)
(* new block into it, and those before the front block and behind the tail *)
(* block are empty: size_approx, which runs around the ring in either      *)
(* thread, ends and counts what is there.                                  *)
(***************************************************************************)
BlocksFormRing ==
  LET linked == IF ppc = "link" THEN blockCount - 1 ELSE blockCount
      walk[k \in 0 .. linked] == IF k = 0 THEN frontBlock ELSE next[walk[k - 1]]
  IN /\ {walk[k] : k \in 0 .. linked - 1} = 1 .. linked /\ walk[linked] = frontBlock
     /\ \A k, t \in 0 .. linked - 1 :
          walk[t] = tailBlock /\ k > t /\ ~(ppc = "advance" /\ walk[k] = newBlock) =>
            front[walk[k]] = tail[walk[k]]

\* The ring is what both threads rely on it to be.
RingIntact == TypeOK /\ NoSlotRace /\ AssertionsHold /\ BlocksFormRing

(***************************************************************************)
(* The queue implements Fifo: it loses, repeats and reorders nothing, and  *)
(* comes back empty only when it was.                                      *)
(***************************************************************************)
Abstract == INSTANCE Fifo

ImplementsFifo == Abstract!FifoSpec
=============================================================================
