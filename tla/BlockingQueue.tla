---------------------------- MODULE BlockingQueue ----------------------------
(***************************************************************************)
(* BlockingReaderWriterQueue (readerwriterqueue.h): the queue of messages  *)
(* from one thread of server or client to another.  It composes SpscQueue  *)
(* and LightweightSemaphore: an element is enqueued, then signalled; the   *)
(* consumer waits for a signal, then dequeues.                             *)
(*                                                                         *)
(* The consumer threads call it in an endless loop, with a timeout         *)
(* (wait_dequeue_timed) or, for the messages to the GCS in the client,     *)
(* without one (wait_dequeue).  try_dequeue and pop are the same with      *)
(* tryWait; peek waits for nothing, and the threads do not call it alone.  *)
(***************************************************************************)
EXTENDS Integers

CONSTANTS FirstSize, MaxSize, MaxBlocks, MaxElements, MaxPermits

ASSUME BlockingQueueAssumption ==
  /\ FirstSize \in Nat /\ MaxSize \in Nat /\ 1 < FirstSize /\ FirstSize <= MaxSize
  /\ \E sizes \in SUBSET (FirstSize .. MaxSize) :  \* both are powers of two
       FirstSize \in sizes /\ \A s \in sizes : s < MaxSize => 2 * s \in sizes
  /\ MaxBlocks \in Nat \ {0} /\ MaxElements \in Nat
  /\ MaxPermits \in Nat /\ MaxElements <= MaxPermits

VARIABLES
  front, tail, localFront, localTail, next, size, data,
  frontBlock, tailBlock, largestBlockSize, blockCount,
  ppc, canAlloc, newBlock, cpc, op, block, item, put, got, out, call,
  count, sema, wpc, mode, spc, answer, permits,
  toSignal,  \* the producer is between inner.enqueue and sema->signal
  toTake     \* the consumer is between sema->wait and inner.try_dequeue

Q == INSTANCE SpscQueue
S == INSTANCE LightweightSemaphore

queueVars == <<front, tail, localFront, localTail, next, size, data,
               frontBlock, tailBlock, largestBlockSize, blockCount,
               ppc, canAlloc, newBlock, cpc, op, block, item, put, got, out, call>>
semaphoreVars == <<count, sema, wpc, mode, spc, answer, permits>>
vars == <<queueVars, semaphoreVars, toSignal, toTake>>

Init == Q!Init /\ S!Init /\ toSignal = FALSE /\ toTake = FALSE

-----------------------------------------------------------------------------

\* enqueue or try_enqueue of inner, and sema->signal if it has succeeded.
Enqueue ==
  /\ ~toSignal /\ spc = "idle"
  /\ \E alloc \in BOOLEAN : Q!EnqueueCall(alloc)
  /\ UNCHANGED <<semaphoreVars, toSignal, toTake>>

EnqueueStep ==
  /\ Q!ProducerStep
  /\ toSignal' = (put' # put)
  /\ UNCHANGED <<semaphoreVars, toTake>>

\* Mutant: the second of two elements in a row is not signalled.
SignalOnlyWhenEmpty ==
  /\ toSignal /\ toSignal' = FALSE
  /\ IF put - got > 1 THEN UNCHANGED semaphoreVars ELSE S!Signal
  /\ UNCHANGED <<queueVars, toTake>>

SignalElement ==
  /\ toSignal /\ S!Signal
  /\ toSignal' = FALSE
  /\ UNCHANGED <<queueVars, toTake>>

PostElement == S!Post /\ UNCHANGED <<queueVars, toSignal, toTake>>

\* wait_dequeue, wait_dequeue_timed, try_dequeue, pop.
WaitDequeue ==
  /\ cpc = "idle" /\ ~toTake
  /\ \E m \in S!Modes : S!WaitCall(m)
  /\ UNCHANGED <<queueVars, toSignal, toTake>>

WaitStep ==
  /\ S!WaiterStep
  /\ toTake' = (answer' = "true")
  /\ UNCHANGED <<queueVars, toSignal>>

Dequeue ==
  /\ toTake
  /\ Q!TryDequeueCall \/ (mode = "try" /\ Q!PopCall)
  /\ toTake' = FALSE
  /\ UNCHANGED <<semaphoreVars, toSignal>>

DequeueStep == Q!ConsumerStep /\ UNCHANGED <<semaphoreVars, toSignal, toTake>>

Peek ==
  /\ ~toTake /\ wpc = "idle"
  /\ Q!PeekCall
  /\ UNCHANGED <<semaphoreVars, toSignal, toTake>>

Producer == EnqueueStep \/ SignalElement \/ PostElement
Consumer == WaitDequeue \/ WaitStep \/ Dequeue \/ DequeueStep \/ Peek

Next == Enqueue \/ Producer \/ Consumer

Spec == Init /\ [][Next]_vars

\* Both threads run; the consumer's loop dequeues again and again, the producer
\* may stop calling.
FairSpec == Spec /\ WF_vars(Producer) /\ WF_vars(Consumer) /\ SF_vars(WaitDequeue)

-----------------------------------------------------------------------------

(***************************************************************************)
(* Of the ring (SpscQueue): both threads can rely on it, and it implements *)
(* Fifo: nothing is lost, repeated or reordered.                           *)
(***************************************************************************)
RingIntact == Q!RingIntact
ImplementsFifo == Q!ImplementsFifo

(***************************************************************************)
(* Of the semaphore (LightweightSemaphore): time-outs that race a signal   *)
(* lose no permit and leave none over.                                     *)
(***************************************************************************)
PermitsExact == S!PermitsExact

(***************************************************************************)
(* What is in the queue is what has been signalled, but for the calls in   *)
(* progress: size_approx, which reads the semaphore alone, does not drift. *)
(* So a wait that has returned true is followed by a try_dequeue that      *)
(* finds an element, which is the assertion "success" of try_dequeue,      *)
(* wait_dequeue and wait_dequeue_timed (without it an uninitialised        *)
(* message is relayed).                                                    *)
(***************************************************************************)
PermitsAreElements ==
  /\ put - got = permits + (IF toSignal THEN 1 ELSE 0)
                         + (IF toTake \/ (cpc # "idle" /\ op # "peek") THEN 1 ELSE 0)
  /\ cpc = "testTailBlock" /\ op # "peek" => frontBlock # tailBlock

(***************************************************************************)
(* Every element that was enqueued is delivered, whatever the time-outs.   *)
(***************************************************************************)
EveryElementDelivered == \A n \in 1 .. MaxElements : put = n ~> got >= n
=============================================================================
