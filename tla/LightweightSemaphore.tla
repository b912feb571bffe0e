------------------------ MODULE LightweightSemaphore ------------------------
(***************************************************************************)
(* The semaphore of the queues between the threads (atomicops.h): a count  *)
(* that the signaller raises and the waiter lowers, and below it a kernel  *)
(* semaphore, used only when the waiter has to sleep.  One thread waits,   *)
(* one signals, and each step is one atomic operation.                     *)
(*                                                                         *)
(* The hard part is a wait that times out: it has to give its decrement    *)
(* back, unless a signal has seen it and is about to post (or has posted)  *)
(* the kernel semaphore; then it must take that post.                      *)
(*                                                                         *)
(* A failed test of the count and the 1024 further tests of the spin loop  *)
(* are one: the step Test is the last of them, the others change nothing.  *)
(***************************************************************************)
EXTENDS Integers

CONSTANT MaxPermits  \* bound: signals not yet used up

VARIABLES
  count,    \* m_count
  sema,     \* value of m_sema
  wpc,      \* where the waiter is
  mode,     \* "try": tryWait, "timed": wait(timeout), "forever": wait()
  spc,      \* where the signaller is
  answer,   \* result of the last wait, "none" while it runs
  permits   \* history: signals so far less waits that returned true

semaphoreVars == <<count, sema, wpc, mode, spc, answer, permits>>

Modes == {"try", "timed", "forever"}

Init ==
  /\ count = 0 /\ sema = 0 /\ wpc = "idle" /\ mode = "try"
  /\ spc = "idle" /\ answer = "none" /\ permits = 0

-----------------------------------------------------------------------------
(* The waiter.                                                             *)

Acquired == wpc' = "idle" /\ answer' = "true" /\ permits' = permits - 1
TimedOut == wpc' = "idle" /\ answer' = "false" /\ UNCHANGED permits
GoTo(place) == wpc' = place /\ UNCHANGED <<answer, permits>>

\* fetch_add(-1), which the caller follows with a decision about the old count.
FetchDecrement == count' = count - 1 /\ UNCHANGED <<sema, mode, spc>>

WaitCall(m) ==
  /\ wpc = "idle"
  /\ mode' = m /\ wpc' = "test" /\ answer' = "none"
  /\ UNCHANGED <<count, sema, spc, permits>>

Test ==
  /\ wpc = "test"
  /\ \/ count > 0 /\ GoTo("take")
     \/ count <= 0 /\ mode = "try" /\ TimedOut
     \/ count <= 0 /\ mode # "try" /\ GoTo("decrement")
  /\ UNCHANGED <<count, sema, mode, spc>>

Take ==
  /\ wpc = "take"
  /\ FetchDecrement /\ Acquired

Decrement ==
  /\ wpc = "decrement"
  /\ FetchDecrement
  /\ IF count > 0 THEN Acquired ELSE GoTo("sleep")

Wake ==
  /\ wpc = "sleep" /\ sema > 0
  /\ sema' = sema - 1 /\ Acquired
  /\ UNCHANGED <<count, mode, spc>>

\* The kernel may report the timeout although a post has just come.
TimeOut ==
  /\ wpc = "sleep" /\ mode = "timed"
  /\ GoTo("restore")
  /\ UNCHANGED <<count, sema, mode, spc>>

Restore ==
  /\ wpc = "restore"
  /\ count' = count + 1
  /\ IF count < 0 THEN TimedOut ELSE GoTo("redo")
  /\ UNCHANGED <<sema, mode, spc>>

\* Mutant: the kernel semaphore is not asked.
RedoWithoutTryWait ==
  /\ wpc = "redo"
  /\ FetchDecrement
  /\ IF count > 0 THEN Acquired ELSE GoTo("restore")

Redo ==
  /\ wpc = "redo"
  /\ FetchDecrement
  /\ GoTo(IF count > 0 THEN "trywait" ELSE "restore")

TryWait ==
  /\ wpc = "trywait"
  /\ IF sema > 0 THEN sema' = sema - 1 /\ Acquired
                 ELSE UNCHANGED sema /\ GoTo("restore")
  /\ UNCHANGED <<count, mode, spc>>

-----------------------------------------------------------------------------
(* The signaller.                                                          *)

\* Mutant: the kernel semaphore is posted only if the waiter was counted twice.
SignalRarely ==
  /\ spc = "idle" /\ permits < MaxPermits
  /\ count' = count + 1 /\ permits' = permits + 1
  /\ spc' = IF count < -1 THEN "post" ELSE "idle"
  /\ UNCHANGED <<sema, wpc, mode, answer>>

Signal ==
  /\ spc = "idle" /\ permits < MaxPermits
  /\ count' = count + 1 /\ permits' = permits + 1
  /\ spc' = IF count < 0 THEN "post" ELSE "idle"
  /\ UNCHANGED <<sema, wpc, mode, answer>>

Post ==
  /\ spc = "post"
  /\ sema' = sema + 1 /\ spc' = "idle"
  /\ UNCHANGED <<count, wpc, mode, answer, permits>>

-----------------------------------------------------------------------------

WaiterStep ==
  Test \/ Take \/ Decrement \/ Wake \/ TimeOut \/ Restore \/ Redo \/ TryWait

Next ==
  \/ \E m \in Modes : WaitCall(m)
  \/ WaiterStep
  \/ Signal \/ Post

Spec == Init /\ [][Next]_semaphoreVars

-----------------------------------------------------------------------------

Counted == {"sleep", "restore", "trywait"}  \* where the waiter's decrement is in count

\* Every variable has its type; the waiter is counted at most once, which is
\* also what signal asserts of the old count (assert(oldCount >= -1)).
TypeOK ==
  /\ count \in -1 .. MaxPermits /\ sema \in {0, 1} /\ permits \in 0 .. MaxPermits
  /\ wpc \in {"idle", "test", "take", "decrement", "sleep", "restore", "redo", "trywait"}
  /\ mode \in Modes /\ spc \in {"idle", "post"} /\ answer \in {"none", "true", "false"}

(***************************************************************************)
(* Nothing is lost and nothing is left over.  The count is what signals    *)
(* have given and waits have not taken, less a decrement in progress; and  *)
(* a post, due or done, is there exactly while a waiter is bound to take   *)
(* it, so that no later wait returns for a signal of the past.             *)
(***************************************************************************)
PermitsExact ==
  /\ permits = count + (IF wpc \in Counted THEN 1 ELSE 0)
  /\ sema + (IF spc = "post" THEN 1 ELSE 0) =
       (IF wpc \in Counted \cup {"redo"} /\ permits > 0 THEN 1 ELSE 0)

(***************************************************************************)
(* A wait that returns false has not missed a signal: there is none at the *)
(* moment it gives up, however late in the time-out one has come.          *)
(***************************************************************************)
FalseMeansNoPermit ==
  [][answer = "none" /\ answer' = "false" => permits = 0]_semaphoreVars
=============================================================================
