-------------------------------- MODULE Fifo --------------------------------
(***************************************************************************)
(* What a queue between two threads promises: one thread appends elements, *)
(* the other takes or looks at the oldest one.  Elements are numbered in   *)
(* the order in which they are appended.  A call of the consumer may come  *)
(* back empty only if the queue was empty when it was made.                *)
(***************************************************************************)
EXTENDS Naturals

VARIABLES
  put,   \* elements appended so far
  got,   \* elements taken so far
  out,   \* the element last handed to the consumer
  call   \* the consumer's call: "idle", or "some"/"none": was there an element

fifoVars == <<put, got, out, call>>

FifoInit == put = 0 /\ got = 0 /\ out = 0 /\ call = "idle"

Append1 == put' = put + 1 /\ UNCHANGED <<got, out, call>>

Call ==
  /\ call = "idle"
  /\ call' = IF got < put THEN "some" ELSE "none"
  /\ UNCHANGED <<put, got, out>>

Take ==
  /\ call # "idle" /\ got < put
  /\ got' = got + 1 /\ out' = got + 1 /\ call' = "idle"
  /\ UNCHANGED put

Look ==
  /\ call # "idle" /\ got < put
  /\ out' = got + 1 /\ call' = "idle"
  /\ UNCHANGED <<put, got>>

Miss ==
  /\ call = "none" /\ call' = "idle"
  /\ UNCHANGED <<put, got, out>>

FifoNext == Append1 \/ Call \/ Take \/ Look \/ Miss

FifoSpec == FifoInit /\ [][FifoNext]_fifoVars
=============================================================================
