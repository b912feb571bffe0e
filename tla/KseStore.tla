------------------------------ MODULE KseStore -----------------------------
(***************************************************************************)
(* The commands of the kse library that write the device's nonvolatile     *)
(* memory or read it: each is one exchange.  The memory has slots, for     *)
(* keys, certificates and regions of a file; the device carries out a      *)
(* command it gets, or refuses.                                            *)
(***************************************************************************)
EXTENDS KseExchange

VARIABLES
  store,   \* device: what is in each slot
  \* History.
  told,    \* what the host has last been told is in each slot
  last     \* the last command sent: its length, the slots it writes, the size of
           \* the caller's array and how much of it was written

vars == <<exchangeVars, ret, store, told, last>>

\* What a slot holds.  The host may know nothing of it, or have been told of
\* it what is true of another.
Content(n, v) == [size |-> n, value |-> v]
Empty == Content(0, "EMPTY")
Unknown == Content(0, "UNKNOWN")
Other == Content(0, "OTHER")
\* The value of a key whose size is not taken from the host (KseKeys).
SizeIgnored == "GENERATED HMAC KEY"

NoCommand == [n |-> 0, slots |-> {}, room |-> 0, copied |-> 0]

InitWith(memory) ==
  /\ ExchangeInit /\ store = memory
  /\ told = [s \in DOMAIN memory |-> Unknown]
  /\ last = NoCommand

-----------------------------------------------------------------------------

\* What f holds, and what else g holds (TLC's @@, which the prover lacks).
Over(f, g) ==
  [s \in DOMAIN f \cup DOMAIN g |-> IF s \in DOMAIN f THEN f[s] ELSE g[s]]

NoExchange == UNCHANGED <<exchangeVars, store, told>>

\* A command of n bytes that makes the device write new and is answered
\* without data.  The host has asked for "asked", and after a failure it
\* cannot know.
Store(inputOk, n, new, asked) ==
  /\ IF Guarded(inputOk) # Success
     THEN ret' = Guarded(inputOk) /\ NoExchange /\ last' = NoCommand
     ELSE \E done \in BOOLEAN :
          \E x \in Exchanges(n, IF done THEN Done ELSE Refusal, done) :
            /\ ExchangeWith(x)
            /\ store' = IF done THEN Over(new, store) ELSE store
            /\ ret' = StatusOf(x.got, {2})
            /\ told' = Over(IF ret' = Success THEN asked
                            ELSE [s \in DOMAIN asked |-> Unknown], told)
            /\ last' = [n |-> n, slots |-> DOMAIN new, room |-> 0, copied |-> 0]

\* Mutant: the size of the caller's array is not looked at.
CopiedAll(n, array) == n

\* Of n bytes, how many are copied to an array.
Copied(n, array) == IF n < array THEN n ELSE array

\* A command of n bytes that returns data about slots to an array.
Fetch(inputOk, n, okLens, answers, array, slots) ==
  IF Guarded(inputOk) # Success
  THEN ret' = Guarded(inputOk) /\ NoExchange /\ last' = NoCommand
  ELSE \E own \in answers \cup {Refusal} :
       \E x \in Exchanges(n, own, FALSE) :
         /\ ExchangeWith(x) /\ UNCHANGED store
         /\ ret' = StatusOf(x.got, okLens)
         /\ told' = IF ret' = Success
                    THEN Over([s \in slots |-> IF s \in DOMAIN x.got.data THEN x.got.data[s]
                                               ELSE Other], told)
                    ELSE told
         /\ last' = [n |-> n, slots |-> {}, room |-> array,
                     copied |-> IF ret' = Success THEN Copied(x.got.usLen - 2, array) ELSE 0]

\* One that accepts answers of a single length, and whose array has it.
FetchExactly(inputOk, n, size, answers, slots) ==
  Fetch(inputOk, n, {size + 2}, answers, size, slots)

-----------------------------------------------------------------------------

(***************************************************************************)
(* Nothing is written beyond the caller's array, whatever report is late   *)
(* and whatever its length.                                                *)
(***************************************************************************)
NoOverrun == last.copied <= last.room

\* The host has been told what is in a slot, but perhaps for the size of an
\* HMAC key that the device has made.
ToldTrue(s) ==
  \/ told[s] = store[s]
  \/ told[s].value = SizeIgnored /\ store[s].value = SizeIgnored

(***************************************************************************)
(* As long as no transfer has failed, the host is right about every slot   *)
(* it knows of: after put, generate, get and erase in any order the device *)
(* holds what the result says.  One thing is excepted: the size of an HMAC *)
(* key the device has generated is not the one the host asked for          *)
(* (GeneratedSize).                                                        *)
(***************************************************************************)
KnownIsStored == ~failed => \A s \in DOMAIN store : told[s] = Unknown \/ ToldTrue(s)

(***************************************************************************)
(* After a failed transfer the success of a command that writes is true if *)
(* it has more than one block (public keys, certificates, the info file),  *)
(* by the acknowledgements, and if it leaves no report unread in the       *)
(* device.  So a short one (other keys, erasing) that was refused counts   *)
(* as carried out only while the host reads one answer behind.             *)
(***************************************************************************)
SuccessIsTrue ==
  ret = Success /\ (IsLong(last.n) \/ late = NoReport) => \A s \in last.slots : ToldTrue(s)

(***************************************************************************)
(* What the documentation of _kcmvpGenerateKey says of usHmacKeySize       *)
(* (kse_ubuntu.c 1073-1074): as long as no transfer has failed, a key has  *)
(* the size that the host has asked for.                                   *)
(***************************************************************************)
GeneratedSize ==
  ~failed => \A s \in DOMAIN store : told[s] = Unknown \/ told[s].size = store[s].size
=============================================================================
