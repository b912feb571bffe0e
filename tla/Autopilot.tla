----------------------------- MODULE Autopilot -----------------------------
(***************************************************************************)
(* Encapsulated data from the autopilot (server.cpp 36-202): its thread    *)
(* puts the three fragments of a set together and deciphers it with        *)
(* _kcmvpAriaGcm, in the buffer and on the device that the two GCS threads *)
(* use for TLS.  No flag or lock keeps the three uses apart.               *)
(*                                                                         *)
(* A use is begun and ended; what uses that overlap return is any outcome, *)
(* and they may leave an answer in the device, with which every later use  *)
(* is out of step (KseTransceive).  A use on its own does what the code    *)
(* says: the 430 bytes of the command overwrite the TLS records that       *)
(* _ksetlsTlsRead has left in the buffer for the next read, which begin    *)
(* behind one record of at most 320 bytes; gusTxRxDataLength is not        *)
(* touched.  The close notify and the close that end a session are uses    *)
(* like the others.  Filtered and relayed messages do nothing here         *)
(* (DimServer has the queue), but that a heartbeat ends the call.          *)
(***************************************************************************)
EXTENDS Integers

CONSTANTS
  MaxSets,     \* bound: sets of encapsulated data the autopilot sends
  MaxFails     \* bound: exchanges that fail by themselves

VARIABLES
  set, seq,     \* the fragment sent last
  halves,       \* encrypted_text: for each half the set it is of, 0 for other bytes
  uses,         \* the uses of the library under way
  over,         \* those of them that have overlapped another, or are out of step
  outOfStep,    \* the device has an answer left over
  tag,          \* the set whose last fragment came last
  plain,        \* plain_text: the set it is the text of, 0 for zeros, -1 for other bytes
  session,      \* what start_gcs_read_thread is at (Phases)
  kept,         \* what the buffer keeps for the next read: "none", "records", "spoiled"
  fails,        \* exchanges that have failed
  \* History.
  row,          \* fragments of set stored in a row in the present call
  whole,        \* the set of tag came as a whole, in one call
  disturbed,    \* its decryption overlapped another use, or its exchange failed
  gap,          \* records of the session have been thrown away
  causes,       \* what has happened to the session's input
  broken        \* the device has rejected a record of the session

lineVars == <<set, seq>>
textVars == <<halves, tag, plain, row, whole, disturbed>>
libVars == <<uses, over, outOfStep, fails>>
tlsVars == <<session, kept, gap, causes, broken>>
vars == <<lineVars, textVars, libVars, tlsVars>>

\* The reader closes a session with two uses, one after the other.
Uses == {"decrypt", "read", "write", "close"}

\* It waits for a session, serves one that is open or one that has failed (accept
\* reports success without a session, too), or is at the close notify or the close.
Phases == {"accept", "open", "failed", "notify", "closing"}
Other == -1

Init ==
  /\ set = 0 /\ seq = 2 /\ halves = [i \in 0 .. 1 |-> 0]
  /\ uses = {} /\ over = {} /\ outOfStep = FALSE /\ fails = 0
  /\ tag = 0 /\ plain = 0 /\ row = 0 /\ whole = FALSE /\ disturbed = FALSE
  /\ session = "accept" /\ kept = "none" /\ gap = FALSE /\ causes = {} /\ broken = FALSE

-----------------------------------------------------------------------------
(* A use of the library.                                                   *)

Begin(u) ==
  /\ u \notin uses /\ uses' = uses \cup {u}
  /\ over' = IF uses = {} /\ ~outOfStep THEN {} ELSE uses' \cup over
  /\ UNCHANGED <<outOfStep, fails>>

Leave(u) == uses' = uses \ {u} /\ over' = over \ {u}

\* The end of a use that was on its own.
EndAlone(u) == u \in uses \ over /\ Leave(u) /\ UNCHANGED <<outOfStep, fails>>

\* The end of one that failed by itself: its answer may still come.
EndFailed(u) ==
  /\ u \in uses \ over /\ Leave(u) /\ fails < MaxFails /\ fails' = fails + 1
  /\ outOfStep' \in BOOLEAN

\* The end of one that was not on its own.
EndMixed(u) ==
  /\ u \in over /\ Leave(u) /\ UNCHANGED fails
  /\ outOfStep' \in {TRUE, outOfStep}

\* What a command leaves of the kept records.
Spoiled == IF kept = "none" THEN "none" ELSE "spoiled"
SpoiledBy(cause) == causes' = causes \cup (IF kept = "none" THEN {} ELSE {cause})

\* After overlapping uses anything may be in the buffer.
Mixed ==
  /\ kept' \in {"none", "records", "spoiled"} /\ gap' \in BOOLEAN
  /\ causes' = causes \cup {"overlap"}

-----------------------------------------------------------------------------
(* autopilot_read_message.                                                 *)

\* The fragment after the last one, which comes in or is lost on the line.
NextFragment ==
  \/ seq = 2 /\ set < MaxSets /\ set' = set + 1 /\ seq' = 0
  \/ seq < 2 /\ set' = set /\ seq' = seq + 1

Reading == "decrypt" \notin uses

LoseFragment ==
  /\ Reading /\ NextFragment /\ row' = 0
  /\ UNCHANGED <<halves, tag, plain, whole, disturbed, libVars, tlsVars>>

\* The call returns; encrypted_text of the next one is not initialised.
Heartbeat ==
  /\ Reading /\ row' = 0
  /\ halves' \in [0 .. 1 -> {0, halves[0], halves[1]}]
  /\ \A i \in 0 .. 1 : halves'[i] \in {0, halves[i]}
  /\ UNCHANGED <<lineVars, tag, plain, whole, disturbed, libVars, tlsVars>>

Stored(i, n) == [halves EXCEPT ![i] = n]

\* seqnr 0 or 1.
StoreHalf ==
  /\ Reading /\ NextFragment /\ seq' < 2
  /\ halves' = Stored(seq', set')
  /\ row' = IF seq' = 0 THEN 1 ELSE IF row = 1 THEN 2 ELSE 0
  /\ UNCHANGED <<tag, plain, whole, disturbed, libVars, tlsVars>>

\* seqnr 2: IV, associated data and tag.
LastFragment ==
  /\ Reading /\ NextFragment /\ seq' = 2
  /\ tag' = set' /\ plain' = 0 /\ whole' = (row = 2) /\ row' = 0
  /\ Begin("decrypt")
  /\ UNCHANGED <<halves, disturbed, tlsVars>>

\* Mutant: the device is not asked to check the tag.
DecipheredUnchecked == IF halves[0] = tag /\ halves[1] = tag THEN tag ELSE Other

\* The device checks the tag; text that does not match it is an error, and
\* plain_text is left as it was.
Deciphered == IF halves[0] = tag /\ halves[1] = tag THEN tag ELSE plain

DecryptAlone ==
  /\ EndAlone("decrypt")
  /\ plain' = Deciphered /\ disturbed' = FALSE
  /\ kept' = Spoiled /\ SpoiledBy("decrypt")
  /\ UNCHANGED <<lineVars, halves, tag, row, whole, session, gap, broken>>

DecryptFails ==
  /\ EndFailed("decrypt") /\ disturbed' = TRUE
  /\ kept' = Spoiled /\ SpoiledBy("failure")
  /\ UNCHANGED <<lineVars, halves, tag, plain, row, whole, session, gap, broken>>

DecryptMixed ==
  /\ EndMixed("decrypt") /\ disturbed' = TRUE
  /\ plain' \in {plain, tag, Other} /\ Mixed
  /\ UNCHANGED <<lineVars, halves, tag, row, whole, session, broken>>

-----------------------------------------------------------------------------
(* The GCS threads: handshake, reads and the end by one, writes by the     *)
(* other, whose test of the connection's status may be long before.        *)

TlsBegin(u) ==
  /\ (u = "read" => session \in {"accept", "open", "failed"}) /\ Begin(u)
  /\ UNCHANGED <<lineVars, textVars, tlsVars>>

\* Mutant: _ksetlsOpen leaves the kept input of the session before.
HandshakeEndKeeps ==
  /\ session = "accept" /\ EndAlone("read")
  /\ session' \in {"accept", "open", "failed"} /\ broken' = FALSE /\ causes' = {}
  /\ UNCHANGED <<lineVars, textVars, kept, gap>>

\* The session begins, perhaps with records that came behind the handshake's.
HandshakeEnd ==
  /\ session = "accept" /\ EndAlone("read")
  /\ session' \in {"accept", "open", "failed"} /\ broken' = FALSE /\ causes' = {}
  /\ gap' = FALSE /\ kept' \in {"none", "records"}
  /\ UNCHANGED <<lineVars, textVars>>

\* The device accepts a record that is the next one, and rejects any other.
ReadEnd ==
  /\ session = "open" /\ EndAlone("read")
  /\ IF kept = "spoiled" \/ gap
     THEN broken' = TRUE /\ session' = "failed" /\ kept' = "none"
     ELSE kept' \in {"none", "records"} /\ UNCHANGED <<session, broken>>
  /\ UNCHANGED <<lineVars, textVars, gap, causes>>

\* There is nothing to read in a session that has failed.
ReadFailed ==
  /\ session = "failed" /\ EndAlone("read") /\ kept' = "none"
  /\ UNCHANGED <<lineVars, textVars, session, gap, causes, broken>>

\* A write that succeeds gives the kept records up.
WriteEnd ==
  /\ EndAlone("write")
  /\ kept' = "none" /\ gap' = (gap \/ kept # "none") /\ SpoiledBy("write")
  /\ UNCHANGED <<lineVars, textVars, session, broken>>

\* Where a handshake or a read that goes wrong may leave the reader.
AfterBadUse(u) == IF u = "read" THEN {session, "failed", "accept"} ELSE {session}

TlsFails(u) ==
  /\ EndFailed(u) /\ kept' = Spoiled /\ gap' \in {TRUE, gap}
  /\ session' \in AfterBadUse(u) /\ causes' = causes \cup {"failure"}
  /\ UNCHANGED <<lineVars, textVars, broken>>

TlsMixed(u) ==
  /\ EndMixed(u) /\ Mixed
  /\ session' \in AfterBadUse(u) \cup (IF u = "read" THEN {"open"} ELSE {})
  /\ broken' \in {session = "open" /\ session' # "open", broken}
  /\ UNCHANGED <<lineVars, textVars>>

-----------------------------------------------------------------------------
(* The end of a session.                                                   *)

Serving == session \in {"open", "failed"} /\ "read" \notin uses

\* A read returned an error: the reader goes back to accept, the library unused.
SessionLost ==
  /\ Serving /\ session' = "accept"
  /\ UNCHANGED <<lineVars, textVars, libVars, kept, gap, causes, broken>>

\* A fatal alert or no data for long: tls_close_notify, and then close.
SessionEnds ==
  /\ Serving /\ session' = "notify" /\ Begin("close")
  /\ UNCHANGED <<lineVars, textVars, kept, gap, causes, broken>>

CloseBegins ==
  /\ session = "closing" /\ Begin("close")
  /\ UNCHANGED <<lineVars, textVars, tlsVars>>

\* The command of one of them is over; its result is ignored.
CloseEnds ==
  /\ session' = (IF session = "notify" THEN "closing" ELSE "accept")
  /\ \/ EndAlone("close") /\ kept' \in {"none", Spoiled} /\ UNCHANGED <<gap, causes>>
     \/ EndFailed("close") /\ kept' = Spoiled /\ UNCHANGED <<gap, causes>>
     \/ EndMixed("close") /\ Mixed
  /\ UNCHANGED <<lineVars, textVars, broken>>

-----------------------------------------------------------------------------

AutopilotStep ==
  LoseFragment \/ Heartbeat \/ StoreHalf \/ LastFragment
    \/ DecryptAlone \/ DecryptFails \/ DecryptMixed

GcsStep ==
  \/ HandshakeEnd \/ ReadEnd \/ ReadFailed \/ WriteEnd
  \/ SessionLost \/ SessionEnds \/ CloseBegins \/ CloseEnds
  \/ \E u \in {"read", "write"} : TlsBegin(u) \/ TlsFails(u) \/ TlsMixed(u)

Next == AutopilotStep \/ GcsStep

Spec == Init /\ [][Next]_vars

-----------------------------------------------------------------------------

TypeOK ==
  /\ set \in 0 .. MaxSets /\ seq \in 0 .. 2 /\ halves \in [0 .. 1 -> 0 .. set]
  /\ uses \subseteq Uses /\ over \subseteq uses /\ outOfStep \in BOOLEAN
  /\ tag \in 0 .. set /\ plain \in {Other, 0, tag} /\ fails \in 0 .. MaxFails
  /\ session \in Phases /\ kept \in {"none", "records", "spoiled"}
  /\ row \in 0 .. 2 /\ whole \in BOOLEAN /\ disturbed \in BOOLEAN /\ gap \in BOOLEAN
  /\ causes \subseteq {"decrypt", "write", "overlap", "failure"} /\ broken \in BOOLEAN

\* The last decryption has ended, and was on its own.
Undisturbed == Reading /\ tag # 0 /\ ~disturbed

(***************************************************************************)
(* A set that comes as a whole is deciphered, if no other use of the       *)
(* library overlaps, the close notify and the close of a session included, *)
(* whatever was stored before it: halves of sets that lost a fragment, or  *)
(* of the call before.                                                     *)
(***************************************************************************)
WholeDeciphered == Undisturbed /\ whole => plain = tag

(***************************************************************************)
(* What is shown is the text of the set or zeros: no mixture of two sets,  *)
(* no text of an earlier one.                                              *)
(***************************************************************************)
NoOtherText == Undisturbed => plain \in {0, tag}

(***************************************************************************)
(* A session's input is rejected only after uses overlapped in it (or did  *)
(* before, and left the device out of step), an exchange failed, or a      *)
(* decryption or a write met records kept for the next read.               *)
(***************************************************************************)
LossExplained == broken => causes # {}
=============================================================================
