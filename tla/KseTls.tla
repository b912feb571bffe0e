------------------------------- MODULE KseTls -------------------------------
(***************************************************************************)
(* The TLS functions of the kse library (_ksetlsOpen ... _ksetlsClose) and *)
(* the input they keep between calls.  One read of the socket may bring    *)
(* several TLS records; the device parses the first one, and the library   *)
(* leaves the others in gabTxRxData, at gusTxRxDataOffset, for the next    *)
(* call.  Every other call uses the same buffer.                           *)
(*                                                                         *)
(* A step is one call, or one round of a handshake: calls do not overlap   *)
(* here (DimServer is about those that do).  The order of the calls is the *)
(* one of DimServer and DimClient: open and handshake on each connection,  *)
(* reads when the socket has input, no read after a read error.  Records   *)
(* of a connection are numbered as the peer sends them, the first          *)
(* HsRecords of them in the handshake, in flights: a peer sends the        *)
(* records of a flight, and data behind the last flight, without waiting.  *)
(* The device accepts record after record, rejects what is out of sequence *)
(* or no record, and uses nothing more on a connection once it has         *)
(* reported an internal error (0x6xxx).                                    *)
(*                                                                         *)
(* Left out: the end of the stream, alerts and close notifies of the peer  *)
(* (DimServer has them), records cut by the end of the buffer, and what    *)
(* is written, of which only the effect on the kept input matters.         *)
(***************************************************************************)
EXTENDS Naturals

CONSTANTS
  HsRecords,   \* handshake records the peer sends
  FlightEnds,  \* those after which the peer waits for the answer
  Batch,       \* records that fit in one read of MAX_IO_DATA_SIZE bytes
  MaxConns,    \* bound: connections
  MaxRecords   \* bound: records per connection

ASSUME KseTlsAssumption ==
  /\ HsRecords \in Nat \ {0} /\ FlightEnds \subseteq 1 .. HsRecords
  /\ Batch \in Nat \ {0}
  /\ MaxConns \in Nat /\ MaxRecords \in Nat

VARIABLES
  phase,       \* where the program is with the present connection
  hsInput,     \* bNextInput of the handshake
  conn,        \* connections so far
  sent,        \* records the peer has sent on the present one
  taken,       \* of these, read from the socket
  restLen,     \* records in the kept input (gusTxRxDataLength)
  restFirst,   \* number of the first of them
  restConn,    \* the connection they came from
  spoiled,     \* another call has overwritten them
  dev,         \* state of the channel in the device
  devNext,     \* the record the device expects next
  ret,         \* kind of the last result
  \* History.
  delivered,   \* last record handed to the program
  failed,      \* the device or the socket has failed on the connection
  dropped,     \* a call has thrown kept input away
  rejected     \* the device rejected the record of the last read

restVars == <<restLen, restFirst, restConn, spoiled>>
vars == <<phase, hsInput, conn, sent, taken, restVars, dev, devNext, ret,
          delivered, failed, dropped, rejected>>

Phases == {"closed", "opened", "handshake", "session", "failed"}

Init ==
  /\ phase = "closed" /\ hsInput = FALSE
  /\ conn = 0 /\ sent = 0 /\ taken = 0
  /\ restLen = 0 /\ restFirst = 0 /\ restConn = 0 /\ spoiled = FALSE
  /\ dev = "none" /\ devNext = 1 /\ ret = "none"
  /\ delivered = 0 /\ failed = FALSE /\ dropped = FALSE /\ rejected = FALSE

-----------------------------------------------------------------------------
(* The input of a call.                                                    *)

\* Mutant: the kept input does not go first.
HeadOfSocket == taken + 1

\* The kept input goes first; only without any is the socket read.
Head == IF restLen > 0 THEN restFirst ELSE taken + 1
Source == IF restLen > 0 THEN restConn ELSE conn

\* k records are in the buffer.
TakeInput(k) ==
  \/ restLen > 0 /\ k = restLen /\ UNCHANGED taken
  \/ restLen = 0 /\ taken + k <= sent /\ taken' = taken + k

\* The first record of the input is the one the device expects.
InSequence ==
  /\ dev \in {"handshake", "up"} /\ Head = devNext
  /\ restLen > 0 => restConn = conn /\ ~spoiled

\* The device has used the first of k records; the others are kept.  Its answer
\* leaves them whole: a read's is shorter than the record used, and a handshake
\* is answered at the end of a flight, when there are no others.
KeepUnused(k) ==
  /\ restLen' = k - 1 /\ restFirst' = Head + 1 /\ restConn' = Source
  /\ UNCHANGED spoiled

KeepNothing == restLen' = 0 /\ spoiled' = FALSE /\ UNCHANGED <<restFirst, restConn>>

\* A call left early: the length stands, the bytes may be overwritten.
KeepStale ==
  /\ spoiled' = spoiled \/ spoiled' = (spoiled \/ restLen > 0)
  /\ UNCHANGED <<restLen, restFirst, restConn>>

-----------------------------------------------------------------------------
(* _ksetlsOpen on a new connection.  The server's handshake begins with    *)
(* input, the client's without; nothing else depends on the role.          *)

NewConnection ==
  /\ phase \in {"closed", "failed"} /\ conn < MaxConns
  /\ conn' = conn + 1 /\ sent' = 0 /\ taken' = 0 /\ delivered' = 0
  /\ hsInput' \in BOOLEAN /\ devNext' = 1
  /\ dropped' = FALSE /\ rejected' = FALSE

\* Mutant: the kept input of the connection before survives.
OpenKeeps ==
  /\ NewConnection
  /\ phase' = "opened" /\ dev' = "handshake" /\ ret' = "ok" /\ failed' = FALSE
  /\ UNCHANGED restVars

Open ==
  /\ NewConnection
  /\ phase' = "opened" /\ dev' = "handshake" /\ ret' = "ok" /\ failed' = FALSE
  /\ KeepNothing

\* The exchange with the device fails, or the device refuses.
OpenFails ==
  /\ NewConnection
  /\ phase' = "closed" /\ dev' = "none" /\ ret' = "error" /\ failed' = TRUE
  /\ KeepStale \/ KeepNothing

-----------------------------------------------------------------------------
(* A round of _ksetlsTlsServerHandshake or _ksetlsTlsClientHandshake.      *)

\* The device has seen the record numbered n - 1 last and has answered.  It
\* asks for a round without input only when it has left none unused.
HandshakeGoesOn(n, unused) ==
  /\ devNext' = n
  /\ \/ /\ hsInput' \in BOOLEAN /\ (unused > 0 => hsInput') /\ n <= HsRecords
        /\ phase' = "handshake" /\ dev' = "handshake" /\ ret' = "none"
     \/ /\ hsInput' = FALSE /\ n > HsRecords /\ unused = 0
        /\ phase' = "handshake" /\ dev' = "handshake" /\ ret' = "none"
     \/ /\ n > HsRecords /\ UNCHANGED hsInput
        /\ phase' = "session" /\ dev' = "up" /\ ret' = "ok"

HandshakeInput ==
  /\ phase \in {"opened", "handshake"} /\ hsInput /\ InSequence
  /\ \E k \in 1 .. Batch :
       /\ TakeInput(k)
       /\ KeepUnused(k)
       /\ HandshakeGoesOn(Head + 1, k - 1)
  /\ delivered' = Head
  /\ UNCHANGED <<conn, sent, failed, dropped, rejected>>

\* A round without input also ends with gusTxRxDataLength = 0.
HandshakeOutput ==
  /\ phase \in {"opened", "handshake"} /\ ~hsInput
  /\ HandshakeGoesOn(devNext, 0)
  /\ KeepNothing
  /\ UNCHANGED <<conn, sent, taken, delivered, failed, dropped, rejected>>

\* The device refuses the peer (its certificate, its proposal), with an alert to
\* send and unused input, or without.
HandshakeRefuses ==
  /\ phase \in {"opened", "handshake"} /\ hsInput
  /\ \E k \in 1 .. Batch : TakeInput(k) /\ (KeepNothing \/ KeepUnused(k))
  /\ phase' = "failed" /\ dev' = "dead" /\ ret' = "error"
  /\ UNCHANGED <<hsInput, conn, sent, devNext, delivered, failed, dropped, rejected>>

\* The device reports an internal error: positive, and taken for success.
HandshakeInternal ==
  /\ phase \in {"opened", "handshake"}
  /\ \/ hsInput /\ \E k \in 1 .. Batch : TakeInput(k) /\ (KeepNothing \/ KeepUnused(k))
     \/ ~hsInput /\ UNCHANGED taken /\ KeepNothing
  /\ phase' = "session" /\ dev' = "dead" /\ ret' = "ok" /\ failed' = TRUE
  /\ UNCHANGED <<hsInput, conn, sent, devNext, delivered, dropped, rejected>>

\* The exchange with the device fails, or the answer cannot be sent: what was
\* read from the socket is gone, and the length of the kept input stands.
HandshakeFails ==
  /\ phase \in {"opened", "handshake"}
  /\ IF hsInput THEN \E k \in 1 .. Batch : TakeInput(k) ELSE UNCHANGED taken
  /\ KeepStale
  /\ phase' = "failed" /\ ret' = "error" /\ failed' = TRUE
  /\ devNext' \in {devNext, devNext + 1}
  /\ UNCHANGED <<hsInput, conn, sent, dev, delivered, dropped, rejected>>

-----------------------------------------------------------------------------
(* _ksetlsTlsRead, called when poll finds input in the socket.             *)

ReadCalled == phase = "session" /\ taken < sent

Read ==
  /\ ReadCalled /\ InSequence
  /\ \E k \in 1 .. Batch : TakeInput(k) /\ KeepUnused(k)
  /\ delivered' = Head /\ devNext' = Head + 1
  /\ ret' = "data" /\ rejected' = FALSE
  /\ UNCHANGED <<phase, hsInput, conn, sent, dev, failed, dropped>>

\* Mutant: the kept input is not given up with a rejected record.
ReadRejectsKeeps ==
  /\ ReadCalled /\ ~InSequence
  /\ \E k \in 1 .. Batch : TakeInput(k)
  /\ dev' = "dead" /\ ret' = "zero" /\ rejected' = TRUE
  /\ UNCHANGED <<phase, restVars, hsInput, conn, sent, devNext, delivered, failed, dropped>>

\* The device rejects the record.  With an alert to send, the result is that of
\* the alert command, 0; without one it is the error, which ends the session.
ReadRejects ==
  /\ ReadCalled /\ ~InSequence
  /\ \E k \in 1 .. Batch : TakeInput(k)
  /\ KeepNothing
  /\ dev' = "dead" /\ rejected' = TRUE
  /\ \/ ret' = "zero" /\ UNCHANGED phase
     \/ ret' = "error" /\ phase' = "failed"
  /\ UNCHANGED <<hsInput, conn, sent, devNext, delivered, failed, dropped>>

\* The device reports an internal error: positive, and taken for data.  If it asks
\* for an alert, the result is that of the alert command: 0, or a positive code
\* again, and the function is left before the length is cleared.
ReadInternal ==
  /\ ReadCalled
  /\ \E k \in 1 .. Batch : TakeInput(k)
  /\ \/ ret' = "data" /\ (KeepNothing \/ KeepStale)
     \/ ret' = "zero" /\ KeepNothing
  /\ dev' = "dead" /\ failed' = TRUE /\ rejected' = FALSE
  /\ UNCHANGED <<phase, hsInput, conn, sent, devNext, delivered, dropped>>

\* Mutant: the program reads on after an error.
ReadFailsOn ==
  /\ ReadCalled
  /\ \E k \in 1 .. Batch : TakeInput(k)
  /\ KeepStale
  /\ ret' = "error" /\ failed' = TRUE /\ rejected' = FALSE
  /\ devNext' \in {devNext, devNext + 1}
  /\ UNCHANGED <<phase, hsInput, conn, sent, dev, delivered, dropped>>

\* The exchange with the device fails, before or after the device has used the
\* record; what was read from the socket is gone.
ReadFails ==
  /\ ReadCalled
  /\ \E k \in 1 .. Batch : TakeInput(k)
  /\ KeepStale
  /\ phase' = "failed" /\ ret' = "error" /\ failed' = TRUE /\ rejected' = FALSE
  /\ devNext' \in {devNext, devNext + 1}
  /\ UNCHANGED <<hsInput, conn, sent, dev, delivered, dropped>>

-----------------------------------------------------------------------------
(* _ksetlsTlsWrite, _ksetlsTlsCloseNotify and _ksetlsClose.                *)

\* A write, or a close notify, that succeeds clears gusTxRxDataLength.
Write ==
  /\ phase \in {"session", "failed"} /\ dev = "up"
  /\ dropped' = (dropped \/ restLen > 0)
  /\ KeepNothing
  /\ ret' = "data" /\ rejected' = FALSE
  /\ UNCHANGED <<phase, hsInput, conn, sent, taken, dev, devNext, delivered, failed>>

\* One that fails has used the buffer, and returns before the length is cleared.
\* accept publishes a connection whose handshake failed: writes come there too.
WriteFails ==
  /\ phase \in {"session", "failed"}
  /\ KeepStale
  /\ ret' = "error" /\ failed' = TRUE /\ rejected' = FALSE
  /\ UNCHANGED <<phase, hsInput, conn, sent, taken, dev, devNext, delivered, dropped>>

Close ==
  /\ phase \in {"session", "failed"}
  /\ phase' = "closed"
  /\ \/ dev' = "none" /\ ret' = "ok" /\ KeepNothing
     \/ dev' = dev /\ ret' = "error" /\ KeepStale
  /\ rejected' = FALSE
  /\ UNCHANGED <<hsInput, conn, sent, taken, devNext, delivered, failed, dropped>>

-----------------------------------------------------------------------------

\* At the end of a flight the peer waits until the device has used it.
PeerSends ==
  /\ phase # "closed" /\ sent < MaxRecords
  /\ sent \in FlightEnds => devNext = sent + 1
  /\ sent' = sent + 1
  /\ UNCHANGED <<phase, hsInput, conn, taken, restVars, dev, devNext, ret,
                 delivered, failed, dropped, rejected>>

Handshake ==
  \/ HandshakeInput \/ HandshakeOutput \/ HandshakeRefuses \/ HandshakeInternal
  \/ HandshakeFails

ReadStep == Read \/ ReadRejects \/ ReadInternal \/ ReadFails

Next ==
  \/ Open \/ OpenFails \/ Handshake \/ ReadStep \/ Write \/ WriteFails \/ Close
  \/ PeerSends

Spec == Init /\ [][Next]_vars

\* The program calls the library again and again while the socket has input.
FairSpec == Spec /\ WF_vars(ReadStep)

-----------------------------------------------------------------------------

\* Counters: no more is kept than one read can bring.
CountTypes ==
  /\ conn \in 0 .. MaxConns /\ sent \in 0 .. MaxRecords /\ taken \in 0 .. sent
  /\ restLen \in 0 .. Batch - 1 /\ restFirst \in Nat /\ restConn \in 0 .. conn
  /\ devNext \in Nat \ {0} /\ delivered \in Nat

\* States and flags.
StateTypes ==
  /\ phase \in Phases /\ dev \in {"none", "handshake", "up", "dead"}
  /\ ret \in {"none", "ok", "data", "zero", "error"}
  /\ hsInput \in BOOLEAN /\ spoiled \in BOOLEAN /\ failed \in BOOLEAN
  /\ dropped \in BOOLEAN /\ rejected \in BOOLEAN

\* Every variable has its type, and the buffer never holds more than it can.
TypeOK == CountTypes /\ StateTypes

(***************************************************************************)
(* Kept input never crosses connections: what a handshake or a read finds  *)
(* in the buffer was read from the present connection, right before what   *)
(* the socket still holds.  _ksetlsOpen fails without clearing the length, *)
(* but no handshake follows it then.                                       *)
(***************************************************************************)
RestIsCurrent ==
  phase \in {"opened", "handshake", "session"} /\ restLen > 0 =>
    restConn = conn /\ restFirst + restLen = taken + 1

(***************************************************************************)
(* The device rejects a record of a correct peer for two reasons only: the *)
(* device or the socket has failed on the connection before, or a write    *)
(* (or close notify) that succeeded has thrown away kept input.  The       *)
(* bookkeeping of unused input itself loses and repeats nothing.           *)
(***************************************************************************)
RejectionExplained == rejected => failed \/ dropped

(***************************************************************************)
(* The library implements a channel that delivers in order or breaks.      *)
(***************************************************************************)
Channel ==
  INSTANCE TlsChannel WITH put <- sent, got <- delivered,
    whole <- phase \in {"opened", "handshake", "session"} /\ dev \in {"handshake", "up"}

ImplementsChannel == Channel!ChannelSpec

(***************************************************************************)
(* A program that goes on reading empties the socket or ends the session:  *)
(* kept input delays what is behind it, spoiled input too, but not for     *)
(* ever.  The exception is a device that answers a read with a positive    *)
(* code again and again: the function leaves the kept input in place, and  *)
(* the program, which takes the code for data, parses it again each time.  *)
(***************************************************************************)
PositiveAgain == dev = "dead" /\ ret = "data"

SocketDrained ==
  \/ []<>PositiveAgain
  \/ phase = "session" /\ taken < sent ~> phase # "session" \/ taken = sent

-----------------------------------------------------------------------------

\* kse_ubuntu.c, _ksetlsTlsRead: "Return Value  : KSE_SUCCESS(0) / KSE_FAIL...(<0)":
\* on a connection where no call has failed, 0 is not the result of a rejection.
ZeroIsSuccess == ret = "zero" /\ ~failed => ~rejected
=============================================================================
