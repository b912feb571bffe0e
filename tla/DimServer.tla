----------------------------- MODULE DimServer -----------------------------
(***************************************************************************)
(* The GCS side of mavlink_dim_server: the thread that accepts a ground    *)
(* control station and reads from it (start_gcs_read_thread) and the       *)
(* thread that sends autopilot messages to it (start_gcs_write_thread).    *)
(* Both use one DimSocket: its status and error fields, its descriptor     *)
(* _fd, the flags on_read and on_write that are meant to keep a TLS read   *)
(* and a TLS write apart, and below it the kse library, whose functions    *)
(* share the buffer gabTxRxData and no lock.                               *)
(*                                                                         *)
(* A step reads or writes one shared field, or enters or leaves one        *)
(* library function.  Connections are numbered in the order accepted; a    *)
(* descriptor is a number the kernel hands out again once it is closed.    *)
(* What the network, the USB device and the peer may do is left open.      *)
(*                                                                         *)
(* Left out: _tls_write_error and dim_writing_status (written, but never   *)
(* read except to choose a sleep), the process exit on SIGINT, a message   *)
(* dequeued while is_connected() is false, which changes nothing, and the  *)
(* autopilot thread, a third user of the library's buffer when it deciphers*)
(* encapsulated data (server.cpp:121).                                     *)
(***************************************************************************)
EXTENDS Integers, Sequences

CONSTANTS
  MaxConns,     \* bound: connections that clients open
  MaxFd,        \* descriptors the process may still open (EMFILE beyond)
  NoDataLimit,  \* the 5000 of start_gcs_read_thread
  MaxInput      \* bound: records and closes the peers send in all

ASSUME DimServerAssumption ==
  /\ MaxConns \in Nat /\ MaxFd \in Nat \ {0}
  /\ NoDataLimit \in Nat /\ MaxInput \in Nat

VARIABLES
  rpc,          \* where the reader thread is
  rres,         \* result of its last library call
  noData,       \* no_data_count, a local of the reader thread
  wpc,          \* where the writer thread is
  wfd,          \* socketDesc argument of the TlsWrite under way
  wrec,         \* session that sealed the record in the buffer, 0 for none
  connStatus,   \* DimSocket::_connection_status
  fd,           \* DimSocket::_fd
  pollFd,       \* fds[0].fd, copied by init_poll
  readErr,      \* _tls_read_error
  onRead,       \* on_read
  onWrite,      \* on_write
  fdTable,      \* kernel: descriptor -> connection, 0 when closed
  tls,          \* device: descriptor -> connection it shares keys with, or 0
  clash,        \* threads whose library call met the other one in the library
  accepted,     \* connections accepted so far
  inbox,        \* what the newest connection's peer sent and nobody read yet
  budget,       \* inputs the peers may still send
  \* History, read by no guard.
  ended,        \* how the reader thread left each connection
  entries,      \* TlsWrite calls begun during the reader's present call
  failed,       \* the last connection whose read failed for good, 0 for none
  spunErr,      \* what `failed' was when the writer left its spin for this message
  strays        \* session -> its records that went to another connection

readerVars == <<rpc, rres, noData>>
writerVars == <<wpc, wfd, wrec>>
kernelVars == <<fdTable, accepted>>
peerVars == <<inbox, budget>>
ghostVars == <<ended, entries, failed, spunErr, strays>>
vars == <<readerVars, writerVars, connStatus, fd, pollFd, readErr, onRead,
          onWrite, kernelVars, tls, clash, peerVars, ghostVars>>

Fds == 1 .. MaxFd
Conns == 1 .. MaxConns
Kinds == {"msg", "part", "bad", "notify", "alert", "fin"}
FinalFailures == {"alert", "error"}          \* those that end the session
Failures == FinalFailures \cup {"notify"}
ReadResults == {"data", "part", "zero"} \cup Failures

\* Positions of the reader thread.
InSession == {"initPoll", "recv", "poll", "tlsRead", "setErr", "lowerRead",
              "closeNotify", "disconnect", "closeFd"}
ReaderCalls == {"tlsOpen", "handshake", "tlsRead", "closeNotify", "tlsClose"}
ReaderPcs == InSession \cup ReaderCalls \cup {"accept", "listen", "publish", "clearErr"}

\* Positions of the writer thread.
WriterCalls == {"encrypt", "transmit"}
WriterPcs == WriterCalls \cup
  {"idle", "send", "err1", "spin", "err2", "raise", "call", "lower"}

ReaderInKse == rpc \in ReaderCalls
WriterInKse == wpc \in WriterCalls
Readable == inbox # <<>>

Init ==
  /\ rpc = "accept" /\ rres = "none" /\ noData = 0
  /\ wpc = "idle" /\ wfd = 0 /\ wrec = 0
  /\ connStatus = "DISCONNECTED" /\ fd = 0 /\ pollFd = 0 /\ readErr = 0
  /\ onRead = FALSE /\ onWrite = FALSE
  /\ fdTable = [f \in Fds |-> 0] /\ tls = [f \in Fds |-> 0]
  /\ clash = {} /\ accepted = 0 /\ inbox = <<>> /\ budget = MaxInput
  /\ ended = [c \in Conns |-> "open"] /\ entries = 0 /\ failed = 0 /\ spunErr = 0
  /\ strays = [c \in Conns |-> 0]

-----------------------------------------------------------------------------
(* The reader thread: accept, the session loop, close.                     *)

\* The reader thread is about to run a function of the library.
ReaderEnters ==
  /\ clash' = IF WriterInKse THEN {"R", "W"} ELSE {}
  /\ entries' = 0

ReaderLeaves == clash' = clash \ {"R"}

\* DimServer::accept marks the socket disconnected before it waits.
Accept ==
  /\ rpc = "accept"
  /\ connStatus' = "DISCONNECTED"
  /\ rpc' = "listen"
  /\ UNCHANGED <<rres, noData, writerVars, fd, pollFd, readErr, onRead, onWrite,
                 kernelVars, tls, clash, peerVars, ghostVars>>

\* ::accept returns the lowest free descriptor and accept goes on to _ksetlsOpen.
AcceptConn ==
  /\ rpc = "listen" /\ accepted < MaxConns
  /\ \E f \in Fds :
       /\ fdTable[f] = 0
       /\ \A g \in Fds : fdTable[g] = 0 => f <= g
       /\ fd' = f
       /\ fdTable' = [fdTable EXCEPT ![f] = accepted + 1]
  /\ accepted' = accepted + 1
  /\ inbox' = <<>>
  /\ rpc' = "tlsOpen"
  /\ ReaderEnters
  /\ UNCHANGED <<rres, noData, writerVars, connStatus, pollFd, readErr, onRead,
                 onWrite, tls, budget, ended, failed, spunErr, strays>>

\* ::accept fails (descriptors used up, connection aborted): _fd becomes -1.
AcceptFails ==
  /\ rpc = "listen"
  /\ fd' = -1
  /\ rpc' = "accept"
  /\ UNCHANGED <<rres, noData, writerVars, connStatus, pollFd, readErr, onRead,
                 onWrite, kernelVars, tls, clash, peerVars, ghostVars>>

\* _ksetlsOpen succeeds; the handshake follows at once.
TlsOpenOk ==
  /\ rpc = "tlsOpen"
  /\ tls' = [tls EXCEPT ![fd] = 0]
  /\ rpc' = "handshake"
  /\ ReaderEnters
  /\ UNCHANGED <<rres, noData, writerVars, connStatus, fd, pollFd, readErr, onRead,
                 onWrite, kernelVars, peerVars, ended, failed, spunErr, strays>>

\* _ksetlsOpen fails: accept returns -1 and leaves the descriptor open.
TlsOpenFails ==
  /\ rpc = "tlsOpen"
  /\ ended' = [ended EXCEPT ![accepted] = "refused"]
  /\ rpc' = "accept"
  /\ ReaderLeaves
  /\ UNCHANGED <<rres, noData, writerVars, connStatus, fd, pollFd, readErr, onRead,
                 onWrite, kernelVars, tls, peerVars, entries, failed, spunErr, strays>>

\* _ksetlsTlsServerHandshake returns 0, a negative code, or one of the positive
\* 0x6xxx codes of the device, which every caller takes for success.
HandshakeReturns ==
  /\ rpc = "handshake"
  /\ \E r \in {"ok", "internal", "fail"} :
       /\ rres' = r
       /\ tls' = IF r = "ok" THEN [tls EXCEPT ![fd] = accepted] ELSE tls
  /\ rpc' = "publish"
  /\ ReaderLeaves
  /\ UNCHANGED <<noData, writerVars, connStatus, fd, pollFd, readErr, onRead,
                 onWrite, kernelVars, peerVars, ghostVars>>

\* Whatever the handshake returned, accept sets the status to CONNECTED ...
Publish ==
  /\ rpc = "publish"
  /\ connStatus' = "CONNECTED"
  /\ rpc' = "clearErr"
  /\ UNCHANGED <<rres, noData, writerVars, fd, pollFd, readErr, onRead, onWrite,
                 kernelVars, tls, clash, peerVars, ghostVars>>

\* ... clears the error and returns the result; a negative one means accept again.
ClearErr ==
  /\ rpc = "clearErr"
  /\ readErr' = 0
  /\ IF rres = "fail"
       THEN /\ rpc' = "accept"
            /\ ended' = [ended EXCEPT ![accepted] = "refused"]
       ELSE rpc' = "initPoll" /\ UNCHANGED ended
  /\ UNCHANGED <<rres, noData, writerVars, connStatus, fd, pollFd, onRead, onWrite,
                 kernelVars, tls, clash, peerVars, entries, failed, spunErr, strays>>

\* Mutant: the pollfd is filled once and kept.
InitPollOnce ==
  /\ rpc = "initPoll"
  /\ pollFd' = IF pollFd = 0 THEN fd ELSE pollFd
  /\ rpc' = "recv"
  /\ UNCHANGED <<rres, noData, writerVars, connStatus, fd, readErr, onRead, onWrite,
                 kernelVars, tls, clash, peerVars, ghostVars>>

InitPoll ==
  /\ rpc = "initPoll"
  /\ pollFd' = fd
  /\ rpc' = "recv"
  /\ UNCHANGED <<rres, noData, writerVars, connStatus, fd, readErr, onRead, onWrite,
                 kernelVars, tls, clash, peerVars, ghostVars>>

\* DimSocket::recv raises on_read.  Both tests of the status before it succeed:
\* only this thread changes the status (StaysConnected).
Recv ==
  /\ rpc = "recv"
  /\ onRead' = TRUE
  /\ rpc' = "poll"
  /\ UNCHANGED <<rres, noData, writerVars, connStatus, fd, pollFd, readErr, onWrite,
                 kernelVars, tls, clash, peerVars, ghostVars>>

\* poll finds input and no write is under way: enter _ksetlsTlsRead.
PollInput ==
  /\ rpc = "poll" /\ Readable /\ ~onWrite
  /\ rpc' = "tlsRead"
  /\ ReaderEnters
  /\ UNCHANGED <<rres, noData, writerVars, connStatus, fd, pollFd, readErr, onRead,
                 onWrite, kernelVars, tls, peerVars, ended, failed, spunErr, strays>>

\* poll times out, or a write is under way: recv returns 0 and reads nothing.
PollNothing ==
  /\ rpc = "poll" /\ (~Readable \/ onWrite)
  /\ rres' = "zero"
  /\ rpc' = "lowerRead"
  /\ UNCHANGED <<noData, writerVars, connStatus, fd, pollFd, readErr, onRead, onWrite,
                 kernelVars, tls, clash, peerVars, ghostVars>>

\* What _ksetlsTlsRead may return for an input: a record the device rejects is
\* answered with an alert and reported as 0 (the result of sending the alert);
\* a USB failure is an error; a positive 0x6xxx code counts as data without a
\* message, whatever the input; the end of the stream is an empty input, which
\* holds no message; after a clash in the shared buffer anything may come back.
Answer == [msg |-> "data", part |-> "part", notify |-> "notify", alert |-> "alert",
           bad |-> "zero", fin |-> "zero"]

Outcomes(kind) ==
  IF "R" \in clash THEN ReadResults
  ELSE {"error", "part", IF tls[pollFd] = 0 THEN "zero" ELSE Answer[kind]}

TlsReadReturns ==
  /\ rpc = "tlsRead" /\ Readable
  /\ \E r \in Outcomes(Head(inbox)) :
       /\ rres' = r
       /\ failed' = IF r \in FinalFailures THEN accepted ELSE failed
  /\ inbox' = IF Head(inbox) = "fin" THEN inbox ELSE Tail(inbox)
  /\ rpc' = "setErr"
  /\ ReaderLeaves
  /\ UNCHANGED <<noData, writerVars, connStatus, fd, pollFd, readErr, onRead, onWrite,
                 kernelVars, tls, budget, ended, entries, spunErr, strays>>

\* recv records the error, or its absence, before it lowers on_read.
SetErr ==
  /\ rpc = "setErr"
  /\ readErr' = IF rres \in Failures THEN -1 ELSE 0
  /\ rpc' = "lowerRead"
  /\ UNCHANGED <<rres, noData, writerVars, connStatus, fd, pollFd, onRead, onWrite,
                 kernelVars, tls, clash, peerVars, ghostVars>>

LowerRead(next) ==
  /\ rpc = "lowerRead"
  /\ onRead' = FALSE
  /\ rpc' = next
  /\ UNCHANGED <<rres, writerVars, connStatus, fd, pollFd, readErr, onWrite,
                 kernelVars, tls, peerVars, failed, spunErr, strays>>

\* gcs_read_message returns 1: a message was parsed and queued.
ReturnData ==
  /\ rres = "data" /\ LowerRead("recv")
  /\ noData' = 0
  /\ UNCHANGED <<clash, ended, entries>>

\* No complete message yet: gcs_read_message calls recv again.  A close notify
\* from the peer only makes the session loop continue.
ReturnAgain ==
  /\ rres \in {"part", "notify"} /\ LowerRead("recv")
  /\ UNCHANGED <<noData, clash, ended, entries>>

\* Mutant: a zero result is not counted.
ReturnZeroUncounted ==
  /\ rres = "zero" /\ LowerRead("recv")
  /\ UNCHANGED <<noData, clash, entries, ended>>

\* recv returned 0, counted as NO DATA; above the limit the session is closed.
ReturnZero ==
  /\ rres = "zero"
  /\ noData' = noData + 1
  /\ UNCHANGED ended
  /\ \/ noData + 1 > NoDataLimit /\ LowerRead("closeNotify") /\ ReaderEnters
     \/ noData + 1 <= NoDataLimit /\ LowerRead("recv") /\ UNCHANGED <<clash, entries>>

\* A fatal alert from the peer closes the session.
ReturnAlert ==
  /\ rres = "alert" /\ LowerRead("closeNotify")
  /\ ReaderEnters
  /\ UNCHANGED <<noData, ended>>

\* Mutant: the descriptor is closed on the error path, but not by close().
ReturnErrorCloses ==
  /\ rpc = "lowerRead" /\ rres = "error"
  /\ onRead' = FALSE /\ rpc' = "accept"
  /\ fdTable' = [fdTable EXCEPT ![fd] = 0]
  /\ ended' = [ended EXCEPT ![accepted] = "readError"]
  /\ UNCHANGED <<rres, noData, writerVars, connStatus, fd, pollFd, readErr, onWrite,
                 accepted, tls, clash, peerVars, entries, failed, spunErr, strays>>

\* Mutant: recv returns an error at once, on_read still raised.
ReturnErrorRaised ==
  /\ rpc = "lowerRead" /\ rres = "error"
  /\ rpc' = "accept"
  /\ ended' = [ended EXCEPT ![accepted] = "readError"]
  /\ UNCHANGED <<rres, noData, writerVars, connStatus, fd, pollFd, readErr, onRead,
                 onWrite, kernelVars, tls, clash, peerVars, entries, failed, spunErr, strays>>

\* Any other error goes back to accept, without close(): the descriptor leaks.
ReturnError ==
  /\ rres = "error" /\ LowerRead("accept")
  /\ ended' = [ended EXCEPT ![accepted] = "readError"]
  /\ UNCHANGED <<noData, clash, entries>>

\* Mutant: the call of close() after the close notify is left out.
CloseNotifyOnly ==
  /\ rpc = "closeNotify"
  /\ rpc' = "accept"
  /\ ReaderLeaves
  /\ UNCHANGED <<rres, noData, writerVars, connStatus, fd, pollFd, readErr, onRead,
                 onWrite, kernelVars, tls, peerVars, ghostVars>>

\* _ksetlsTlsCloseNotify returns; its result is ignored.
CloseNotifyReturns ==
  /\ rpc = "closeNotify"
  /\ rpc' = "disconnect"
  /\ ReaderLeaves
  /\ UNCHANGED <<rres, noData, writerVars, connStatus, fd, pollFd, readErr, onRead,
                 onWrite, kernelVars, tls, peerVars, ghostVars>>

\* DimSocket::close: the status, then ::close, then _ksetlsClose.
Disconnect ==
  /\ rpc = "disconnect"
  /\ connStatus' = "DISCONNECTED"
  /\ rpc' = "closeFd"
  /\ UNCHANGED <<rres, noData, writerVars, fd, pollFd, readErr, onRead, onWrite,
                 kernelVars, tls, clash, peerVars, ghostVars>>

CloseFd ==
  /\ rpc = "closeFd"
  /\ fdTable' = [fdTable EXCEPT ![fd] = 0]
  /\ ended' = [ended EXCEPT ![accepted] = "closed"]
  /\ rpc' = "tlsClose"
  /\ ReaderEnters
  /\ UNCHANGED <<rres, noData, writerVars, connStatus, fd, pollFd, readErr, onRead,
                 onWrite, accepted, tls, peerVars, failed, spunErr, strays>>

\* _ksetlsClose returns, the device session gone unless it failed.  Only the
\* inactivity path resets no_data_count.
TlsCloseReturns ==
  /\ rpc = "tlsClose"
  /\ tls' \in {tls, [tls EXCEPT ![fd] = 0]}
  /\ noData' = IF rres = "zero" THEN 0 ELSE noData
  /\ rpc' = "accept"
  /\ ReaderLeaves
  /\ UNCHANGED <<rres, writerVars, connStatus, fd, pollFd, readErr, onRead, onWrite,
                 kernelVars, peerVars, ghostVars>>

-----------------------------------------------------------------------------
(* The writer thread: gcs_write_message and DimSocket::send.               *)

\* A message is dequeued and is_connected() holds.
Dequeue ==
  /\ wpc = "idle" /\ connStatus = "CONNECTED"
  /\ wpc' = "send"
  /\ UNCHANGED <<readerVars, wfd, wrec, connStatus, fd, pollFd, readErr,
                 onRead, onWrite, kernelVars, tls, clash, peerVars, ended, entries,
                 failed, spunErr, strays>>

\* The status is tested again inside send.
SendTestsStatus ==
  /\ wpc = "send"
  /\ \/ connStatus # "CONNECTED" /\ wpc' = "idle"
     \/ connStatus = "CONNECTED" /\ wpc' = "err1"
  /\ UNCHANGED <<readerVars, wfd, wrec, connStatus, fd, pollFd, readErr, onRead,
                 onWrite, kernelVars, tls, clash, peerVars, ghostVars>>

\* The error field is tested before the spin and again after it; with an error
\* pending send gives the message up and returns 0, which like every result of
\* it decides only how long the caller sleeps.
SendTestsError(here, next) ==
  /\ wpc = here
  /\ \/ readErr = -1 /\ wpc' = "idle"
     \/ readErr # -1 /\ wpc' = next
  /\ UNCHANGED <<readerVars, wfd, wrec, connStatus, fd, pollFd, readErr, onRead,
                 onWrite, kernelVars, tls, clash, peerVars, ghostVars>>

\* Mutant: the error is not tested again after the spin.
NoTestAfterSpin ==
  /\ wpc = "err2"
  /\ wpc' = "raise"
  /\ UNCHANGED <<readerVars, wfd, wrec, connStatus, fd, pollFd, readErr,
                 onRead, onWrite, kernelVars, tls, clash, peerVars, ghostVars>>

TestBeforeSpin == SendTestsError("err1", "spin")
TestAfterSpin == SendTestsError("err2", "raise")

\* Mutant: the writer does not wait for on_read.
NoSpin ==
  /\ wpc = "spin"
  /\ wpc' = "err2"
  /\ spunErr' = failed
  /\ UNCHANGED <<readerVars, wfd, wrec, connStatus, fd, pollFd, readErr,
                 onRead, onWrite, kernelVars, tls, clash, peerVars, ended, entries,
                 failed, strays>>

\* while (on_read) {};
SpinEnds ==
  /\ wpc = "spin" /\ ~onRead
  /\ wpc' = "err2"
  /\ spunErr' = failed
  /\ UNCHANGED <<readerVars, wfd, wrec, connStatus, fd, pollFd, readErr,
                 onRead, onWrite, kernelVars, tls, clash, peerVars, ended, entries,
                 failed, strays>>

RaiseWrite ==
  /\ wpc = "raise"
  /\ onWrite' = TRUE
  /\ wpc' = "call"
  /\ UNCHANGED <<readerVars, wfd, wrec, connStatus, fd, pollFd, readErr,
                 onRead, kernelVars, tls, clash, peerVars, ghostVars>>

\* The reader calls that a raised on_read or a cleared status announces.
Shielded == {"tlsOpen", "handshake", "tlsRead", "tlsClose"}

\* _ksetlsTlsWrite(_fd, ...) is called; it refuses the descriptor -1.
CallTlsWrite ==
  /\ wpc = "call"
  /\ \/ /\ fd = -1
        /\ wpc' = "lower"
        /\ UNCHANGED <<wfd, clash, entries>>
     \/ /\ fd # -1
        /\ wfd' = fd
        /\ wpc' = "encrypt"
        /\ clash' = IF ReaderInKse THEN {"R", "W"} ELSE {}
        /\ entries' = IF rpc \in Shielded THEN entries + 1 ELSE entries
  /\ UNCHANGED <<readerVars, wrec, connStatus, fd, pollFd, readErr, onRead,
                 onWrite, kernelVars, tls, peerVars, ended, failed, spunErr, strays>>

\* The device seals the record with the keys it holds for the descriptor; after
\* a clash the buffer may hold no record of any session.
Encrypt ==
  /\ wpc = "encrypt" /\ wfd \in Fds
  /\ \/ tls[wfd] # 0 /\ wrec' = tls[wfd]
     \/ "W" \in clash /\ wrec' = 0
  /\ wpc' = "transmit"
  /\ UNCHANGED <<readerVars, wfd, connStatus, fd, pollFd, readErr, onRead,
                 onWrite, kernelVars, tls, clash, peerVars, ghostVars>>

\* _tlsSend writes to whatever connection the descriptor names by now.
Transmit ==
  /\ wpc = "transmit" /\ fdTable[wfd] # 0
  /\ strays' = IF wrec \in {0, fdTable[wfd]} THEN strays
                ELSE [strays EXCEPT ![wrec] = @ + 1]
  /\ wpc' = "lower"
  /\ clash' = clash \ {"W"}
  /\ UNCHANGED <<readerVars, wfd, wrec, connStatus, fd, pollFd, readErr,
                 onRead, onWrite, kernelVars, tls, peerVars, ended, entries, failed, spunErr>>

\* The device or the socket reports an error; 0x6xxx codes are positive.
TlsWriteFails ==
  /\ WriterInKse
  /\ wpc' = "lower"
  /\ clash' = clash \ {"W"}
  /\ UNCHANGED <<readerVars, wfd, wrec, connStatus, fd, pollFd, readErr,
                 onRead, onWrite, kernelVars, tls, peerVars, ghostVars>>

LowerWrite ==
  /\ wpc = "lower" /\ wpc' = "idle"
  /\ onWrite' = FALSE /\ wfd' = 0 /\ wrec' = 0 /\ spunErr' = 0
  /\ UNCHANGED <<readerVars, connStatus, fd, pollFd, readErr, onRead, kernelVars,
                 tls, clash, peerVars, ended, entries, failed, strays>>

-----------------------------------------------------------------------------
(* The ground control station at the other end of the newest connection.   *)

PeerSends ==
  /\ budget > 0 /\ rpc \in InSession
  /\ \A i \in DOMAIN inbox : inbox[i] # "fin"
  /\ \E k \in Kinds : inbox' = Append(inbox, k)
  /\ budget' = budget - 1
  /\ UNCHANGED <<readerVars, writerVars, connStatus, fd, pollFd, readErr, onRead,
                 onWrite, kernelVars, tls, clash, ghostVars>>

-----------------------------------------------------------------------------

SessionStep ==
  \/ InitPoll \/ Recv \/ PollInput \/ PollNothing \/ TlsReadReturns \/ SetErr
  \/ ReturnData \/ ReturnAgain \/ ReturnZero \/ ReturnAlert \/ ReturnError
  \/ CloseNotifyReturns \/ Disconnect \/ CloseFd \/ TlsCloseReturns

ReaderStep ==
  \/ Accept \/ AcceptConn \/ AcceptFails \/ TlsOpenOk \/ TlsOpenFails
  \/ HandshakeReturns \/ Publish \/ ClearErr \/ SessionStep

WriterStep ==
  \/ Dequeue \/ SendTestsStatus \/ TestBeforeSpin \/ SpinEnds \/ TestAfterSpin
  \/ RaiseWrite \/ CallTlsWrite \/ Encrypt \/ Transmit \/ TlsWriteFails \/ LowerWrite

Next == ReaderStep \/ WriterStep \/ PeerSends

Spec == Init /\ [][Next]_vars

\* The session loop never blocks for good: poll and every USB transfer have a
\* timeout.  on_read is down during the usleep(10) between two calls of recv, so
\* a writer that spins without pause sees it down: strong fairness.  Nothing is
\* assumed of ::accept, of the handshake or of the peers.
FairSpec == Spec /\ WF_vars(SessionStep) /\ SF_vars(SpinEnds)

-----------------------------------------------------------------------------

\* The threads' own variables and the fields of DimSocket.
ThreadTypes ==
  /\ rpc \in ReaderPcs
  /\ rres \in ReadResults \cup {"none", "ok", "internal", "fail"}
  /\ noData \in Nat
  /\ wpc \in WriterPcs /\ wfd \in Fds \cup {0} /\ wrec \in 0 .. MaxConns
  /\ connStatus \in {"CONNECTED", "DISCONNECTED"}
  /\ fd \in Fds \cup {0, -1} /\ pollFd \in Fds \cup {0, -1}
  /\ readErr \in {0, -1}

\* The kernel, the device, the peers and the history.
WorldTypes ==
  /\ fdTable \in [Fds -> 0 .. MaxConns] /\ tls \in [Fds -> 0 .. MaxConns]
  /\ clash \in SUBSET {"R", "W"}
  /\ accepted \in 0 .. MaxConns
  /\ inbox \in Seq(Kinds) /\ budget \in 0 .. MaxInput
  /\ ended \in [Conns -> {"open", "refused", "readError", "closed"}]
  /\ entries \in Nat /\ strays \in [Conns -> Nat]

\* The Boolean flags, and the history of failures.
FlagTypes == onRead \in BOOLEAN /\ onWrite \in BOOLEAN
FailureTypes == failed \in 0 .. MaxConns /\ spunErr \in 0 .. MaxConns

\* Every variable has its type; _fd and the pollfd may be 0 or -1.
TypeOK == ThreadTypes /\ WorldTypes /\ FlagTypes /\ FailureTypes

\* The reader between init_poll and the return of recv.
Polling == {"recv", "poll", "tlsRead", "setErr", "lowerRead"}

(***************************************************************************)
(* While start_gcs_read_thread serves a connection (until it calls close)  *)
(* is_connected() holds and _fd is that connection's descriptor; poll and  *)
(* _ksetlsTlsRead use the same one.  This is why the unlocked tests of the *)
(* status in recv, and the wait inside gcs_read_message, never fail.       *)
(***************************************************************************)
ServesNewest ==
  /\ rpc \in InSession \ {"closeFd"} => connStatus = "CONNECTED"
  /\ rpc \in InSession => fd \in Fds /\ fdTable[fd] = accepted
  /\ rpc \in Polling => pollFd = fd

(***************************************************************************)
(* Descriptors leak by two paths only.  A connection the reader thread is  *)
(* done with still holds a descriptor exactly if accept refused it (open   *)
(* or handshake failed) or a read error ended it: those paths `continue`   *)
(* and `break` without close().                                            *)
(***************************************************************************)
LeaksAreErrors ==
  \A c \in 1 .. accepted :
    /\ (\E f \in Fds : fdTable[f] = c) <=> ended[c] # "closed"
    /\ c < accepted => ended[c] # "open"

(***************************************************************************)
(* on_read and on_write do not exclude each other, but a call of the       *)
(* library that a raised on_read or a cleared status announces             *)
(* (_ksetlsTlsRead, _ksetlsOpen, the handshake, _ksetlsClose) can be met   *)
(* by at most one new _ksetlsTlsWrite: the one already past its tests.     *)
(***************************************************************************)
OverlapAtMostOne == rpc \in Shielded => entries <= 1

(***************************************************************************)
(* No TlsWrite goes to a connection whose read had failed for good when    *)
(* the writer left its spin: recv stores _tls_read_error before it lowers  *)
(* on_read, and send tests it again after the spin.  The writer may miss   *)
(* the error all the same, if accept clears it first; its message is then  *)
(* sealed for the next client.  (A peer's close notify ends no session:    *)
(* the next read clears that error, and the writer goes on.)               *)
(***************************************************************************)
SpinSeesError == WriterInKse /\ spunErr # 0 => fdTable[wfd] # spunErr

(***************************************************************************)
(* _ksetlsTlsWrite seals and sends in two steps, and the reader thread may *)
(* close the descriptor and accept another client on it in between.  Of    *)
(* each session at most one record reaches another connection, and only    *)
(* if close() ended the session: the leaked descriptors of the other       *)
(* paths, bad as they are, keep late records away from newer clients.      *)
(***************************************************************************)
OneStrayAtMost ==
  \A c \in Conns : strays[c] = 0 \/ (strays[c] = 1 /\ ended[c] = "closed")

(***************************************************************************)
(* A session ends once its peer falls silent or hangs up (MaxInput bounds  *)
(* what it sends): it is counted out and the thread gets back to accept.   *)
(* Two sessions are excepted.  In one, reads keep meeting writes inside    *)
(* the library, where the shared buffer may pass garbage for data each     *)
(* time and reset the count.  In the other, the device answers the end of  *)
(* the stream with a positive code again and again: gcs_read_message       *)
(* reads on, and neither counts nor returns.                               *)
(***************************************************************************)
SessionEnds ==
  <>[](rpc \in InSession) => []<>("R" \in clash) \/ []<>(rpc = "setErr" /\ rres = "part")

(***************************************************************************)
(* A writer never spins on on_read for ever.                               *)
(***************************************************************************)
WriterLeavesSpin == wpc = "spin" ~> wpc # "spin"

-----------------------------------------------------------------------------
(* What comments in the code say and the code does not do.                 *)

\* server.cpp, start_gcs_read_thread: "if (result == 0) { // NO DATA".
ZeroMeansNoData == [][rpc = "poll" /\ rpc' = "lowerRead" => ~Readable]_vars

\* dim_server.cpp, accept: "_tls_read_error = 0; // NO TLS ERROR".
NoErrorMeansHandshake == connStatus = "CONNECTED" /\ readErr = 0 => tls[fd] # 0
=============================================================================
