# Specifications of mavlink-dim

mavlink-dim relays MAVLink messages between an autopilot and a ground control
station (GCS) over TLS. The TLS records are made and parsed by a USB device, the
KSE DIM. `mavlink_dim_server` runs beside the autopilot (serial port on one side,
TLS server on the other); `mavlink_dim_client` runs beside the GCS (TLS client on
one side, UDP on the other). This directory holds TLA+ modules of the parts that
carry the programs' own logic, TLC configurations that check them, and TLAPS proofs.

## Inventory

| part | source | state | operations | modules |
|---|---|---|---|---|
| DIM socket (server) | `src/dim.*`, `src/dim_server.*` | `_connection_status`, `_fd`, `fds[0]`, `_tls_read_error`, `on_read`, `on_write` | accept, recv, send, tls_close_notify, close | DimServer |
| relay threads, GCS side (server) | `src/server.cpp` | `no_data_count` | start_gcs_read_thread, start_gcs_write_thread | DimServer |
| relay threads, autopilot side | `src/server.cpp` | fragments of encapsulated data | autopilot_read_message, autopilot_write_message | Autopilot |
| DIM socket and threads (client) | `src/dim_client.*`, `src/client.*` | the DIM socket, `_handshake_type`, `gcAddr` | connect, handshake, read-write loop, UDP threads | DimClient, ClientParser |
| TLS functions | `kse_dim/kse_ubuntu.c` 2885-3401 | `gabTxRxData`, `gusTxRxDataOffset`, `gusTxRxDataLength` | open, handshakes, read, write, close notify, close | KseTls |
| USB exchange | `kse_dim/kse_ubuntu.c` 547-714 | `ghDev`; the reports in the device's queue | _kseTransceive | KseTransceive |
| device power, exit | `kse_dim/kse_ubuntu.c` 721-967, `src/server.cpp` 5-20 | `gusKsePower`, `ghDev`; the device's own state | _ksePowerOn, _ksePowerOff, _usbClose, SIGINT | KsePower |
| keys, certificates, info file | `kse_dim/kse_ubuntu.c` 969-1374, 2239-2873 | none in the host; the device's memory | one command each | KseStore, KseKeys, KseCerts |
| ciphers, hashes, signatures | `kse_dim/kse_ubuntu.c` 1402-2229 | counters and chaining values of a call | ECB, CBC, CTR, GCM; hash, HMAC, ECDSA | KseCiphers, KseHash |
| queues | `include/readerwriterqueue.h`, `include/atomicops.h` | ring of blocks; semaphore count | enqueue, try_dequeue, wait_dequeue, wait_dequeue_timed, pop, peek | SpscQueue, LightweightSemaphore, BlockingQueue |
| serial port | `src/serial_port.*` | descriptor, `O_NONBLOCK`, `fds` | open, setup, read_message, write_message, stop | SerialPort |
| UDP proxy | `src/udpproxy.c` | two sockets, two time stamps | main loop | UdpProxy |
| MAVLink parser | submodule, not in the repository | a frame per channel | mavlink_parse_char | ClientParser |

How they interact. The server has four threads. Two of them share the DIM socket: the
GCS reader accepts, receives and closes, the GCS writer sends. The flags `on_read`
and `on_write` are all that keeps them apart (a mutex is declared and its calls are
commented out). Both call the TLS functions, which share one buffer; the autopilot
reader is its third user, when it deciphers encapsulated data. All three end in
`_kseTransceive`, one command at a time, on one USB device. The autopilot's reader and
writer share the descriptor of the serial port. The threads hand messages on in two
single-producer, single-consumer queues. The client has one thread that both reads and
writes the DIM socket, and two for UDP; two of the three feed one MAVLink parser. The
proxy is a program of its own.

What is hard here:

- tests and their use are apart: the status, the error and the flags are read without
  a lock, and `_fd` again at the call;
- every error path decides for itself what it closes, clears and counts;
- results are lossy: 0 stands for no data, for a write under way, for a rejected
  record and for a message given up; internal errors of the device are positive;
- input is kept between calls, in a buffer that every call overwrites;
- an exchange that times out leaves its answer behind for the next one, also for the
  next process;
- blocking calls (handshake, accept) hold the only thread that serves clients;
- a timed wait that times out races the signal that would have ended it;
- a flag of one thread's system calls is a flag of the other's, on a shared descriptor;
- long messages are cut for the device and must come out as if they had not been.

`PROJECT.json` lists these hazards one by one, each at its line, with the properties
that are about it.

What makes each part correct. The DIM socket serves the newest connection, sends on no
other, and leaks only where it errs. The TLS functions deliver the records of a
connection in order until they break. A command gets its own answer, and where it may
get another's, that is bounded. The commands leave the host right about the device's
memory; the ciphers and hashes do not depend on how a message is cut. Power, library
and handle go together. The queues lose, repeat and reorder nothing and lose no
wake-ups. The client reconnects whenever the server is there again. The parsers put no
bytes of two streams into one message, and no two texts into one. The serial port cuts
messages only in known windows. The proxy connects the senders that go on.

## Modules

| module | what it is |
|---|---|
| `DimServer` | GCS reader and writer thread of the server over one DIM socket |
| `MCDimServer` | its finite instance |
| `DimServerProofs` | theorems about DimServer |
| `TlsChannel` | abstract: a channel that delivers in order or breaks |
| `KseTls` | the TLS functions and the input they keep; implements TlsChannel |
| `KseTlsProofs` | theorems about KseTls, the refinement among them |
| `KseTransceive` | the exchange of commands and answers with the USB device |
| `KseTransceiveProofs` | theorems about KseTransceive |
| `DimClient` | the client's connection to the server |
| `DimClientProofs` | theorems about DimClient |
| `Fifo` | abstract: what a queue between two threads promises |
| `LightweightSemaphore` | the semaphore of the queues, one atomic operation per step |
| `SpscQueue` | the ring of blocks, one load or store per step; implements Fifo |
| `BlockingQueue` | both together, as the threads call them |
| `BlockingQueueProofs` | theorems about BlockingQueue, the semaphore and the ring in it, the refinement of Fifo among them |
| `KseExchange` | what the library's commands have in common: one exchange |
| `KseStore` | commands that read or write the device's memory |
| `KseKeys`, `KseCerts` | the key commands; the certificate and info file commands |
| `KseCiphers`, `KseHash` | block cipher modes in chunks; hashes and signatures in steps |
| `MCKse`, `MCKseProofs` | the command groups side by side; theorems about them |
| `Autopilot` | encapsulated data and the third user of the library's buffer |
| `ClientParser` | two threads of the client and one parser channel |
| `MCStreams`, `MCStreamsProofs` | these two side by side; theorems about them |
| `KsePower` | power, USB handle, SIGINT, kills and restarts |
| `SerialPort` | reader and writer of the autopilot port |
| `UdpProxy` | the UDP proxy |
| `MCPorts`, `MCPortsProofs` | these three side by side; theorems about them |

`BlockingQueue` composes its two parts: an action of it is an action of the ring or of
the semaphore, and `toSignal`, `toTake` say where one call goes from one to the other.
The three modules `MCKse`, `MCStreams` and `MCPorts` are sums: their parts share no
state in the program, the initial state chooses one of them, and the others stay as
they began. So each behaviour of a part is a behaviour of the sum, and no behaviour
mixes two; a property of one part is stated for the sum and holds of the parts that
stand still as well. What this leaves out in `MCKse` is an answer that is late for a
command of another group.

### DimServer

A step reads or writes one shared field, or enters or leaves one library function, so
every interleaving of the two threads at that grain is explored. `rpc` is the position
of the reader thread, `wpc` that of the writer:

| actions | code |
|---|---|
| Accept, AcceptConn, AcceptFails, TlsOpenOk, TlsOpenFails, HandshakeReturns, Publish, ClearErr | `DimServer::accept` |
| InitPoll | `init_poll` |
| Recv, PollInput, PollNothing, TlsReadReturns, SetErr, LowerRead | `DimSocket::recv` |
| ReturnData, ReturnAgain, ReturnZero, ReturnAlert, ReturnError | what `start_gcs_read_thread` does with the result |
| CloseNotifyReturns, Disconnect, CloseFd, TlsCloseReturns | `tls_close_notify`, `close` |
| Dequeue, SendTestsStatus, TestBeforeSpin, SpinEnds, TestAfterSpin, RaiseWrite, CallTlsWrite, Encrypt, Transmit, TlsWriteFails, LowerWrite | `gcs_write_message`, `DimSocket::send`, `_ksetlsTlsWrite` |

The kernel hands out the lowest free descriptor; `fdTable` says which connection it
names. The device keeps keys by descriptor number (`tls`). `clash` records that the two
threads were in the library at the same time; what a read returns after that, and what
a write sends, is any outcome, since the buffer is a data race. The peer may send
messages, parts of messages, bad records, alerts, close notifies and the end of the
stream, in any order. Every library call may fail, and for any input, the end of the
stream too, a read may return a positive code of the device, which
`gcs_read_message` takes for a part of a message.

Properties: `ServesNewest` (status, `_fd` and pollfd of a session), `LeaksAreErrors` (a
connection left behind holds its descriptor exactly if accept refused it or a read
error ended it), `OverlapAtMostOne` (the flags do not exclude a write during a read,
but let at most one in), `SpinSeesError` (no write goes to a connection whose read had
failed for good when the writer left its spin), `OneStrayAtMost` (at most one record of a
session reaches another connection, and only if the session was closed), `SessionEnds`,
`WriterLeavesSpin`.

`SpinSeesError` speaks of the connection that failed (`failed`, and `spunErr` for what it
was at the end of the spin), not of the error field, because the writer does miss errors:
accept clears `_tls_read_error` for the next connection, and a read that follows a close
notify clears it in the same session. A writer that was in its spin then passes the
second test; what is promised is that its record does not go to the failed connection.
`SessionEnds` has two exceptions, both seen by TLC when they are left out: a session
that clashes with writes again and again, and a device that answers the end of the stream
with a positive code each time, upon which `gcs_read_message` reads on, and
`no_data_count` never grows.

### KseTls and TlsChannel

One read of the socket may bring several records. The device parses the first; the
others are kept at `gusTxRxDataOffset` and go first in the next call. The model numbers
records and keeps the interval that is in the buffer (`restLen`, `restFirst`), where it
came from (`restConn`) and whether another call has overwritten it (`spoiled`). A step
is one call, or one round of a handshake; both handshakes are the same loop, beginning
with input or without. `KeepStale` is what the early returns leave, the length as it
is (`ReadFails` and its like, and a read or handshake that returns a positive code, also
that of the alert command), `KeepNothing` the assignment `gusTxRxDataLength = 0`.

The peer sends its handshake in flights: it waits for the device at the records in
`FlightEnds`, and sends what comes between two of them, and data behind the last, without
waiting. So one read may bring several handshake records, of which the loops of both
handshakes keep the rest, and data behind the last one is kept for the first read.

What is assumed of the device: it accepts records in sequence, rejects everything else,
and uses nothing more on a channel once it has reported an internal error.

`TlsChannel` says what the library promises: `got` counts up by one with each record
handed on, never beyond `put`, while the channel is `whole`. KseTls implements it with
`put <- sent`, `got <- delivered` and `whole` true from open until a failure. What the
code does not promise is visible as well: a successful write throws kept records away
(`dropped`), after which the next record is rejected; `RejectionExplained` says this is
the only reason besides a failed call. `RestIsCurrent`: kept input never crosses
connections. `SocketDrained`: kept input does not block the socket for ever, but for a
device that answers reads with a positive code again and again: the kept input stays in
place, and is parsed again each time.

### KseTransceive

A step is one USB transfer and what the host does with it; a transfer may fail, with or
without effect on the device, and the device may ignore one. `inQueue` holds the reports
the device has ready; a read that fails may leave its report there. The model tags
reports with the call they belong to, which the code has no means of seeing.
`OwnAnswer`: without failures a call returns its own whole answer, and the check of the
acknowledgements protects commands of more than one block from a single failure too.
`AnswerAge`: after failures the answers of single-block commands may be stale for good
(nothing ever drains the queue), but by no more calls than transfers have failed.
`CallReturns`: the loops end.

### DimClient

The client uses its DimSocket from one thread, so nothing here is concurrent but the
server, the network and the thread that queues GCS messages. A step is one kernel or
library call with what the loop does with its result:

| actions | code |
|---|---|
| SocketFails, TcpConnect, TcpRefused, TlsOpen, Handshake | `DimClient::connect`, `handshake`, called by the constructor or the loop |
| InitPoll, Poll | the head of `start_autopilot_read_write_thread` |
| ReadUnconnected, Read, ReadNothing | `autopilot_read_message`, `DimSocket::recv` |
| Write | `autopilot_write_message`, `DimSocket::send` |
| Close | `DimSocket::close` and the connect after it |

`link` is what the kernel knows of the newest socket: poll reports a hang-up or an error
for a refused or reset one, input at the end of the stream, and nothing for a negative
descriptor. `OneSocket`: although connect fails without closing, no descriptor leaks
(the server's accept leaks in the same place). `ConnectedHasKeys`: CONNECTED implies
keys, but for a positive internal error. `Reconnects`: with a server that is there for
good the client is connected or tries again and again, unless it is in one of four
dead ends, which `Stuck` lists: a handshake that is never answered; a connection left
by a failed handshake while the server keeps it open, on which every input is seen and
none is read; a descriptor of -1 after ::socket failed in the constructor, which poll
ignores; and a stream the server has ended without a close notify, which reads as 0
for ever. `QueueMoves`: the queue is looked at only after poll has told of input, so a
silent server holds up the other direction too. If there is something to read again and
again, the queue does not stay full, whatever the reads return, with three exceptions:
reads that give only parts of messages from some time on (the loop of
`autopilot_read_message` goes on), connections each of which ends before it is written
to, and a thread that hangs in a handshake or has ended.

### LightweightSemaphore, SpscQueue, Fifo and BlockingQueue

| actions | code |
|---|---|
| WaitCall, Test, Take, Decrement, Wake, TimeOut, Restore, Redo, TryWait | `tryWait`, `wait`, `waitWithPartialSpinning` with and without a timeout |
| Signal, Post | `signal` |
| EnqueueCall, LoadFront, Write, Publish, TestNext, UseNext, WriteNext, PublishNext, Allocate, Link, Advance | `inner_enqueue` |
| TryDequeueCall, PopCall, PeekCall, LoadTail, TestTailBlock, Recheck, LoadNext, LoadNextTail, Leave, TakeElement, Release | `try_dequeue`, `pop`, `peek` |

A step of the semaphore is one operation on `m_count` or on the kernel semaphore. A step
of the ring is one load or store of a field both threads use, or of a slot, with what
the thread does to its own fields (`localFront`, `localTail`). The fences of the code
make loads and stores take effect in program order, which is assumed. Memory may run
out when a block is to be made.

`RingIntact` is what both threads rely on: no slot is used by both, no element is
replaced, the code's assertions hold, and the blocks form one ring at every moment.
`ImplementsFifo`: the ring implements `Fifo`, in which a call comes back empty only if
the queue was empty when it was made. `PermitsExact` is the accounting of the
semaphore: a decrement in progress counts against the permits, and a post is there
exactly while a waiter is bound to take it. `PermitsAreElements` ties the two together:
a wait that returned true is followed by a `try_dequeue` that finds an element, which
the code only asserts. `EveryElementDelivered`: no race of a timeout with a signal
leaves a message in the queue.

### KseExchange, KseStore, KseKeys, KseCerts, KseCiphers, KseHash

An exchange is one step here. What KseTransceive shows of a first failed transfer is
kept: it leaves one report in the device (`late`), and from then on the host is one
report behind. `Exchanges` enumerates how a command may end: with its own answer, with
the late one, with an answer mixed of the two, cut off at an acknowledgement, or with a
failure. `StatusOf` is the check of the answer's length each command makes. At most one
transfer of a behaviour fails.

The memory of the device is slots (keys, the fields of a certificate, regions of the
info file); `told` is what the results so far have told the host of each.
`KnownIsStored`: until a transfer fails this is right, but for the size of an HMAC key
the device has generated; and after a failure success is true of a command of more than
one block, and of any command that leaves no report behind in the device. What is
excepted is a defect of the code: the command carries the key's index where its size
belongs. `told` records the size the caller asked for, the store what the device makes
of the bytes it gets, and the run `kse_key_size` shows that they differ. `SizesRight`:
sizes are those of the types, and no answer is copied beyond the caller's array.

In KseCiphers a block is symbolic, the set of atoms of which it is the exclusive or, and
a cipher makes a new atom of a block; so CBC, CTR and GCM are their definitions, and a
message in chunks can be compared with the mode applied to the whole message
(`PrefixExact`, at every point of the call, in place too, unless the call has taken a
late answer for a chunk's own). The counter of CTR has two bytes of `Base` values: it
carries, and it wraps. In KseHash a result is the algorithm, the key and the message it
is of; a computation of several steps lives in the device (`dev`), where a call that
failed half-way leaves it. `ResultOfMessage`: a result is of the whole message and of
the right key, and in the middle of a call the computation is this call's; a call of one
step that has taken a late answer is excepted (`behind`), in which a hash is another
message's and a wrong value may verify. `LateOnlyShort`: a late answer is taken for a
command's own only where both are short, in the last chunk of a cipher, and never in a
hash of several steps.

The symbolic cipher treats `Dec(Enc(x))` as `x` and nothing else as equal. What the
device does with a command it is sent, and that it refuses whatever it likes, is
external.

### Autopilot and ClientParser

Autopilot has `autopilot_read_message` (LoseFragment, StoreHalf, LastFragment,
Heartbeat, and the decryption that ends Alone, Fails or Mixed) against the uses of the
library's buffer by the GCS threads (TlsBegin, HandshakeEnd, ReadEnd, ReadFailed,
WriteEnd, TlsFails, TlsMixed). `session` is where the GCS reader is: at accept, in a
session that is open or has failed, or at one of the two uses that end a session, the
close notify and the close (SessionEnds, CloseBegins, CloseEnds). A read error leaves a
session without either (SessionLost). A write may begin in any of these, since the status
it goes by was tested long before. Uses that overlap return anything and may leave an
answer in the device, which outlives the session. A use on its own does what the code
says: the command of a decryption overwrites what `_ksetlsTlsRead` has kept for the next
call. `NoOtherText`: what is shown of an undisturbed decryption is the text of its set or
zeros, although halves are stored by number alone and the result is not looked at; and
an undisturbed set that came as a whole is deciphered (`WholeDeciphered`).
`LossExplained`: a session's input is rejected only after one of the causes in `causes`.

ClientParser has Receive, ParseChar and Enqueue for each of the two threads of the
client that parse on `MAVLINK_COMM_0`. The message is copied to the caller in a step of
its own; it is torn if the other thread has a byte parsed meanwhile. `AloneDelivered`:
a frame that finds the parser idle and the other thread not copying, and is parsed without
a byte of the other in between, is enqueued; one that starts behind half a frame of the
other stream may go with it. `OwnInOrder`: a message that a thread enqueues and that is
not torn is of the stream it reads, and each comes once and in order.

### KsePower, SerialPort, UdpProxy

| actions | code |
|---|---|
| Start, OpenFails, Open, ClaimFails, Claim, PowerOnSend, PowerOnRead | `DimServer::DimServer`, `open`, `_ksePowerOn` |
| Signal, CloseSend, CloseRead, PowerOffSend, PowerOffRead, Release, Clear, Exit | the SIGINT handler, `_ksetlsClose`, `_ksePowerOff`, `_usbClose` |
| Command, CommandSend, CommandRead, CommandFails, Stray | a thread's use of the device; Stray: with a handle that has ended |
| Kill | the process ends at any point |
| Start, Replace | the operator, or `server.sh`: starts a server, or replaces one that runs without power |
| OpenPort, SetupPort, Stop | `Serial_Port::start`, `stop` |
| SetNonblock, Poll, PollFails, PollTimeout, ClearNonblock, TestRevents, ReadByte | `read_message` |
| WriteMessage, WriteClosed, WriteSome, WriteShort, WriteFails | `write_message` |
| Arrive, Drain, HangUp | the line |
| Open, OpenFails, Check, Select, Interrupted, Skip, Receive, ReceiveFails | a pass of the proxy's loop |
| Send, Go, Tick | the senders, and time |

KsePower: the device outlives the processes, and so do the answers it has ready. A
power-on that fails, at whatever step, makes `open` throw; the constructor catches that
(dim_server.h 17-24), and main starts the relay threads on a device without power
(`StartsUnpowered`). Such a process serves nobody and never tries again.
`UsbConsistent`: `gusKsePower`, `ghDev` and libusb go together, a server without power
has no handle, and one that believes its device to be on is right, although the answer
that told it so may be an earlier process's. `StrayOnlyAtExit`: a thread uses a handle
that has ended only while SIGINT's handler runs, which waits for no thread.
`PoweredAgain`: an operator who always starts or replaces a server that is gone or without
power gets one that is powered again and again, if the device answers a second POWER ON
(`AnswersAgain`), also without a reset of the hub.

SerialPort: a step is one system call. `O_NONBLOCK` belongs to the open file, so the
reader's setting of it governs the writer. `ReaderNeverBlocks`, `CutOnlyByReader` (a
message is cut short only between the reader's two fcntl calls or after a poll that
timed out, which leaves the flag set), `PortMoves` (input is read; the writer returns).

UdpProxy: the sender of the first datagram becomes a port's endpoint, the kernel queues
datagrams of anybody until then. `NothingDropped` (part of CutOnlyByReader): what is
received while both endpoints are known is sent on, or the session ends. `QuietBound`
(part of TypeOK of MCPorts): quiet is noticed within 20 s. `SteadyConnected`: senders
that keep sending are connected with each other in the end, whoever has gone before.

## Runs

| run | module | checks | shows |
|---|---|---|---|
| `server` | MCDimServer | ServesNewest, LeaksAreErrors, OverlapAtMostOne, SpinSeesError, OneStrayAtMost, SessionEnds, WriterLeavesSpin | the flags, the status and the order of stores guarantee this much, with every interleaving and failure; a silent session is counted out, but in two cases |
| `server_no_data` | MCDimServer | ZeroMeansNoData | violated: recv returns 0 with input waiting |
| `server_no_error` | MCDimServer | NoErrorMeansHandshake | violated: CONNECTED, no error, no keys |
| `kse_tls` | KseTls | RestIsCurrent, RejectionExplained, ImplementsChannel, SocketDrained | kept input over two connections and in handshakes; the refinement |
| `kse_tls_zero` | KseTls | ZeroIsSuccess | violated: 0 for a rejected record |
| `kse_transceive` | KseTransceive | OwnAnswer, AnswerAge, CallReturns | whose answer a call returns when reports are late |
| `dim_client` | DimClient | OneSocket, ConnectedHasKeys, Reconnects, QueueMoves | one socket at a time, and when the client connects again |
| `queue` | BlockingQueue | RingIntact, PermitsExact, PermitsAreElements, ImplementsFifo, EveryElementDelivered | ring and semaphore, every interleaving of loads, stores and atomic operations |
| `kse_library` | MCKse | SizesRight, KnownIsStored, PrefixExact, ResultOfMessage, LateOnlyShort | the library's commands in five groups, with one failed transfer |
| `kse_key_size` | MCKse | GeneratedSize | violated: a generated HMAC key has another size than was asked for |
| `streams` | MCStreams | NoOtherText, LossExplained, AloneDelivered, OwnInOrder | messages put together from pieces |
| `ports` | MCPorts | TypeOK, UsbConsistent, ReaderNeverBlocks, StrayOnlyAtExit, CutOnlyByReader, PoweredAgain, PortMoves, SteadyConnected | USB handle, serial port and proxy |

Where a run does not check its module's TypeOK, it is proved instead (TypeCorrect), or
is a part of a property that is listed: of RingIntact, SizesRight, NoOtherText,
OwnInOrder.

The four violated properties are what comments of the code say; `PROJECT.json` quotes
them under "findings". Other places where code and comment, or two parts of the code,
do not agree show in the models but have no run of their own:

- `DimSocket::send` returns 0, documented as success (`dim.cpp:62`), for a message it
  gives up because a read error is pending (73-76, 80-83). The message is lost without
  notice; the result decides only how long the writer sleeps.
- `serial_port.h:102-103` says that a mutex guards every port operation; its calls are
  commented out (`serial_port.cpp:502-531`). SerialPort has no lock.
- `serial_port.cpp:208` documents write_message to return 0; it returns the number
  of bytes `write` took (525), which may be a part of the message.
- A put or an erase the device refused returns success after a failed transfer, when
  it reads the answer to the command before (`kse_ubuntu.c:607`): `told` in KseStore is
  then wrong, and KnownIsStored says only what holds.
- The last condition of `_kcmvpGetKey` on the length of the answer excludes HMAC keys
  with `!=`, where it is the one about them (`kse_ubuntu.c:1272`).
- The text of encapsulated data is shown whatever the decryption returned
  (`server.cpp:119-121`): zeros when it failed.
- The proxy compares with `> 10` and then waits 10 s more (`udpproxy.c:93`): quiet is
  noticed within 20 s. Between bind and connect (`udpproxy.c:125`) datagrams of
  third senders are queued and then forwarded.

### Bounds

- `server`: two descriptors are enough for a leak, its reuse and EMFILE; three
  connections for a stray record across a reuse with one more session behind it. The
  limit of 5000 empty reads is 1 (`NoDataLimit`): the first empty read is tolerated, the
  second closes, as the 5001st does. `MaxInput` = 2 inputs cover a result that depends
  on the one before.
- `kse_tls`: three records in one read make a kept input that is used up in two more
  calls; a handshake of four records, the first of which the peer waits for and the other
  three come at once, has rounds that read, rounds that go on with kept input, and one
  that leaves data behind it; the second connection sees what the first left.
- `kse_transceive`: three blocks give a first, a middle and a last one; six calls with
  three failures let lags arise, grow and be observed.
- `dim_client`: two descriptors, of which one would be a leak; a queue of two that
  fills, is emptied and fills again; two records, of which the second is read by the
  call that began with the first.
- `queue`: blocks of two and four slots (a block's size is doubled when it is made, up
  to MaxSize) and at most three of them; one slot of each stays empty, so six
  elements fill the first block, make a second and a third or wrap around in the ring.
- `kse_library`: key indices inside and just outside the limits (`0`, `8`; `96` for
  certificates), HMAC sizes and arrays that fit one report and that do not, offsets of
  the info file at 0, at one region's end, at the end of the file and beyond. Chunks
  are 3 blocks: a message of 5 takes two, the second short; messages of 3 and of 4
  are at the limit and one above. Three hash calls are a computation that fails, one
  that begins over it, and one after. Counters 0, 2 and 8 of 9: no carry, a carry,
  a wrap.
- `streams`: two sets let a half of the first be left for the second, and each may meet
  any phase of a session; three frames of three bytes have a marker, a middle and a
  checksum, and an order.
- `ports`: two kills and an exit with two failures let a third process meet answers of
  the first (replacing a server without power is not bounded); three bytes of output
  through a buffer of two make a write that waits; one sender that leaves and one that
  stays on the same port, quiet of two ticks.

Every bound is a constant with the word "bound" in its comment. Where it stops the model,
deadlock is not checked (`kse_tls`, `kse_tls_zero`, `kse_transceive`, `queue`, `kse_library`, `kse_key_size`, `streams`, `ports`; in the last the proxy and the serial port also end
by themselves). DimServer and DimClient never stop, and are checked for it.

### Fairness

`DimServer!FairSpec`: weak fairness of the session loop (poll has a timeout, each USB
transfer too, and the sleeps end) and strong fairness of `SpinEnds` (the writer polls
`on_read` without a pause, and the reader leaves it down for a sleep between any two
reads). No fairness is assumed of accept, the handshake, the writer's other steps or
the peer: the handshake may block for ever in the code too. `KseTls!FairSpec`: the
program calls the library again while poll reports input. `KseTransceive!FairSpec`:
every transfer ends, if only by TIMEOUT_MS. `DimClient!FairSpec`: the loop goes on
(poll and the timed wait have timeouts), but not out of a handshake.
`BlockingQueue!FairSpec`: both threads run on within a call, and the consumer's loop
calls wait again and again (strong fairness, as it may call peek in between); the
producer may stop. `MCPorts!FairSpec`: the main thread, the handler and each worker go
on, since transfers have timeouts (nothing makes the operator start or replace a
process: PoweredAgain supposes it); the serial reader goes on and its poll does not fail for ever (strong fairness of Poll), the line sends
what it has taken; the proxy is scheduled, time goes by, and the senders called steady
send. Starts, kills, hang-ups, arrivals, signals and senders that leave have none.

## Proofs

For all values of the constants that satisfy the named assumptions, TLAPS proves:

| theorem | states |
|---|---|
| `DimServerProofs!TypeCorrect` | `Spec => []TypeOK` |
| `DimServerProofs!SessionTheorem` | `Spec => []ServesNewest` |
| `DimServerProofs!LeakTheorem` | `Spec => []LeaksAreErrors` |
| `DimServerProofs!OverlapTheorem` | `Spec => []OverlapAtMostOne` |
| `DimServerProofs!SpinTheorem` | `Spec => []SpinSeesError` |
| `DimServerProofs!StrayTheorem` | `Spec => []OneStrayAtMost` |
| `KseTlsProofs!TypeCorrect` | `Spec => []TypeOK` |
| `KseTlsProofs!RestTheorem` | `Spec => []RestIsCurrent` |
| `KseTlsProofs!RejectionTheorem` | `Spec => []RejectionExplained` |
| `KseTlsProofs!ChannelTheorem` | `Spec => ImplementsChannel` |
| `KseTransceiveProofs!TypeCorrect` | `Spec => []TypeOK` |
| `KseTransceiveProofs!AgeTheorem` | `Spec => []AnswerAge` |
| `KseTransceiveProofs!OwnTheorem` | `Spec => []OwnAnswer` |
| `DimClientProofs!TypeCorrect` | `Spec => []TypeOK` |
| `DimClientProofs!SocketTheorem` | `Spec => []OneSocket` |
| `DimClientProofs!KeysTheorem` | `Spec => []ConnectedHasKeys` |
| `BlockingQueueProofs!SemaphoreTheorem` | `Spec => S!Spec` |
| `BlockingQueueProofs!PermitsTheorem` | `Spec => []PermitsExact` |
| `BlockingQueueProofs!FalseTheorem` | `Spec => S!FalseMeansNoPermit` |
| `BlockingQueueProofs!RingTheorem` | `Spec => []RingIntact` |
| `BlockingQueueProofs!FifoTheorem` | `Spec => ImplementsFifo` |
| `BlockingQueueProofs!ElementsTheorem` | `Spec => []PermitsAreElements` |
| `MCPortsProofs!TypeTheorem` | `Spec => []TypeOK` |
| `MCPortsProofs!PowerTheorem` | `Spec => []UsbConsistent` |
| `MCPortsProofs!StrayTheorem` | `Spec => StrayOnlyAtExit` |
| `MCPortsProofs!ReaderTheorem` | `Spec => []ReaderNeverBlocks` |
| `MCPortsProofs!CutTheorem` | `Spec => CutOnlyByReader` |
| `MCStreamsProofs!TextTheorem` | `Spec => []NoOtherText` |
| `MCStreamsProofs!LossTheorem` | `Spec => []LossExplained` |
| `MCStreamsProofs!AloneTheorem` | `Spec => []AloneDelivered` |
| `MCStreamsProofs!OrderTheorem` | `Spec => []OwnInOrder` |
| `MCKseProofs!StoreTheorem` | `Spec => []KnownIsStored` |
| `MCKseProofs!HashTheorem` | `Spec => []ResultOfMessage` |
| `MCKseProofs!LateTheorem` | `Spec => []LateOnlyShort` |
| `MCKseProofs!SizesTheorem` | `Spec => []SizesRight` |
| `MCKseProofs!PrefixTheorem` | `Spec => []PrefixExact` |

Assumptions: DimServer and DimClient have at least one descriptor, KseTls at least one
record per handshake and per read; commands have at least one block; the queue's first
block has more than one slot, block sizes from the first to the largest double (the
constructor rounds the first up to a power of two with `ceilToPow2` and the largest is
asserted to be one, readerwriterqueue.h:112, 117, 606) and the count of permits room for
all elements; a full chunk and a full hash part do not fit one report; a frame has at
least three bytes; the two sender sets of the proxy are disjoint and its regular senders do
not leave. The bounds are any natural numbers, positive where nothing would happen
otherwise. TLC evaluates all of them.

The argument for DimServer. None of its properties is inductive. `ServesNewest` needs
where each position of the reader comes from, and that descriptors name distinct
connections. `LeaksAreErrors` needs that a connection numbered below `accepted` is
never touched again. `OverlapAtMostOne` needs what the writer may still do at each
position: once `on_read` is up, a writer that has not passed its spin cannot pass it.
`SpinSeesError` needs that a final failure stays visible until it is about an older
connection: while the failed one is the newest, the reader is on its way back to accept
and the error is recorded (`FailureStays`), so a writer past its second test with
`spunErr` set has a newer connection under its descriptor.
`OneStrayAtMost` is the longest: a stray needs a record sealed with the keys of one
session and a descriptor that names another; the invariant ties the keys of a
descriptor (`tls`), the record in the buffer (`wrec`) and the ways a session ended, and
shows that a second stray of the same session would need its keys a second time, which
the open of the newer connection has replaced. Each of these strengthenings is a
lemma chain of its own, with one step per action.

The argument for KseTls. `RestInv`: in the phases in which the program reads, kept input
comes from the present connection and ends where the reading of the socket has got to,
also within a handshake that keeps records. `SequenceInv`: while no call has failed and
nothing was dropped, the first record of the input is the one the device expects; during
a handshake this holds without the proviso, because no write comes before its end and a
failed round leaves it. `DeliveryInv`: the device expects the record after the last one
handed on. Rejection needs the first two, the step refinement needs the first and the
third: a record used is next after the last delivered and has been sent.

The argument for KseTransceive. `AgeInv` counts: for a first block of an answer in the
queue, its place from the front and the calls made since it was sent are together at
most the number of failures, and one more while a report is awaited. A failure adds at
most one report nobody has read, or makes one call that adds none. `OwnInv`: a proper
exchange holds nothing in the queue while it sends and exactly the one report it waits
for after that. With one late report in front, a command of more than one block is
doomed (`Doomed` lists the positions it can still reach): the acknowledgement of its
first block stays one report behind, until one is compared with the wrong block.

The argument for DimClient. The invariant is a table over `pc`: from a close to the end of
the next handshake the status is DISCONNECTED; in the positions between socket and
handshake `fd` is the one descriptor that is open; CONNECTED is set only where the
keys are, or the internal error that looks like success.

The argument for BlockingQueue. Each step of the whole is a step of the semaphore or
leaves it as it is, so `Spec => S!Spec`, and what is proved of the semaphore holds in
the queue. PermitsExact alone is not inductive: a waiter that has seen a positive count
(`take`, `trywait`) relies on that permit being there still, which holds because no
other thread takes any.

The ring itself needs `RingInv`, which says where every element is. There is an order `w`
of the linked blocks, with its inverse `r`, in which `next` leads from each block to the
following one and from the last to the front block, and there is a number `base[b]` of
elements put before those of block `b`, such that slot `i` of `b` holds element `base[b]`
plus its place from the front of `b`; every other slot is empty but for the element being
written or moved out. A step moves these witnesses: `Leave` turns the order by one,
`Link` inserts the new block after the tail block, `Release` raises the base of the front
block. The rest of the invariant is what each thread knows at each place of its code of
indices the other may have moved since: the producer's copy of `front` never runs ahead of
it (`Freed + Count < size`), the consumer's copy of `tail` never ahead of the tail
(`Seen <= Count`), and a consumer that has seen another tail block finds the front block
empty only if no element will ever be put there again. `BlocksFormRing` walks the ring with
a recursive function; that the walk is `w` is shown by its least counterexample
(`LeastNumber`, from the well-foundedness of the natural numbers), which is how induction is
done here. From RingInv follow RingIntact, every step of Fifo, and together with
PermitsExact and the calls in progress, PermitsAreElements.

The argument for MCPorts. A step of the sum is a step of one part and leaves the others
alone. KsePower: the position of the main thread decides handle, context and power; a
process whose library is powered has sent POWER ON to the device, which stays on until
the command POWER OFF, whichever answer the process then read; and no thread of a process
without power is in a transfer. SerialPort: `O_NONBLOCK` is set on a running port only at the
reader's poll and clear or after a poll that timed out, and a `POLLIN` that was seen
stays true because only the reader takes input. UdpProxy: only Receive takes a
datagram, and forwards it when both endpoints are known; while select waits, an
endpoint's quiet is at most `Quiet` more than the wait.

The argument for MCStreams. Autopilot: fragments that came in a row belong to the present
set, and until the last decryption has ended `plain` is zeros or the halves as stored;
whatever spoils kept records is among the causes when it does. ClientParser: a
message that is being copied ends with the thread's own last byte and its checksum
matches, so all of it is of the thread's stream; its number is above all enqueued; and
while a frame is alone the parser holds exactly what the thread has parsed of it.

The argument for MCKse. `LateInv`: until a transfer fails no report is late. In step an
exchange brings its own answer or fails; out of step a command of several blocks does
not succeed. From these the store's slots are as told. For hashes, the computation in
the device is the prefix of the call's message up to `pos`, which a call sets when it
begins; a call that takes a late answer is `behind` from then on. For ciphers, a call
goes on only after whole full chunks, and a chunk short enough for one report is the
last.

SizesRight is about the time after a failure, too. `SizeInv` says what a report can be: a
late one has the length of some command's answer, and an exchange brings the command's own
answer, the late one, or the first block of the late one and the first of its own
(`EndsAre`). A command copies only what has a length it accepts; in the ciphers and hashes
no mixture has one (62, 94 or 120 bytes). A memory is described by the set of contents
each of its slots may have (`Sized`), and each command by whether it writes such contents or
reads slots of one size (`SizedWrite`, `SizedRead`): one argument serves keys, certificates
and files. For ciphers and hashes the late answers are those of chunks and hash
parts (`LateOfChunk`, `LateOfHash`), and the output an array of the message's length into
which pieces are spliced where they belong.

PrefixExact compares chunks with the mode applied to the whole message, where CBC is a
recursive function. Its blocks determine it: a recursive function on every length exists
(`ChainExists`), so what Apply makes of a message satisfies, block by block, an equation
that mentions the block before (`ApplyRuns`), and only one output does (`RunsUnique`); both
are by the least number for which it would fail. The rest of the whole message's
output satisfies the equations of the chunk with the IV for the rest (`RunsOn`), so it is
the chunk's output. `ExactInv` adds to PrefixExact that the IV of a call that goes on is
the one for the rest: the last cipher block, or the first counter plus the blocks done.
That `usSum`, which adds to the last byte and carries to the next, adds modulo the square of
the base is `DigitsAdded`. After a late answer there is no rest (`MixedOnlyAtEnd`).

Every invariant and every action property of the passing runs is stated by one of these
theorems, and so are the three refinements. Only model-checked is liveness (SessionEnds,
WriterLeavesSpin, SocketDrained, CallReturns, Reconnects, QueueMoves,
EveryElementDelivered, PoweredAgain, PortMoves, SteadyConnected), which is outside what
TLAPS proves.

## Not modelled

- Scripts, build files and templates keep no state.
- The MAVLink encoding is generated code of a submodule that is not in the repository.
  ClientParser has the parser as its use shows it.
- In DimServer: `_tls_write_error` and `dim_writing_status`, which decide nothing but a
  sleep; the constructor's socket, bind and listen.
- In KseTls: close notifies and alerts of the peer and the end of the stream (DimServer
  has them as results), and records cut at the end of the buffer.
- In DimClient: the kind of handshake. Whether an abbreviated one succeeds is decided by
  what device and server keep of a session, which is not in the code; the client goes
  through the same steps for either result. The UDP sends to the GCS go to an address
  and return.
- In KseTransceive: lengths within a block.
- In MCKse: an answer late for a command of another group, and a second failed transfer
  (KseTransceive has them for the exchange itself).
- Of the queue: constructors of other sizes and moves, which no thread calls.
- Of the proxy: the statistics of `-v`. Of the serial port: the speeds of the line, which
  are one input.
- SIGPIPE, which ends the process at a write (a kill, in KsePower).

## Plan

Done, in this order: DimServer, KseTls with TlsChannel, KseTransceive, DimClient, the
queues, Autopilot and ClientParser, KsePower, SerialPort and UdpProxy, the library's
commands; each with its proofs as listed. What is left:

1. `Relay`: the composition of threads, queues and sockets from the serial port to UDP,
   with the modules above reduced to Fifo, TlsChannel and the failures KseTransceive
   allows.
2. An exchange with several failures under all command groups at once.
