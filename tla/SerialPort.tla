----------------------------- MODULE SerialPort -----------------------------
(***************************************************************************)
(* The serial port to the autopilot (serial_port.cpp) between the two      *)
(* threads of the server that use it: one reads bytes, the other writes    *)
(* messages, on one descriptor and without a lock (the calls of the mutex  *)
(* are commented out).  The reader sets and clears O_NONBLOCK around its   *)
(* poll; the flag belongs to the open file, so the writer is subject to    *)
(* it.  A step is one system call.                                         *)
(*                                                                         *)
(* The kernel takes at most Room bytes of output at a time and sends them  *)
(* on.  A write that finds no room waits, unless O_NONBLOCK is set: then   *)
(* it returns what it has written so far, or an error if that is nothing.  *)
(* The device may hang up (a USB converter is unplugged) at any time.      *)
(***************************************************************************)
EXTENDS Integers, FiniteSetsExt

CONSTANTS
  MaxInput,  \* bound: bytes that arrive
  MsgLen,    \* bytes of a message to the autopilot
  Room       \* bytes of output the kernel buffers

VARIABLES
  phase,     \* "start", "opened", "running", "thrown", "stopped"
  fd,        \* fd and fds.fd
  flags,     \* O_NONBLOCK in flags
  nonblock,  \* O_NONBLOCK of the open file
  hungup,    \* the device is gone
  arrived,   \* bytes received by the kernel
  consumed,  \* bytes the program has read
  rpc,       \* the reader: "idle", "poll", "clear", "test", "read"
  revents,   \* POLLIN in fds.revents
  quiet,     \* the last poll has timed out
  wpc,       \* the writer: "idle", "write"
  left,      \* bytes of the message not yet written
  outBuf,    \* bytes in the kernel's output buffer
  ret        \* result of the last write_message

portVars   == <<phase, fd, flags>>
readerVars == <<consumed, rpc, revents, quiet>>
writerVars == <<wpc, left, ret>>
vars == <<portVars, nonblock, hungup, arrived, readerVars, writerVars, outBuf>>

Input == arrived - consumed
Open == phase \in {"opened", "running"}

Init ==
  /\ phase = "start" /\ fd = -1 /\ flags = FALSE
  /\ nonblock = FALSE /\ hungup = FALSE /\ arrived = 0
  /\ consumed = 0 /\ rpc = "idle" /\ revents = FALSE /\ quiet = FALSE
  /\ wpc = "idle" /\ left = 0 /\ ret = 0 /\ outBuf = 0

-----------------------------------------------------------------------------
(* start and stop *)

\* _open_port: open with O_NDELAY, then back to blocking calls.  The lowest
\* free number is 0 if the program was started without standard input.
OpenPort ==
  /\ phase = "start"
  /\ \E n \in {-1, 0, 3} :
       /\ fd' = n
       /\ phase' = IF n = -1 THEN "thrown" ELSE "opened"
  /\ nonblock' = FALSE
  /\ UNCHANGED <<flags, hungup, arrived, readerVars, writerVars, outBuf>>

\* _setup_port fails for what is not a terminal, for a baud rate it does not
\* know, and when a call fails; else raw mode is set and the input flushed.
SetupResults == BOOLEAN

\* The checks of start().  Both failures are exceptions that nothing catches.
SetupPort ==
  /\ phase = "opened"
  /\ flags' = nonblock
  /\ \E success \in SetupResults :
       /\ phase' = IF success /\ fd > 0 THEN "running" ELSE "thrown"
       /\ consumed' = IF success THEN arrived ELSE consumed
  /\ UNCHANGED <<fd, nonblock, hungup, arrived, rpc, revents, quiet, writerVars, outBuf>>

\* stop(): close.  fd keeps its value; the threads are not told.
Stop ==
  /\ phase = "running" /\ phase' = "stopped"
  /\ UNCHANGED <<fd, flags, nonblock, hungup, arrived, readerVars, writerVars, outBuf>>

-----------------------------------------------------------------------------
(* read_message, called in an endless loop *)

SetNonblock ==
  /\ phase \in {"running", "stopped"}
  /\ rpc = "idle" /\ rpc' = "poll"
  /\ revents' = FALSE
  /\ nonblock' = (Open \/ nonblock)
  /\ UNCHANGED <<portVars, hungup, arrived, consumed, quiet, writerVars, outBuf>>

\* poll sees input or a hang-up (both are POLLIN for a terminal), or the
\* closed descriptor (POLLNVAL).
Poll ==
  /\ rpc = "poll" /\ rpc' = "clear"
  /\ IF Open THEN Input > 0 \/ hungup ELSE TRUE
  /\ revents' = Open
  /\ quiet' = FALSE
  /\ UNCHANGED <<portVars, nonblock, hungup, arrived, consumed, writerVars, outBuf>>

\* poll fails: its result is not 0, and revents stays empty.
PollFails ==
  /\ rpc = "poll" /\ rpc' = "clear"
  /\ quiet' = FALSE
  /\ UNCHANGED <<portVars, nonblock, hungup, arrived, consumed, revents, writerVars, outBuf>>

\* Mutant: a time-out, too, goes on to the second fcntl and the read.
PollTimeoutGoesOn ==
  /\ rpc = "poll" /\ Open /\ Input = 0 /\ ~hungup
  /\ rpc' = "clear" /\ revents' = TRUE /\ quiet' = TRUE
  /\ UNCHANGED <<portVars, nonblock, hungup, arrived, consumed, writerVars, outBuf>>

\* No input for 100 ms: read_message returns and leaves O_NONBLOCK set.
PollTimeout ==
  /\ rpc = "poll" /\ Open /\ Input = 0 /\ ~hungup
  /\ rpc' = "idle"
  /\ quiet' = TRUE
  /\ UNCHANGED <<portVars, nonblock, hungup, arrived, consumed, revents, writerVars, outBuf>>

\* Mutant: the flag is not restored.
KeepNonblock ==
  /\ rpc = "clear" /\ rpc' = "test"
  /\ UNCHANGED <<portVars, nonblock, hungup, arrived, consumed, revents, quiet, writerVars, outBuf>>

ClearNonblock ==
  /\ rpc = "clear" /\ rpc' = "test"
  /\ nonblock' = IF Open THEN flags ELSE nonblock
  /\ UNCHANGED <<portVars, hungup, arrived, consumed, revents, quiet, writerVars, outBuf>>

\* Mutant: the byte is read when there is none.
TestInverted ==
  /\ rpc = "test"
  /\ rpc' = IF revents THEN "idle" ELSE "read"
  /\ UNCHANGED <<portVars, nonblock, hungup, arrived, consumed, revents, quiet, writerVars, outBuf>>

TestRevents ==
  /\ rpc = "test"
  /\ rpc' = IF revents THEN "read" ELSE "idle"
  /\ UNCHANGED <<portVars, nonblock, hungup, arrived, consumed, revents, quiet, writerVars, outBuf>>

\* _read_port: one byte, which goes to the parser.  The read of a port that
\* has hung up or is closed fails.  Without input a blocking read waits.
ReadByte ==
  /\ rpc = "read" /\ rpc' = "idle"
  /\ \/ (Input > 0 /\ ~hungup) /\ consumed' = consumed + 1
     \/ (hungup \/ ~Open \/ (nonblock /\ Input = 0)) /\ UNCHANGED consumed
  /\ UNCHANGED <<portVars, nonblock, hungup, arrived, revents, quiet, writerVars, outBuf>>

-----------------------------------------------------------------------------
(* write_message *)

\* The descriptor is closed: write fails.
WriteClosed ==
  /\ phase = "stopped" /\ wpc = "idle"
  /\ ret' = -1
  /\ UNCHANGED <<portVars, nonblock, hungup, arrived, readerVars, wpc, left, outBuf>>

WriteMessage ==
  /\ phase = "running"
  /\ wpc = "idle" /\ wpc' = "write"
  /\ left' = MsgLen
  /\ UNCHANGED <<portVars, nonblock, hungup, arrived, readerVars, ret, outBuf>>

Return(result) ==
  /\ wpc' = "idle" /\ left' = 0 /\ ret' = result

\* Within write(): the kernel takes what there is room for.
WriteSome ==
  /\ wpc = "write" /\ ~hungup
  /\ outBuf < Room
  /\ LET n == Min({left, Room - outBuf})
     IN /\ outBuf' = outBuf + n
        /\ IF n = left THEN Return(MsgLen)
                       ELSE left' = left - n /\ UNCHANGED <<wpc, ret>>
  /\ UNCHANGED <<portVars, nonblock, hungup, arrived, readerVars>>

\* No room, and O_NONBLOCK is set: the rest of the message is given up.
WriteShort ==
  /\ wpc = "write" /\ ~hungup
  /\ outBuf = Room /\ nonblock
  /\ Return(IF left = MsgLen THEN -1 ELSE MsgLen - left)
  /\ UNCHANGED <<portVars, nonblock, hungup, arrived, readerVars, outBuf>>

WriteFails ==
  /\ wpc = "write" /\ hungup
  /\ Return(IF left = MsgLen THEN -1 ELSE MsgLen - left)
  /\ UNCHANGED <<portVars, nonblock, hungup, arrived, readerVars, outBuf>>

-----------------------------------------------------------------------------
(* the line *)

Arrive ==
  /\ Open /\ ~hungup /\ arrived < MaxInput
  /\ arrived' = arrived + 1
  /\ UNCHANGED <<portVars, nonblock, hungup, readerVars, writerVars, outBuf>>

Drain ==
  /\ outBuf > 0
  /\ outBuf' = outBuf - 1
  /\ UNCHANGED <<portVars, nonblock, hungup, arrived, readerVars, writerVars>>

HangUp ==
  /\ phase \in {"opened", "running", "stopped"} /\ ~hungup
  /\ hungup' = TRUE
  /\ outBuf' = 0
  /\ UNCHANGED <<portVars, nonblock, arrived, readerVars, writerVars>>

-----------------------------------------------------------------------------

Reader == SetNonblock \/ Poll \/ PollFails \/ PollTimeout \/ ClearNonblock \/ TestRevents \/ ReadByte
WriteEnds == WriteSome \/ WriteShort \/ WriteFails
Next == \/ OpenPort \/ SetupPort \/ Stop
        \/ Reader \/ WriteMessage \/ WriteClosed \/ WriteEnds
        \/ Arrive \/ Drain \/ HangUp

Spec == Init /\ [][Next]_vars

\* The reader never pauses for long, the line sends what it is given, and
\* poll does not fail for ever.
FairSpec == Spec /\ WF_vars(Reader) /\ SF_vars(Poll) /\ WF_vars(WriteEnds) /\ WF_vars(Drain)

-----------------------------------------------------------------------------

TypeOK ==
  /\ phase \in {"start", "opened", "running", "thrown", "stopped"}
  /\ fd \in {-1, 0, 3}
  /\ flags \in BOOLEAN /\ nonblock \in BOOLEAN /\ hungup \in BOOLEAN
  /\ arrived \in 0 .. MaxInput /\ consumed \in 0 .. arrived
  /\ rpc \in {"idle", "poll", "clear", "test", "read"}
  /\ revents \in BOOLEAN /\ quiet \in BOOLEAN
  /\ wpc \in {"idle", "write"} /\ left \in 0 .. MsgLen
  /\ outBuf \in 0 .. Room
  /\ ret \in -1 .. MsgLen

(***************************************************************************)
(* The reader comes to its blocking read only when there is a byte, or     *)
(* when the read fails at once: it does not stop in it (serial_port.cpp    *)
(* 134-143), and the port it uses was configured.                          *)
(***************************************************************************)
ReaderNeverBlocks == rpc = "read" => fd > 0 /\ (Input > 0 \/ hungup \/ ~Open)

(***************************************************************************)
(* A message is cut short, on a port that works, only in a window the      *)
(* reader has opened: between its two fcntl calls, or after a poll that    *)
(* timed out, which leaves O_NONBLOCK set until the next input.            *)
(***************************************************************************)
CutOnlyByReader ==
  [][/\ wpc = "write" /\ wpc' = "idle"
     /\ ret' # MsgLen /\ Open /\ ~hungup
     => rpc \in {"poll", "clear"} \/ quiet]_vars

(***************************************************************************)
(* Every byte that arrives is read, unless the port hangs up or is closed. *)
(***************************************************************************)
InputConsumed ==
  \A n \in 1 .. MaxInput : arrived = n ~> consumed >= n \/ hungup \/ phase # "running"

(***************************************************************************)
(* The writer does not stay in write_message: the queue behind it moves.   *)
(***************************************************************************)
WriteReturns == wpc = "write" ~> wpc = "idle"
=============================================================================
