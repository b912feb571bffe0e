----------------------------- MODULE DimClient -----------------------------
(***************************************************************************)
(* The TLS side of mavlink_dim_client: the thread that connects to the     *)
(* server, reads autopilot messages from it and sends GCS messages to it   *)
(* (start_autopilot_read_write_thread), over one DimSocket.  It is the     *)
(* only thread that uses the socket, and does one thing at a time: poll,   *)
(* read if there is input, send one queued message, and on most errors     *)
(* close and connect again.                                                *)
(*                                                                         *)
(* A step is one call of the kernel or of the kse library.  The server and *)
(* the network are left open: the server may be there or not, send, close  *)
(* or reset the connection at any time, or never answer in a handshake.    *)
(*                                                                         *)
(* Left out: the kind of handshake (what an abbreviated one needs is       *)
(* decided in the devices), _tls_write_error, which nothing reads, records *)
(* kept in the library (KseTls), a device that is not powered on, and the  *)
(* two UDP threads but for the messages they queue.                        *)
(***************************************************************************)
EXTENDS Integers, Sequences

CONSTANTS
  MaxFd,     \* descriptors the process may still open
  MaxInput,  \* bound: records in the socket's receive buffer
  MaxQueue   \* bound: messages in q_to_autopilot

ASSUME DimClientAssumption ==
  MaxFd \in Nat \ {0} /\ MaxInput \in Nat \ {0} /\ MaxQueue \in Nat \ {0}

VARIABLES
  pc,          \* where the thread is
  starting,    \* in the constructor, before the thread runs
  fd,          \* _fd
  pollFd,      \* fds[0].fd
  open,        \* kernel: descriptors of TCP sockets that are open
  link,        \* state of the newest socket
  inbox,       \* what the server sent on it and nobody read yet
  keys,        \* the handshake on it has given both devices keys
  connStatus,  \* _connection_status
  readErr,     \* _tls_read_error
  queued,      \* messages in q_to_autopilot
  serverUp,    \* the server listens and can be reached
  \* History.
  internal     \* the handshake ended with a positive 0x6xxx code

socketVars == <<fd, pollFd, open, link>>
tlsVars == <<keys, connStatus, readErr, internal>>
envVars == <<queued, serverUp>>
vars == <<pc, starting, socketVars, inbox, tlsVars, envVars>>

Fds == 1 .. MaxFd
Kinds == {"msg", "part", "bad", "notify", "alert"}
InLoop == {"initPoll", "poll", "read", "again", "write"}
Pcs == InLoop \cup {"connect", "tlsOpen", "handshake", "close", "dead"}

\* What fds[0].revents tells; no error is raised when the server ends its stream.
\* poll ignores a negative descriptor.
PollErrors == pollFd # -1 /\ (pollFd \notin open \/ link \in {"refused", "reset"})
Readable == pollFd \in open /\ (link = "fin" \/ (link = "up" /\ inbox # <<>>))

Init ==
  /\ pc = "connect" /\ starting = TRUE
  /\ fd = 0 /\ pollFd = 0 /\ open = {} /\ link = "refused"
  /\ inbox = <<>> /\ keys = FALSE /\ connStatus = "DISCONNECTED"
  /\ readErr = FALSE /\ internal = FALSE
  /\ queued = 0 /\ serverUp \in BOOLEAN

-----------------------------------------------------------------------------
(* DimClient::connect.                                                     *)

\* connect returns an error: the loop ignores it and starts over, and open, called
\* by the constructor, closes the socket if the error is -1.
ConnectReturns ==
  /\ pc' = "initPoll" /\ starting' = FALSE
  /\ \/ UNCHANGED open
     \/ starting /\ open' = open \ {fd}

\* ::socket fails and connect throws: the constructor catches it, the loop does not.
SocketFails ==
  /\ pc = "connect"
  /\ fd' = -1
  /\ pc' = IF starting THEN "initPoll" ELSE "dead"
  /\ starting' = FALSE
  /\ UNCHANGED <<pollFd, open, link, inbox, tlsVars, envVars>>

\* ::socket returns the lowest free descriptor.
NewSocket ==
  /\ pc = "connect"
  /\ \E f \in Fds \ open : fd' = f /\ \A g \in Fds \ open : f <= g
  /\ inbox' = <<>> /\ keys' = FALSE
  /\ UNCHANGED <<pollFd, connStatus, readErr, internal, envVars>>

TcpConnect ==
  /\ serverUp
  /\ NewSocket
  /\ open' = open \cup {fd'} /\ link' = "up"
  /\ pc' = "tlsOpen" /\ UNCHANGED starting

\* ::connect returns -1.
TcpRefused ==
  /\ ~serverUp
  /\ NewSocket
  /\ open' = (IF starting THEN open ELSE open \cup {fd'}) /\ link' = "refused"
  /\ pc' = "initPoll" /\ starting' = FALSE

TlsOpen ==
  /\ pc = "tlsOpen"
  /\ \/ pc' = "handshake" /\ UNCHANGED <<starting, open>>
     \/ ConnectReturns
  /\ UNCHANGED <<fd, pollFd, link, inbox, tlsVars, envVars>>

\* Mutant: the result of the handshake is ignored.
HandshakeAlwaysConnects ==
  /\ pc = "handshake"
  /\ \E r \in {"ok", "internal", "fail"} : keys' = (r = "ok") /\ internal' = (r = "internal")
  /\ connStatus' = "CONNECTED" /\ readErr' = FALSE
  /\ pc' = "initPoll" /\ starting' = FALSE
  /\ UNCHANGED <<socketVars, inbox, envVars>>

\* A positive result is none of the errors that connect tests for.
Handshake ==
  /\ pc = "handshake"
  /\ \/ /\ \E r \in {"ok", "internal"} : keys' = (r = "ok") /\ internal' = (r = "internal")
        /\ connStatus' = "CONNECTED" /\ readErr' = FALSE
        /\ pc' = "initPoll" /\ starting' = FALSE
        /\ UNCHANGED open
     \/ ConnectReturns /\ UNCHANGED tlsVars
  /\ UNCHANGED <<fd, pollFd, link, inbox, envVars>>

-----------------------------------------------------------------------------
(* The loop.                                                               *)

InitPoll ==
  /\ pc = "initPoll"
  /\ pollFd' = fd
  /\ pc' = "poll"
  /\ UNCHANGED <<starting, fd, open, link, inbox, tlsVars, envVars>>

\* Mutant: a hang-up is not looked for.
PollWithoutHup ==
  /\ pc = "poll"
  /\ \/ pollFd # -1 /\ pollFd \notin open /\ pc' = "close"
     \/ Readable /\ pc' = "read"
  /\ UNCHANGED <<starting, socketVars, inbox, tlsVars, envVars>>

\* poll reports an error or input.  Without either the loop polls again: nothing
\* is sent then.
Poll ==
  /\ pc = "poll"
  /\ \/ PollErrors /\ pc' = "close"
     \/ ~PollErrors /\ Readable /\ pc' = "read"
  /\ UNCHANGED <<starting, socketVars, inbox, tlsVars, envVars>>

\* What DimSocket::recv may return for the input (see DimServer).
Answer == [msg |-> "data", part |-> "part", notify |-> "notify", alert |-> "alert",
           bad |-> "zero"]

Results ==
  {"error"} \cup
  (IF link = "reset" THEN {} ELSE
   IF inbox = <<>> THEN {"zero"} ELSE {"part", IF keys THEN Answer[Head(inbox)] ELSE "zero"})

\* autopilot_read_message returns 1 at once when not connected.
ReadUnconnected ==
  /\ pc = "read" /\ connStatus # "CONNECTED"
  /\ pc' = "write"
  /\ UNCHANGED <<starting, socketVars, inbox, tlsVars, envVars>>

\* Mutant: the loop polls again, before it writes, when no message came.
ReadPollsAgain ==
  /\ pc \in {"read", "again"} /\ connStatus = "CONNECTED"
  /\ Readable \/ link = "reset"
  /\ \E r \in Results :
       /\ readErr' = (r \in {"notify", "alert", "error"})
       /\ pc' = CASE r = "part" -> "again"
                  [] r = "zero" -> "poll"
                  [] r \in {"notify", "error"} -> "close"
                  [] OTHER -> "write"
  /\ inbox' = IF inbox = <<>> THEN inbox ELSE Tail(inbox)
  /\ UNCHANGED <<starting, socketVars, keys, connStatus, internal, envVars>>

\* recv polls once more and calls _ksetlsTlsRead.  A close notify and an error
\* close the connection, a fatal alert does not.
Read ==
  /\ pc \in {"read", "again"} /\ connStatus = "CONNECTED"
  /\ Readable \/ link = "reset"
  /\ \E r \in Results :
       /\ readErr' = (r \in {"notify", "alert", "error"})
       /\ pc' = CASE r = "part" -> "again"
                  [] r \in {"notify", "error"} -> "close"
                  [] OTHER -> "write"
  /\ inbox' = IF inbox = <<>> THEN inbox ELSE Tail(inbox)
  /\ UNCHANGED <<starting, socketVars, keys, connStatus, internal, envVars>>

\* recv finds nothing to complete a message with, and returns 0.
ReadNothing ==
  /\ pc = "again" /\ connStatus = "CONNECTED"
  /\ ~Readable /\ link # "reset"
  /\ pc' = "write"
  /\ UNCHANGED <<starting, socketVars, inbox, tlsVars, envVars>>

\* autopilot_write_message: one message is dequeued and sent; it is gone also if
\* the client is not connected or send gives it up, and when sending fails the
\* connection is closed.
Write ==
  /\ pc = "write"
  /\ \/ queued = 0 /\ pc' = "poll" /\ UNCHANGED queued
     \/ queued > 0 /\ queued' = queued - 1 /\ pc' = "poll"
     \/ /\ queued > 0 /\ connStatus = "CONNECTED" /\ ~readErr
        /\ queued' = queued - 1 /\ pc' = "close"
  /\ UNCHANGED <<starting, socketVars, inbox, tlsVars, serverUp>>

\* Mutant: ::close is left out, as in the paths of connect.
CloseTlsOnly ==
  /\ pc = "close"
  /\ connStatus' = "DISCONNECTED" /\ keys' = FALSE
  /\ pc' = "connect"
  /\ UNCHANGED <<starting, socketVars, inbox, readErr, internal, envVars>>

\* DimSocket::close, always followed by connect.
Close ==
  /\ pc = "close"
  /\ connStatus' = "DISCONNECTED" /\ keys' = FALSE
  /\ open' = open \ {fd}
  /\ pc' = "connect"
  /\ UNCHANGED <<starting, fd, pollFd, link, inbox, readErr, internal, envVars>>

-----------------------------------------------------------------------------
(* The server, the network and the UDP thread that queues messages.        *)

ServerSends ==
  /\ fd \in open /\ link = "up" /\ Len(inbox) < MaxInput
  /\ pc \in InLoop
  /\ \E k \in Kinds : inbox' = Append(inbox, k)
  /\ UNCHANGED <<pc, starting, socketVars, tlsVars, envVars>>

ServerCloses ==
  /\ fd \in open /\ link \in {"up", "fin"}
  /\ link' \in {"fin", "reset"}
  /\ UNCHANGED <<pc, starting, fd, pollFd, open, inbox, tlsVars, envVars>>

ServerStartsOrStops ==
  /\ serverUp' = ~serverUp
  /\ UNCHANGED <<pc, starting, socketVars, inbox, tlsVars, queued>>

GcsQueues ==
  /\ queued < MaxQueue
  /\ queued' = queued + 1
  /\ UNCHANGED <<pc, starting, socketVars, inbox, tlsVars, serverUp>>

-----------------------------------------------------------------------------

LoopStep ==
  \/ TcpConnect \/ TcpRefused \/ TlsOpen \/ InitPoll \/ Poll \/ ReadUnconnected \/ Read
  \/ ReadNothing \/ Write \/ Close

Next ==
  \/ LoopStep \/ SocketFails \/ Handshake
  \/ ServerSends \/ ServerCloses \/ ServerStartsOrStops \/ GcsQueues

Spec == Init /\ [][Next]_vars

\* The thread goes on, except in a handshake, whose reads have no timeout.
FairSpec == Spec /\ WF_vars(LoopStep)

-----------------------------------------------------------------------------

\* Every variable has its type.
TypeOK ==
  /\ pc \in Pcs /\ starting \in BOOLEAN
  /\ fd \in Fds \cup {0, -1} /\ pollFd \in Fds \cup {0, -1} /\ open \subseteq Fds
  /\ link \in {"refused", "up", "fin", "reset"} /\ inbox \in Seq(Kinds)
  /\ keys \in BOOLEAN /\ connStatus \in {"CONNECTED", "DISCONNECTED"}
  /\ readErr \in BOOLEAN /\ internal \in BOOLEAN
  /\ queued \in 0 .. MaxQueue /\ serverUp \in BOOLEAN

(***************************************************************************)
(* Unlike the server, the client leaks no socket: every path to connect    *)
(* goes through close, so that _fd is the only one open, and poll and send *)
(* use the same.                                                           *)
(***************************************************************************)
OneSocket ==
  /\ open \subseteq {fd}
  /\ pc = "connect" => open = {}
  /\ pc \in {"poll", "read", "again", "write"} => pollFd = fd

(***************************************************************************)
(* Unlike the server, the client is connected only after a handshake that  *)
(* gave it keys, unless the device reported an internal error.             *)
(***************************************************************************)
ConnectedHasKeys ==
  connStatus = "CONNECTED" => fd \in open /\ (keys \/ internal)

\* What nobody owes the client: the answers of a handshake, input or a hang-up on a
\* connection that is not CONNECTED, a descriptor after ::socket failed in the
\* constructor, more than the end of the stream.
Stuck ==
  \/ pc \in {"dead", "handshake"}
  \/ pc \in InLoop /\ connStatus = "DISCONNECTED" /\ link \in {"up", "fin"}
  \/ pc \in InLoop /\ fd = -1
  \/ link = "fin"

(***************************************************************************)
(* With a server that is there for good, the client is connected to it or  *)
(* tries to be again and again, unless it is stuck in one of these ways.   *)
(* A refused or reset connection, a close notify and a failing read or     *)
(* write never stop it (the close and connect of the loop).                *)
(***************************************************************************)
Reconnects ==
  <>[]serverUp =>
    []<>(pc = "tlsOpen" \/ (connStatus = "CONNECTED" /\ link = "up")) \/ <>[]Stuck

(***************************************************************************)
(* The thread looks at the queue only after poll has told of input         *)
(* (client.cpp 194), so that a silent server holds up the other direction  *)
(* too.  If again and again there is something to read - a record, or the  *)
(* end of the stream, on any connection, also one that is not CONNECTED -  *)
(* the queue does not stay full, whatever the reads make of it, unless     *)
(* from some time on reads only give parts of messages (the loop of        *)
(* autopilot_read_message goes on), every connection ends before it is     *)
(* written to, or the thread hangs in a handshake or has ended.            *)
(***************************************************************************)
QueueMoves ==
  []<>Readable =>
    \/ []<>(queued < MaxQueue)
    \/ <>[](pc \in {"read", "again"})
    \/ []<>(pc = "close")
    \/ <>[](pc \in {"handshake", "dead"})
=============================================================================
