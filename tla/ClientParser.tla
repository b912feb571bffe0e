---------------------------- MODULE ClientParser ---------------------------
(***************************************************************************)
(* Two threads of the client parse MAVLink on channel MAVLINK_COMM_0: the  *)
(* one that receives datagrams of the GCS (client.cpp 36-62) and the one   *)
(* that reads the TLS connection (98-128).  The parser keeps the frame     *)
(* begun by one call of mavlink_parse_char for the next, per channel.      *)
(*                                                                         *)
(* A frame is Size bytes, the first its marker and the last its checksum.  *)
(* The parser is external, as its use shows it: a byte at a time, the      *)
(* message given out with its last byte.  It is copied to the caller in a  *)
(* step of its own, and torn if the other thread has a byte parsed         *)
(* meanwhile; other overlaps within a call are left out.  A checksum       *)
(* matches nothing but its own frame; any byte may look like a marker.     *)
(***************************************************************************)
EXTENDS Integers, Sequences

CONSTANTS
  Size,       \* bytes of a frame
  MaxFrames,  \* bound: frames of a stream
  MaxChunk    \* bound: frames in a datagram or a record

Threads == {"gcs", "dim"}
Peer(t) == IF t = "gcs" THEN "dim" ELSE "gcs"

VARIABLES
  frame, byte,  \* per thread: the frame and byte of its stream it parsed last
  chunk,        \* per thread: frames of its buffer still to be parsed
  state,        \* the parser: the bytes of the frame begun, << >> when idle
  copying,      \* per thread: the bytes of the message it copies, or << >>
  torn,         \* per thread: another byte was taken meanwhile
  queued,       \* per thread: the messages enqueued
  \* History.
  alone         \* per thread: the present frame began with the parser idle, and
                \* no byte of the other thread has come since

streamVars == <<frame, byte, chunk>>
vars == <<streamVars, state, copying, torn, queued, alone>>

Init ==
  /\ frame = [t \in Threads |-> 0] /\ byte = [t \in Threads |-> Size]
  /\ chunk = [t \in Threads |-> 0] /\ state = <<>>
  /\ copying = [t \in Threads |-> <<>>] /\ torn = [t \in Threads |-> FALSE]
  /\ queued = [t \in Threads |-> <<>>] /\ alone = [t \in Threads |-> FALSE]

\* The next byte of the buffer of thread t.
Begins(t) == byte[t] = Size
NextFrame(t) == IF Begins(t) THEN frame[t] + 1 ELSE frame[t]
NextByte(t) == [of |-> t, n |-> NextFrame(t), i |-> IF Begins(t) THEN 1 ELSE byte[t] + 1]

\* Frame n of the stream of thread t as a message, and the torn ones.
Message(t, n) == [of |-> t, n |-> n]
Torn == [of |-> "torn", n |-> 0]

-----------------------------------------------------------------------------
(* The channel's parser.                                                   *)

\* Mutant: the checksum is not looked at.
IsFrameUnchecked(s) == TRUE

IsFrame(s) == \A i \in 1 .. Size : s[i] = [of |-> s[1].of, n |-> s[1].n, i |-> i]

\* Mutant: what looks like a marker begins a frame within another, too.
ParsedRestarts(s, b) ==
  IF s = <<>> THEN IF b.i = 1 THEN {<<b>>} ELSE {<<>>, <<b>>}
  ELSE IF Len(s) < Size - 1 \/ IsFrame(Append(s, b)) THEN {Append(s, b), <<b>>}
  ELSE {<<>>, <<b>>}

\* What the parser may hold after byte b.  Out of a frame it waits for a marker.
Parsed(s, b) ==
  IF s = <<>> THEN IF b.i = 1 THEN {<<b>>} ELSE {<<>>, <<b>>}
  ELSE IF Len(s) < Size - 1 \/ IsFrame(Append(s, b)) THEN {Append(s, b)}
  ELSE {<<>>, <<b>>}

-----------------------------------------------------------------------------
(* gcs_read_message and autopilot_read_message.                            *)

Idle(t) == copying[t] = <<>>

\* recvfrom or recv: the buffer holds one frame or more.
Receive(t) ==
  /\ Idle(t) /\ chunk[t] = 0 /\ frame[t] < MaxFrames
  /\ \E k \in 1 .. MaxChunk : frame[t] + k <= MaxFrames /\ chunk' = [chunk EXCEPT ![t] = k]
  /\ UNCHANGED <<frame, byte, state, copying, torn, queued, alone>>

\* mavlink_parse_char; its message is complete with the last byte.
ParseChar(t) ==
  /\ Idle(t) /\ chunk[t] > 0
  /\ LET b == NextByte(t) IN
       /\ frame' = [frame EXCEPT ![t] = b.n] /\ byte' = [byte EXCEPT ![t] = b.i]
       /\ chunk' = [chunk EXCEPT ![t] = IF b.i = Size THEN @ - 1 ELSE @]
       /\ \E s \in Parsed(state, b) :
            IF Len(s) = Size
            THEN state' = <<>> /\ copying' = [copying EXCEPT ![t] = s]
            ELSE state' = s /\ UNCHANGED copying
       /\ alone' = [u \in Threads |->
                      IF u # t THEN FALSE
                      ELSE IF b.i = 1 THEN state = <<>> /\ Idle(Peer(t)) ELSE alone[t]]
       /\ torn' = [u \in Threads |-> IF u = t THEN FALSE ELSE torn[u] \/ ~Idle(u)]
  /\ UNCHANGED queued

\* The message that has been copied.
Enqueued(t) == IF torn[t] THEN Torn ELSE Message(copying[t][1].of, copying[t][1].n)

Enqueue(t) ==
  /\ ~Idle(t) /\ copying' = [copying EXCEPT ![t] = <<>>]
  /\ queued' = [queued EXCEPT ![t] = Append(@, Enqueued(t))]
  /\ UNCHANGED <<streamVars, state, torn, alone>>

Next == \E t \in Threads : Receive(t) \/ ParseChar(t) \/ Enqueue(t)

Spec == Init /\ [][Next]_vars

-----------------------------------------------------------------------------

Bytes == [of : Threads, n : 1 .. MaxFrames, i : 1 .. Size]
Messages == [of : Threads, n : 1 .. MaxFrames] \cup {Torn}

TypeOK ==
  /\ frame \in [Threads -> 0 .. MaxFrames] /\ byte \in [Threads -> 1 .. Size]
  /\ chunk \in [Threads -> 0 .. MaxChunk]
  /\ state \in Seq(Bytes) /\ Len(state) < Size
  /\ copying \in [Threads -> Seq(Bytes)] /\ torn \in [Threads -> BOOLEAN]
  /\ queued \in [Threads -> Seq(Messages)] /\ alone \in [Threads -> BOOLEAN]

(***************************************************************************)
(* A frame whose first byte finds the parser idle and the other thread not *)
(* copying a message, and between whose bytes none of the other thread's   *)
(* is parsed, is enqueued.  One that starts behind half a frame of the     *)
(* other stream may be lost with it.                                       *)
(***************************************************************************)
AloneDelivered ==
  \A t \in Threads :
    alone[t] /\ byte[t] = Size /\ Idle(t) =>
      queued[t] # <<>> /\ queued[t][Len(queued[t])] = Message(t, frame[t])

(***************************************************************************)
(* What is not torn is a message of the thread's own stream, never of the  *)
(* other's, enqueued once and in order, however the bytes were mixed.      *)
(***************************************************************************)
OwnInOrder ==
  \A t \in Threads : \A j \in DOMAIN queued[t] : queued[t][j] # Torn =>
    /\ queued[t][j].of = t
    /\ \A i \in 1 .. j - 1 : queued[t][i] # Torn => queued[t][i].n < queued[t][j].n
=============================================================================
