----------------------------- MODULE MCStreams ------------------------------
(***************************************************************************)
(* Finite instance of the two places where MAVLink messages are put        *)
(* together from pieces: encapsulated data in the server (Autopilot) and   *)
(* frames in the client (ClientParser).  They are in different processes   *)
(* and share no state: the initial state chooses one, the other stays as   *)
(* it began, and every behaviour of each is a behaviour of this module.    *)
(***************************************************************************)
EXTENDS Integers

CONSTANTS MaxSets, MaxFails, Size, MaxFrames, MaxChunk

ASSUME MCStreamsAssumption ==
  /\ {MaxSets, MaxFails, MaxFrames} \subseteq Nat
  /\ Size \in Nat \ (0 .. 2) /\ MaxChunk \in Nat \ {0}

VARIABLES
  part,  \* the component that takes steps
  set, seq, halves, uses, over, outOfStep, tag, plain, session, kept, fails, row, whole,
  disturbed, gap, causes, broken,
  frame, byte, chunk, state, copying, torn, queued, alone

Server == INSTANCE Autopilot
Client == INSTANCE ClientParser

serverVars == <<set, seq, halves, uses, over, outOfStep, tag, plain, session, kept, fails, row,
                whole, disturbed, gap, causes, broken>>
clientVars == <<frame, byte, chunk, state, copying, torn, queued, alone>>
vars == <<part, serverVars, clientVars>>

Init == part \in {"server", "client"} /\ Server!Init /\ Client!Init

Next ==
  \/ part = "server" /\ Server!Next /\ UNCHANGED <<part, clientVars>>
  \/ part = "client" /\ Client!Next /\ UNCHANGED <<part, serverVars>>

Spec == Init /\ [][Next]_vars

-----------------------------------------------------------------------------

(***************************************************************************)
(* Of the server (Autopilot): a set that comes as a whole is deciphered    *)
(* and no other text is shown; a rejected record of the session is         *)
(* explained by a use of the buffer that was not the session's.            *)
(***************************************************************************)
NoOtherText == Server!TypeOK /\ Server!WholeDeciphered /\ Server!NoOtherText
LossExplained == Server!LossExplained

(***************************************************************************)
(* Of the client (ClientParser): a frame that finds the parser idle and is *)
(* not disturbed is enqueued, and a thread's messages that are not torn    *)
(* are its own, in order.                                                  *)
(***************************************************************************)
AloneDelivered == Client!AloneDelivered
OwnInOrder == Client!TypeOK /\ Client!OwnInOrder
=============================================================================
