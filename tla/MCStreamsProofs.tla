--------------------------- MODULE MCStreamsProofs ---------------------------
(***************************************************************************)
(* Theorems about the two places where MAVLink messages are put together   *)
(* from pieces (MCStreams): encapsulated data in the server, for any       *)
(* number of sets and failures, and frames in the client, for frames of    *)
(* any size and streams of any length.  A step of the whole is a step of   *)
(* one of them or leaves it alone.                                         *)
(***************************************************************************)
EXTENDS MCStreams, Sequences, TLAPS

LEMMA Components == Spec => Server!Spec /\ Client!Spec
  <1>1. Init => Server!Init /\ Client!Init
    BY DEF Init
  <1>2. [Next]_vars => [Server!Next]_(Server!vars)
    BY DEF Next, vars, serverVars, Server!vars, Server!lineVars, Server!textVars,
           Server!libVars, Server!tlsVars
  <1>3. [Next]_vars => [Client!Next]_(Client!vars)
    BY DEF Next, vars, clientVars, Client!vars, Client!streamVars
  <1> QED BY <1>1, <1>2, <1>3, PTL DEF Spec, Server!Spec, Client!Spec

-----------------------------------------------------------------------------
(* Encapsulated data in the server.  Three facts make it inductive.        *)
(* Fragments counted in a row are of the present set.  While the device    *)
(* deciphers, plain_text is zeros and the halves are those it was given.   *)
(* And whatever spoils the kept records of a session, or leaves one out,   *)
(* is among the causes when it happens.                                    *)

LEMMA Bounds ==
  MaxSets \in Nat /\ MaxFails \in Nat /\ MaxFrames \in Nat /\ Size \in Nat /\ Size > 2
  /\ MaxChunk \in Nat
  BY MCStreamsAssumption

\* A use of the library, whoever's it is.
UseTyped ==
  /\ uses \subseteq Server!Uses /\ over \subseteq uses /\ outOfStep \in BOOLEAN
  /\ fails \in 0 .. MaxFails

LEMMA BeginTyped ==
  ASSUME UseTyped, NEW u \in Server!Uses, Server!Begin(u)
  PROVE  UseTyped'
  BY DEF UseTyped, Server!Begin

LEMMA EndTyped ==
  ASSUME UseTyped, NEW u,
         Server!EndAlone(u) \/ Server!EndFailed(u) \/ Server!EndMixed(u)
  PROVE  UseTyped'
  <1>1. uses' \subseteq Server!Uses /\ over' \subseteq uses'
    BY DEF UseTyped, Server!EndAlone, Server!EndFailed, Server!EndMixed, Server!Leave
  <1>2. outOfStep' \in BOOLEAN
    BY DEF UseTyped, Server!EndAlone, Server!EndFailed, Server!EndMixed
  <1>3. fails' \in 0 .. MaxFails
    <2>1. fails' = fails \/ (fails < MaxFails /\ fails' = fails + 1)
      BY DEF Server!EndAlone, Server!EndFailed, Server!EndMixed
    <2>2. fails \in 0 .. MaxFails
      BY DEF UseTyped
    <2> QED BY <2>1, <2>2, Bounds
  <1> QED BY <1>1, <1>2, <1>3 DEF UseTyped

\* The line and the text.
LineTyped ==
  /\ set \in 0 .. MaxSets /\ seq \in 0 .. 2 /\ halves \in [0 .. 1 -> 0 .. set]
  /\ tag \in 0 .. set /\ plain \in {Server!Other, 0, tag}
  /\ row \in 0 .. 2 /\ whole \in BOOLEAN /\ disturbed \in BOOLEAN

\* The session.
SessionTyped ==
  /\ session \in Server!Phases /\ kept \in {"none", "records", "spoiled"} /\ gap \in BOOLEAN
  /\ causes \subseteq {"decrypt", "write", "overlap", "failure"} /\ broken \in BOOLEAN

LEMMA AutopilotTyped ==
  ASSUME UseTyped, LineTyped, SessionTyped, Server!AutopilotStep
  PROVE  UseTyped' /\ LineTyped' /\ SessionTyped'
  <1>1. CASE Server!LoseFragment \/ Server!StoreHalf \/ Server!LastFragment
    <2>1. /\ set' \in 0 .. MaxSets /\ seq' \in 0 .. 2 /\ set' >= set
      BY <1>1, Bounds DEF LineTyped, Server!LoseFragment, Server!StoreHalf, Server!LastFragment,
           Server!NextFragment
    <2>2. halves' \in [0 .. 1 -> 0 .. set']
      BY <1>1, <2>1, Bounds DEF LineTyped, Server!LoseFragment, Server!StoreHalf,
           Server!LastFragment, Server!Stored
    <2>3. row' \in 0 .. 2 /\ tag' \in 0 .. set' /\ plain' \in {Server!Other, 0, tag'}
      BY <1>1, <2>1, Bounds DEF LineTyped, Server!LoseFragment, Server!StoreHalf,
           Server!LastFragment
    <2>4. whole' \in BOOLEAN /\ disturbed' \in BOOLEAN
      BY <1>1 DEF LineTyped, Server!LoseFragment, Server!StoreHalf, Server!LastFragment
    <2>5. SessionTyped'
      BY <1>1 DEF SessionTyped, Server!LoseFragment, Server!StoreHalf, Server!LastFragment,
           Server!tlsVars
    <2>6. UseTyped'
      <3>1. CASE Server!LastFragment
        BY <3>1, BeginTyped DEF Server!LastFragment, Server!Uses
      <3>2. CASE Server!LoseFragment \/ Server!StoreHalf
        BY <3>2 DEF Server!LoseFragment, Server!StoreHalf, Server!libVars, UseTyped
      <3> QED BY <1>1, <3>1, <3>2
    <2> QED BY <2>1, <2>2, <2>3, <2>4, <2>5, <2>6 DEF LineTyped
  <1>2. CASE Server!Heartbeat
    <2>1. halves' \in [0 .. 1 -> 0 .. set]
      BY <1>2, Bounds DEF LineTyped, Server!Heartbeat
    <2> QED
      BY <1>2, <2>1 DEF Server!Heartbeat, UseTyped, LineTyped, SessionTyped, Server!lineVars,
           Server!libVars, Server!tlsVars
  <1>3. CASE Server!DecryptAlone \/ Server!DecryptFails \/ Server!DecryptMixed
    <2>1. UseTyped'
      BY <1>3, EndTyped DEF Server!DecryptAlone, Server!DecryptFails, Server!DecryptMixed
    <2>2. LineTyped'
      BY <1>3 DEF LineTyped, Server!DecryptAlone, Server!DecryptFails, Server!DecryptMixed,
           Server!Deciphered, Server!lineVars
    <2>3. SessionTyped'
      BY <1>3 DEF SessionTyped, Server!DecryptAlone, Server!DecryptFails, Server!DecryptMixed,
           Server!Spoiled, Server!SpoiledBy, Server!Mixed
    <2> QED BY <2>1, <2>2, <2>3
  <1> QED BY <1>1, <1>2, <1>3 DEF Server!AutopilotStep

LEMMA GcsTyped ==
  ASSUME UseTyped, LineTyped, SessionTyped, Server!GcsStep
  PROVE  UseTyped' /\ LineTyped' /\ SessionTyped'
  <1>1. LineTyped'
    BY DEF Server!GcsStep, Server!HandshakeEnd, Server!ReadEnd, Server!ReadFailed,
           Server!WriteEnd, Server!SessionLost, Server!SessionEnds, Server!CloseBegins,
           Server!CloseEnds, Server!TlsBegin, Server!TlsFails, Server!TlsMixed, LineTyped,
           Server!lineVars, Server!textVars
  <1>2. CASE Server!HandshakeEnd \/ Server!ReadEnd \/ Server!ReadFailed \/ Server!WriteEnd
    <2>1. UseTyped'
      BY <1>2, EndTyped DEF Server!HandshakeEnd, Server!ReadEnd, Server!ReadFailed,
           Server!WriteEnd
    <2>2. SessionTyped'
      BY <1>2 DEF SessionTyped, Server!HandshakeEnd, Server!ReadEnd, Server!ReadFailed,
           Server!WriteEnd, Server!SpoiledBy, Server!Phases
    <2> QED BY <1>1, <2>1, <2>2
  <1>3. CASE Server!SessionLost
    BY <1>1, <1>3 DEF Server!SessionLost, UseTyped, SessionTyped, Server!libVars, Server!Phases
  <1>4. CASE Server!SessionEnds \/ Server!CloseBegins
    <2>1. UseTyped'
      BY <1>4, BeginTyped DEF Server!SessionEnds, Server!CloseBegins, Server!Uses
    <2>2. SessionTyped'
      BY <1>4 DEF SessionTyped, Server!SessionEnds, Server!CloseBegins, Server!tlsVars,
           Server!Phases
    <2> QED BY <1>1, <2>1, <2>2
  <1>5. CASE Server!CloseEnds
    <2>1. UseTyped'
      BY <1>5, EndTyped DEF Server!CloseEnds
    <2>2. SessionTyped'
      BY <1>5 DEF SessionTyped, Server!CloseEnds, Server!Spoiled, Server!Mixed, Server!Phases
    <2> QED BY <1>1, <2>1, <2>2
  <1>6. ASSUME NEW u \in {"read", "write"}, Server!TlsBegin(u)
        PROVE  UseTyped' /\ SessionTyped'
    BY <1>6, BeginTyped DEF Server!TlsBegin, Server!Uses, SessionTyped, Server!tlsVars
  <1>7. ASSUME NEW u \in {"read", "write"}, Server!TlsFails(u) \/ Server!TlsMixed(u)
        PROVE  UseTyped' /\ SessionTyped'
    <2>1. UseTyped'
      BY <1>7, EndTyped DEF Server!TlsFails, Server!TlsMixed
    <2>2. SessionTyped'
      BY <1>7 DEF SessionTyped, Server!TlsFails, Server!TlsMixed, Server!Spoiled, Server!Mixed,
           Server!AfterBadUse, Server!Phases
    <2> QED BY <2>1, <2>2
  <1> QED BY <1>1, <1>2, <1>3, <1>6, <1>7, <1>4, <1>5 DEF Server!GcsStep

LEMMA ServerTyped == Server!Spec => []Server!TypeOK
  <1>1. Server!TypeOK <=> UseTyped /\ LineTyped /\ SessionTyped
    BY DEF Server!TypeOK, UseTyped, LineTyped, SessionTyped
  <1>2. Server!TypeOK /\ [Server!Next]_(Server!vars) => Server!TypeOK'
    <2> SUFFICES ASSUME Server!TypeOK, [Server!Next]_(Server!vars)
                 PROVE  UseTyped' /\ LineTyped' /\ SessionTyped'
      BY DEF Server!TypeOK, UseTyped, LineTyped, SessionTyped
    <2>1. CASE UNCHANGED Server!vars
      BY <1>1, <2>1 DEF Server!vars, Server!lineVars, Server!textVars, Server!libVars,
           Server!tlsVars, UseTyped, LineTyped, SessionTyped
    <2> QED BY <1>1, <2>1, AutopilotTyped, GcsTyped DEF Server!Next
  <1>3. Server!Init => Server!TypeOK
    <2> SUFFICES ASSUME Server!Init PROVE UseTyped /\ LineTyped /\ SessionTyped
      BY <1>1
    <2>1. UseTyped
      <3>1. uses = {} /\ over = {} /\ outOfStep = FALSE /\ fails = 0
        BY DEF Server!Init
      <3>2. fails \in 0 .. MaxFails
        BY <3>1, Bounds
      <3> QED BY <3>1, <3>2 DEF UseTyped
    <2>2. LineTyped
      <3>1. set = 0 /\ halves = [i \in 0 .. 1 |-> 0] /\ tag = 0
        BY DEF Server!Init
      <3>2. set \in 0 .. MaxSets /\ halves \in [0 .. 1 -> 0 .. set] /\ tag \in 0 .. set
        BY <3>1, Bounds
      <3>3. seq \in 0 .. 2 /\ plain \in {Server!Other, 0, tag} /\ row \in 0 .. 2
        BY DEF Server!Init
      <3>4. whole \in BOOLEAN /\ disturbed \in BOOLEAN
        BY DEF Server!Init
      <3> QED BY <3>2, <3>3, <3>4 DEF LineTyped
    <2>3. SessionTyped
      BY DEF Server!Init, SessionTyped, Server!Phases
    <2> QED BY <2>1, <2>2, <2>3
  <1> QED BY <1>2, <1>3, PTL DEF Server!Spec

InARow ==
  /\ row \in {0, 1, 2}
  /\ row > 0 => halves[0] = set
  /\ row = 1 => seq = 0
  /\ row = 2 => seq = 1 /\ halves[1] = set

Deciphering ==
  /\ halves \in [0 .. 1 -> Int] /\ set \in Int /\ seq \in 0 .. 2
  /\ "decrypt" \in uses => plain = 0 /\ (whole => halves[0] = tag /\ halves[1] = tag)

TextInv == InARow /\ Deciphering /\ Server!WholeDeciphered /\ Server!NoOtherText

CauseInv ==
  /\ session = "open" /\ (kept = "spoiled" \/ gap) => causes # {}
  /\ Server!LossExplained

-----------------------------------------------------------------------------
(* The text.                                                               *)

LEMMA InitText == Server!Init => TextInv
  BY DEF Server!Init, TextInv, InARow, Deciphering, Server!WholeDeciphered, Server!NoOtherText,
         Server!Undisturbed

(***************************************************************************)
(* The fragments before the last, lost or stored, and the end of a call.   *)
(***************************************************************************)
LEMMA FragmentsKeepText ==
  ASSUME TextInv, Server!LoseFragment \/ Server!Heartbeat \/ Server!StoreHalf
  PROVE  TextInv'
  <1>1. Server!Reading /\ UNCHANGED <<tag, plain, whole, disturbed, uses>>
    BY DEF Server!LoseFragment, Server!Heartbeat, Server!StoreHalf, Server!libVars
  <1>2. Server!WholeDeciphered' /\ Server!NoOtherText'
    BY <1>1 DEF TextInv, Server!WholeDeciphered, Server!NoOtherText, Server!Undisturbed,
                Server!Reading
  <1>3. Deciphering'
    BY <1>1 DEF TextInv, Deciphering, Server!Reading, Server!LoseFragment, Server!Heartbeat,
                Server!StoreHalf, Server!NextFragment,
                Server!Stored, Server!lineVars
  <1>4. InARow'
    <2>1. CASE Server!LoseFragment \/ Server!Heartbeat
      BY <2>1 DEF InARow, Server!LoseFragment, Server!Heartbeat
    <2>2. CASE Server!StoreHalf
      BY <2>2 DEF TextInv, InARow, Deciphering, Server!StoreHalf, Server!NextFragment, Server!Stored
    <2> QED BY <2>1, <2>2
  <1> QED BY <1>2, <1>3, <1>4 DEF TextInv

(***************************************************************************)
(* The last fragment starts a decryption; it is whole only if both halves  *)
(* have been stored for it.                                                *)
(***************************************************************************)
LEMMA LastKeepsText == ASSUME TextInv, Server!LastFragment PROVE TextInv'
  <1>1. "decrypt" \in uses' /\ plain' = 0 /\ tag' = set' /\ set' = set /\ row' = 0
    BY DEF Server!LastFragment, Server!Begin, Server!NextFragment, TextInv, Deciphering
  <1>2. InARow'
    BY <1>1 DEF InARow
  <1>3. Deciphering'
    <2>1. halves' = halves /\ seq' = 2 /\ whole' = (row = 2)
      BY DEF Server!LastFragment
    <2>2. row = 2 => halves[0] = set /\ halves[1] = set
      BY DEF TextInv, InARow
    <2>3. halves' \in [0 .. 1 -> Int] /\ set' \in Int /\ seq' \in 0 .. 2
      BY <1>1, <2>1 DEF TextInv, Deciphering
    <2>4. whole' => halves'[0] = tag' /\ halves'[1] = tag'
      BY <1>1, <2>1, <2>2, Zenon
    <2> QED BY <1>1, <2>3, <2>4 DEF Deciphering
  <1>4. Server!WholeDeciphered' /\ Server!NoOtherText'
    BY <1>1 DEF Server!WholeDeciphered, Server!NoOtherText, Server!Undisturbed, Server!Reading
  <1> QED BY <1>2, <1>3, <1>4 DEF TextInv

(***************************************************************************)
(* The decryption ends.                                                    *)
(***************************************************************************)
LEMMA DecryptKeepsText ==
  ASSUME TextInv, Server!DecryptAlone \/ Server!DecryptFails \/ Server!DecryptMixed
  PROVE  TextInv'
  <1>1. "decrypt" \notin uses'
    BY DEF Server!DecryptAlone, Server!DecryptFails, Server!DecryptMixed, Server!EndAlone,
           Server!EndFailed, Server!EndMixed, Server!Leave
  <1>2. UNCHANGED <<set, seq, halves, tag, row, whole>>
    BY DEF Server!DecryptAlone, Server!DecryptFails, Server!DecryptMixed, Server!lineVars
  <1>3. InARow' /\ Deciphering'
    BY <1>1, <1>2 DEF TextInv, InARow, Deciphering
  <1>4. Server!WholeDeciphered' /\ Server!NoOtherText'
    <2>1. CASE Server!DecryptAlone
      BY <1>1, <1>2, <2>1 DEF TextInv, Deciphering, Server!DecryptAlone, Server!EndAlone,
                              Server!Deciphered,
                              Server!WholeDeciphered, Server!NoOtherText, Server!Undisturbed,
                              Server!Reading
    <2>2. CASE Server!DecryptFails \/ Server!DecryptMixed
      BY <2>2 DEF Server!DecryptFails, Server!DecryptMixed, Server!WholeDeciphered,
                  Server!NoOtherText, Server!Undisturbed
    <2> QED BY <2>1, <2>2
  <1> QED BY <1>3, <1>4 DEF TextInv

(***************************************************************************)
(* The GCS threads use the buffer and the device, not the text.            *)
(***************************************************************************)
LEMMA GcsKeepsText == ASSUME TextInv, Server!GcsStep PROVE TextInv'
  <1>1. UNCHANGED <<Server!lineVars, Server!textVars>>
    BY DEF Server!GcsStep, Server!HandshakeEnd, Server!ReadEnd, Server!WriteEnd,
           Server!ReadFailed, Server!SessionLost, Server!SessionEnds, Server!CloseBegins,
           Server!CloseEnds, Server!TlsBegin, Server!TlsFails, Server!TlsMixed
  <1>2. "decrypt" \in uses' <=> "decrypt" \in uses
    BY DEF Server!GcsStep, Server!HandshakeEnd, Server!ReadEnd, Server!WriteEnd,
           Server!ReadFailed, Server!SessionLost, Server!SessionEnds, Server!CloseBegins,
           Server!CloseEnds, Server!TlsBegin, Server!TlsFails, Server!TlsMixed,
           Server!Begin, Server!EndAlone, Server!EndFailed, Server!EndMixed, Server!Leave,
           Server!libVars
  <1> QED BY <1>1, <1>2 DEF TextInv, InARow, Deciphering, Server!WholeDeciphered,
                            Server!NoOtherText,
                            Server!Undisturbed, Server!Reading, Server!lineVars, Server!textVars

LEMMA StepText == TextInv /\ [Server!Next]_(Server!vars) => TextInv'
  <1> SUFFICES ASSUME TextInv, [Server!Next]_(Server!vars) PROVE TextInv'
    OBVIOUS
  <1>1. CASE Server!AutopilotStep
    BY <1>1, FragmentsKeepText, LastKeepsText, DecryptKeepsText DEF Server!AutopilotStep
  <1>2. CASE Server!GcsStep
    BY <1>2, GcsKeepsText
  <1>3. CASE UNCHANGED Server!vars
    BY <1>3 DEF Server!vars, Server!lineVars, Server!textVars, Server!libVars, TextInv, InARow,
                Deciphering,
                Server!WholeDeciphered, Server!NoOtherText, Server!Undisturbed, Server!Reading
  <1> QED BY <1>1, <1>2, <1>3 DEF Server!Next

(***************************************************************************)
(* What autopilot_read_message shows when its decryption was not disturbed *)
(* by another use of the library, the close of a session included, is      *)
(* zeros or the text of the set that came last, and the text if the set    *)
(* came as a whole: fragments of sets that lost one are never mixed in.    *)
(***************************************************************************)
THEOREM TextTheorem == Spec => []NoOtherText
  <1>1. TextInv => Server!WholeDeciphered /\ Server!NoOtherText
    BY DEF TextInv
  <1> QED BY <1>1, Components, ServerTyped, InitText, StepText, PTL DEF Server!Spec, NoOtherText

-----------------------------------------------------------------------------
(* The session.                                                            *)

LEMMA InitCause == Server!Init => CauseInv
  BY DEF Server!Init, CauseInv, Server!LossExplained

(***************************************************************************)
(* The autopilot thread: a decryption that spoils kept records, fails or   *)
(* overlaps is a cause.                                                    *)
(***************************************************************************)
LEMMA AutopilotKeepsCause == ASSUME CauseInv, Server!AutopilotStep PROVE CauseInv'
  <1> USE DEF CauseInv, Server!LossExplained
  <1>1. CASE Server!LoseFragment \/ Server!Heartbeat \/ Server!StoreHalf \/ Server!LastFragment
    BY <1>1 DEF Server!LoseFragment, Server!Heartbeat, Server!StoreHalf, Server!LastFragment,
                Server!tlsVars
  <1>2. CASE Server!DecryptAlone
    BY <1>2 DEF Server!DecryptAlone, Server!Spoiled, Server!SpoiledBy
  <1>3. CASE Server!DecryptFails
    BY <1>3 DEF Server!DecryptFails, Server!Spoiled, Server!SpoiledBy
  <1>4. CASE Server!DecryptMixed
    <2>1. causes' # {}
      BY <1>4 DEF Server!DecryptMixed, Server!Mixed
    <2> QED BY <2>1
  <1> QED BY <1>1, <1>2, <1>3, <1>4 DEF Server!AutopilotStep

(***************************************************************************)
(* The GCS threads: a session begins with its own records or none, what a  *)
(* write drops is a cause, too, and one that is closed is no longer open.  *)
(***************************************************************************)
LEMMA GcsKeepsCause == ASSUME CauseInv, Server!GcsStep PROVE CauseInv'
  <1> USE DEF CauseInv, Server!LossExplained
  <1>1. CASE Server!HandshakeEnd
    BY <1>1 DEF Server!HandshakeEnd
  <1>2. CASE Server!ReadEnd \/ Server!ReadFailed
    BY <1>2 DEF Server!ReadEnd, Server!ReadFailed
  <1>3. CASE Server!WriteEnd
    BY <1>3 DEF Server!WriteEnd, Server!SpoiledBy
  <1>4. CASE Server!SessionLost \/ Server!SessionEnds \/ Server!CloseBegins \/ Server!CloseEnds
    BY <1>4 DEF Server!SessionLost, Server!SessionEnds, Server!CloseBegins, Server!CloseEnds,
                Server!Serving, Server!tlsVars, Server!Mixed
  <1>5. ASSUME NEW u \in {"read", "write"}, Server!TlsBegin(u) PROVE CauseInv'
    BY <1>5 DEF Server!TlsBegin, Server!tlsVars
  <1>6. ASSUME NEW u \in {"read", "write"}, Server!TlsFails(u) \/ Server!TlsMixed(u) PROVE CauseInv'
    <2>1. causes' # {}
      BY <1>6 DEF Server!TlsFails, Server!TlsMixed, Server!Mixed
    <2> QED BY <2>1
  <1> QED BY <1>1, <1>2, <1>3, <1>4, <1>5, <1>6 DEF Server!GcsStep

LEMMA StepCause == CauseInv /\ [Server!Next]_(Server!vars) => CauseInv'
  <1> SUFFICES ASSUME CauseInv, [Server!Next]_(Server!vars) PROVE CauseInv'
    OBVIOUS
  <1>1. CASE UNCHANGED Server!vars
    BY <1>1 DEF Server!vars, Server!tlsVars, CauseInv, Server!LossExplained
  <1> QED BY <1>1, AutopilotKeepsCause, GcsKeepsCause DEF Server!Next

(***************************************************************************)
(* The device rejects a record of a correct peer only after uses of the    *)
(* library overlapped, an exchange failed, or a decryption or a write met  *)
(* records kept for the next read.                                         *)
(***************************************************************************)
THEOREM LossTheorem == Spec => []LossExplained
  <1>1. CauseInv => Server!LossExplained
    BY DEF CauseInv
  <1> QED BY <1>1, Components, InitCause, StepCause, PTL DEF Server!Spec, LossExplained

-----------------------------------------------------------------------------
(* Frames in the client.  A message that is copied is the thread's own     *)
(* frame, because its last byte is the thread's and its checksum matches;  *)
(* its number is above all that have been enqueued.  And while a frame is  *)
(* alone, the parser holds as much of it as the thread has parsed.         *)

\* s is the first k bytes of frame n of thread t.
Prefix(s, t, n, k) ==
  Len(s) = k /\ \A i \in 1 .. k : s[i] = [of |-> t, n |-> n, i |-> i]

\* The frames of the thread's buffer are frames of its stream.
ChunkInv(t) ==
  /\ byte[t] = Size => frame[t] + chunk[t] <= MaxFrames
  /\ byte[t] < Size => chunk[t] > 0 /\ frame[t] > 0 /\ frame[t] + chunk[t] <= MaxFrames + 1

CopyInv(t) == ~Client!Idle(t) => byte[t] = Size /\ Prefix(copying[t], t, frame[t], Size)

AloneInv(t) ==
  alone[t] =>
    /\ byte[t] < Size => Prefix(state, t, frame[t], byte[t])
    /\ ~Client!Idle(t) => ~torn[t]
    /\ byte[t] = Size /\ Client!Idle(t) =>
         queued[t] # <<>> /\ queued[t][Len(queued[t])] = Client!Message(t, frame[t])

OrderInv(t) ==
  /\ \A i \in DOMAIN queued[t] : queued[t][i] # Client!Torn =>
       /\ queued[t][i].of = t /\ queued[t][i].n \in 0 .. frame[t]
       /\ byte[t] < Size \/ ~Client!Idle(t) => queued[t][i].n < frame[t]
  /\ \A i, j \in DOMAIN queued[t] :
       i < j /\ queued[t][i] # Client!Torn /\ queued[t][j] # Client!Torn =>
         queued[t][i].n < queued[t][j].n

FrameInv == \A t \in Client!Threads : ChunkInv(t) /\ CopyInv(t) /\ AloneInv(t) /\ OrderInv(t)

(***************************************************************************)
(* The parser gives out a message only with the last byte of a frame, and  *)
(* then the bytes it holds; else it holds less than a frame.               *)
(***************************************************************************)
LEMMA ParsedShape ==
  ASSUME NEW s \in Seq(Client!Bytes), Len(s) < Size, NEW b \in Client!Bytes,
         NEW p \in Client!Parsed(s, b)
  PROVE  /\ p \in Seq(Client!Bytes) /\ Len(p) <= Size
         /\ Len(p) = Size => p = Append(s, b) /\ Client!IsFrame(p)
  <1>1. p = Append(s, b) \/ p = <<>> \/ p = <<b>>
    BY DEF Client!Parsed
  <1>2. Len(<<b>>) = 1 /\ Len(<<>>) = 0 /\ Len(Append(s, b)) = Len(s) + 1 /\ Len(s) \in Nat
    OBVIOUS
  <1>3. p \in Seq(Client!Bytes) /\ Len(p) <= Size
    <2>1. CASE p = Append(s, b)
      BY <1>2, <2>1, Bounds
    <2>2. CASE p = <<>>
      BY <1>2, <2>2, Bounds
    <2>3. CASE p = <<b>>
      BY <1>2, <2>3, Bounds
    <2> QED BY <1>1, <2>1, <2>2, <2>3
  <1>4. ASSUME Len(p) = Size PROVE p = Append(s, b) /\ Client!IsFrame(p)
    <2>1. p # <<>> /\ p # <<b>>
      BY <1>2, <1>4, Bounds
    <2>2. p = Append(s, b) /\ Len(s) + 1 = Size
      BY <1>1, <1>2, <1>4, <2>1
    <2>3. ~(Len(s) < Size - 1)
      BY <1>2, <2>2, Bounds
    <2>4. s # <<>>
      BY <1>2, <2>2, Bounds
    <2>5. Client!IsFrame(Append(s, b))
      BY <2>1, <2>3, <2>4 DEF Client!Parsed
    <2> QED BY <2>2, <2>5
  <1> QED BY <1>3, <1>4

LEMMA FrameIsOwn ==
  ASSUME NEW s \in Seq(Client!Bytes), NEW t, NEW n,
         Len(s) + 1 = Size,
         Client!IsFrame(Append(s, [of |-> t, n |-> n, i |-> Size])),
         [of |-> t, n |-> n, i |-> Size] \in Client!Bytes
  PROVE  Prefix(Append(s, [of |-> t, n |-> n, i |-> Size]), t, n, Size)
  <1> DEFINE b == [of |-> t, n |-> n, i |-> Size]
             p == Append(s, b)
  <1>1. Len(p) = Size /\ p[Size] = b
    OBVIOUS
  <1>2. \A i \in 1 .. Size : p[i] = [of |-> p[1].of, n |-> p[1].n, i |-> i]
    BY DEF Client!IsFrame
  <1>3. b = [of |-> p[1].of, n |-> p[1].n, i |-> Size]
    BY <1>1, <1>2, Bounds
  <1>4. p[1].of = b.of /\ p[1].n = b.n
    BY <1>3
  <1>5. p[1].of = t /\ p[1].n = n
    BY <1>4
  <1> HIDE DEF p
  <1>6. \A i \in 1 .. Size : p[i] = [of |-> t, n |-> n, i |-> i]
    BY <1>2, <1>5
  <1> QED BY <1>1, <1>6 DEF Prefix, p

LEMMA PrefixGrows ==
  ASSUME NEW s \in Seq(Client!Bytes), NEW t, NEW n, NEW k \in 1 .. Size - 1,
         Prefix(s, t, n, k), [of |-> t, n |-> n, i |-> k + 1] \in Client!Bytes,
         NEW p \in Client!Parsed(s, [of |-> t, n |-> n, i |-> k + 1])
  PROVE  Prefix(p, t, n, k + 1)
  <1> DEFINE b == [of |-> t, n |-> n, i |-> k + 1]
             q == Append(s, b)
  <1>1. Len(s) = k /\ s # <<>>
    BY Bounds DEF Prefix
  <1>2. Len(q) = k + 1 /\ q[k + 1] = b /\ \A i \in 1 .. k : q[i] = s[i]
    BY <1>1, Bounds
  <1>3. \A i \in 1 .. k + 1 : q[i] = [of |-> t, n |-> n, i |-> i]
    <2>1. ASSUME NEW i \in 1 .. k + 1 PROVE i = k + 1 \/ i \in 1 .. k
      BY Bounds
    <2>2. \A i \in 1 .. k : q[i] = [of |-> t, n |-> n, i |-> i]
      BY <1>2 DEF Prefix
    <2> QED BY <1>2, <2>1, <2>2
  <1>4. Len(s) < Size - 1 \/ Client!IsFrame(q)
    <2>1. CASE k = Size - 1
      <3> HIDE DEF q
      <3>1. k + 1 = Size /\ 1 \in 1 .. Size
        BY <2>1, Bounds
      <3>2. \A i \in 1 .. Size : q[i] = [of |-> t, n |-> n, i |-> i]
        BY <1>3, <3>1
      <3>3. q[1] = [of |-> t, n |-> n, i |-> 1]
        BY <3>1, <3>2
      <3>4. q[1].of = t /\ q[1].n = n
        BY <3>3
      <3> QED BY <3>2, <3>4 DEF Client!IsFrame
    <2>2. CASE k # Size - 1
      BY <1>1, <2>2, Bounds
    <2> QED BY <2>1, <2>2
  <1>5. p = q
    BY <1>1, <1>4 DEF Client!Parsed
  <1> HIDE DEF q
  <1> QED BY <1>2, <1>3, <1>5 DEF Prefix

LEMMA SeqFacts ==
  ASSUME NEW S, NEW q \in Seq(S)
  PROVE  Len(q) \in Nat /\ DOMAIN q = 1 .. Len(q) /\ \A i \in 1 .. Len(q) : q[i] \in S
  OBVIOUS

LEMMA FrameInit == Client!Init => Client!TypeOK /\ FrameInv
  <1> SUFFICES ASSUME Client!Init PROVE Client!TypeOK /\ FrameInv
    OBVIOUS
  <1>1. Client!TypeOK
    <2>1. frame \in [Client!Threads -> 0 .. MaxFrames] /\ byte \in [Client!Threads -> 1 .. Size]
      BY Bounds DEF Client!Init
    <2>2. chunk \in [Client!Threads -> 0 .. MaxChunk]
      BY Bounds DEF Client!Init
    <2>3. torn \in [Client!Threads -> BOOLEAN] /\ alone \in [Client!Threads -> BOOLEAN]
      BY DEF Client!Init
    <2>4. <<>> \in Seq(Client!Bytes) /\ <<>> \in Seq(Client!Messages) /\ Len(<<>>) = 0
      OBVIOUS
    <2>5. /\ state \in Seq(Client!Bytes) /\ Len(state) < Size
          /\ copying \in [Client!Threads -> Seq(Client!Bytes)]
          /\ queued \in [Client!Threads -> Seq(Client!Messages)]
      BY <2>4, Bounds DEF Client!Init
    <2> QED BY <2>1, <2>2, <2>3, <2>5 DEF Client!TypeOK
  <1>2. ASSUME NEW t \in Client!Threads
        PROVE  ChunkInv(t) /\ CopyInv(t) /\ AloneInv(t) /\ OrderInv(t)
    <2>1. /\ frame[t] = 0 /\ byte[t] = Size /\ chunk[t] = 0 /\ copying[t] = <<>>
          /\ queued[t] = <<>> /\ alone[t] = FALSE
      BY DEF Client!Init
    <2>2. ChunkInv(t)
      BY <2>1, Bounds DEF ChunkInv
    <2>3. CopyInv(t) /\ AloneInv(t) /\ OrderInv(t)
      BY <2>1 DEF CopyInv, AloneInv, OrderInv, Client!Idle
    <2> QED BY <2>2, <2>3
  <1> QED BY <1>1, <1>2 DEF FrameInv

(***************************************************************************)
(* The thread gets another datagram or record.                             *)
(***************************************************************************)
LEMMA ReceiveKeeps ==
  ASSUME Client!TypeOK, FrameInv, NEW t \in Client!Threads, Client!Receive(t)
  PROVE  Client!TypeOK' /\ FrameInv'
  <1>1. PICK k \in 1 .. MaxChunk :
          frame[t] + k <= MaxFrames /\ chunk' = [chunk EXCEPT ![t] = k] /\ chunk[t] = 0
    BY DEF Client!Receive
  <1>2. UNCHANGED <<frame, byte, state, copying, torn, queued, alone>>
    BY DEF Client!Receive
  <1>3. Client!TypeOK'
    <2>1. chunk' \in [Client!Threads -> 0 .. MaxChunk]
      BY <1>1, Bounds DEF Client!TypeOK
    <2> QED BY <1>2, <2>1 DEF Client!TypeOK, Client!Bytes, Client!Messages, Client!Torn
  <1>4. ASSUME NEW u \in Client!Threads
        PROVE  ChunkInv(u)' /\ CopyInv(u)' /\ AloneInv(u)' /\ OrderInv(u)'
    <2>1. CopyInv(u)' /\ AloneInv(u)' /\ OrderInv(u)'
      BY <1>2 DEF FrameInv, CopyInv, AloneInv, OrderInv, Prefix, Client!Idle
    <2>2. ChunkInv(u)'
      <3>1. CASE u = t
        <4>1. byte[t] = Size
          <5>1. byte[t] \in 1 .. Size /\ ~(byte[t] < Size)
            BY <1>1 DEF FrameInv, ChunkInv, Client!TypeOK
          <5>2. \A b \in 1 .. Size : ~(b < Size) => b = Size
            BY Bounds
          <5> QED BY <5>1, <5>2
        <4>2. chunk'[t] = k
          BY <1>1 DEF Client!TypeOK
        <4>3. frame'[t] + chunk'[t] <= MaxFrames /\ byte'[t] = Size /\ ~(Size < Size)
          BY <1>1, <1>2, <4>1, <4>2, Bounds
        <4> QED BY <3>1, <4>3 DEF ChunkInv
      <3>2. CASE u # t
        <4>1. chunk'[u] = chunk[u]
          BY <1>1, <3>2 DEF Client!TypeOK
        <4> QED BY <1>2, <4>1 DEF FrameInv, ChunkInv
      <3> QED BY <3>1, <3>2
    <2> QED BY <2>1, <2>2
  <1> QED BY <1>3, <1>4 DEF FrameInv

(***************************************************************************)
(* A message is enqueued, whole or torn.                                   *)
(***************************************************************************)
LEMMA EnqueueKeeps ==
  ASSUME Client!TypeOK, FrameInv, NEW t \in Client!Threads, Client!Enqueue(t)
  PROVE  Client!TypeOK' /\ FrameInv'
  <1> DEFINE m == Client!Enqueued(t)
  <1>1. /\ ~Client!Idle(t) /\ copying' = [copying EXCEPT ![t] = <<>>]
        /\ queued' = [queued EXCEPT ![t] = Append(queued[t], m)]
        /\ UNCHANGED <<frame, byte, chunk, state, torn, alone>>
    BY DEF Client!Enqueue, Client!streamVars
  <1>2. byte[t] = Size /\ frame[t] \in 0 .. MaxFrames /\ Prefix(copying[t], t, frame[t], Size)
    BY <1>1 DEF FrameInv, CopyInv, Client!TypeOK
  <1>3. copying[t][1].of = t /\ copying[t][1].n = frame[t] /\ frame[t] \in 1 .. MaxFrames
    <2>1. copying[t][1] = [of |-> t, n |-> frame[t], i |-> 1]
      BY <1>2, Bounds DEF Prefix
    <2>2. copying[t] \in Seq(Client!Bytes) /\ Len(copying[t]) = Size
      BY <1>2 DEF Client!TypeOK, Prefix
    <2>3. copying[t][1] \in Client!Bytes
      BY <2>2, SeqFacts, Bounds
    <2> QED BY <2>1, <2>3 DEF Client!Bytes
  <1>4. m = Client!Torn \/ m = Client!Message(t, frame[t])
    BY <1>3 DEF Client!Enqueued
  <1>5. ~torn[t] => m = Client!Message(t, frame[t])
    BY <1>3 DEF Client!Enqueued
  <1>6. queued[t] \in Seq(Client!Messages) /\ m \in Client!Messages
    <2>1. Client!Message(t, frame[t]) \in Client!Messages /\ Client!Torn \in Client!Messages
      BY <1>3 DEF Client!Message, Client!Messages
    <2> QED BY <1>4, <2>1 DEF Client!TypeOK
  <1> HIDE DEF m
  <1>7. Client!TypeOK'
    <2>1. queued' \in [Client!Threads -> Seq(Client!Messages)]
      BY <1>1, <1>6 DEF Client!TypeOK
    <2>2. copying' \in [Client!Threads -> Seq(Client!Bytes)]
      <3>1. <<>> \in Seq(Client!Bytes)
        OBVIOUS
      <3> QED BY <1>1, <3>1 DEF Client!TypeOK
    <2> QED BY <1>1, <2>1, <2>2 DEF Client!TypeOK, Client!Bytes, Client!Messages, Client!Torn
  <1>8. ASSUME NEW u \in Client!Threads, u # t
        PROVE  ChunkInv(u)' /\ CopyInv(u)' /\ AloneInv(u)' /\ OrderInv(u)'
    <2>1. copying'[u] = copying[u] /\ queued'[u] = queued[u]
      BY <1>1, <1>8 DEF Client!TypeOK
    <2>2. ChunkInv(u)'
      BY <1>1 DEF FrameInv, ChunkInv
    <2>3. CopyInv(u)'
      BY <1>1, <2>1 DEF FrameInv, CopyInv, Prefix, Client!Idle
    <2>4. AloneInv(u)'
      BY <1>1, <2>1 DEF FrameInv, AloneInv, Prefix, Client!Idle
    <2>5. OrderInv(u)'
      <3>1. OrderInv(u)
        BY DEF FrameInv
      <3>2. /\ frame'[u] = frame[u] /\ byte'[u] = byte[u] /\ queued'[u] = queued[u]
            /\ Client!Idle(u)' <=> Client!Idle(u)
        BY <1>1, <2>1 DEF Client!Idle
      <3> QED BY <3>1, <3>2 DEF OrderInv, Client!Torn
    <2> QED BY <2>2, <2>3, <2>4, <2>5
  <1>9. ChunkInv(t)' /\ CopyInv(t)' /\ AloneInv(t)' /\ OrderInv(t)'
    <2>1. copying'[t] = <<>> /\ queued'[t] = Append(queued[t], m)
      BY <1>1 DEF Client!TypeOK
    <2>2. ChunkInv(t)' /\ CopyInv(t)'
      BY <1>1, <2>1 DEF FrameInv, ChunkInv, CopyInv, Client!Idle
    <2>3. AloneInv(t)'
      <3>1. queued'[t] # <<>> /\ queued'[t][Len(queued'[t])] = m
        BY <1>6, <2>1
      <3>2. alone[t] => ~torn[t]
        BY <1>1 DEF FrameInv, AloneInv
      <3>3. byte'[t] = Size /\ ~(Size < Size) /\ Client!Idle(t)' /\ frame' = frame
        BY <1>1, <1>2, <2>1, Bounds DEF Client!Idle
      <3>4. alone'[t] => m = Client!Message(t, frame[t])
        BY <1>1, <1>5, <3>2
      <3> QED BY <3>1, <3>3, <3>4 DEF AloneInv
    <2>4. OrderInv(t)'
      <3> DEFINE q == queued[t]
                 l == Len(q)
      <3>1. l \in Nat /\ DOMAIN q = 1 .. l
        <4>1. q \in Seq(Client!Messages)
          BY <1>6
        <4> HIDE DEF q
        <4> QED BY <4>1, SeqFacts
      <3>2. /\ \A i \in 1 .. l : q[i] # Client!Torn =>
                 q[i].of = t /\ q[i].n \in 0 .. frame[t] /\ q[i].n < frame[t]
            /\ \A i, j \in 1 .. l : i < j /\ q[i] # Client!Torn /\ q[j] # Client!Torn =>
                 q[i].n < q[j].n
        BY <1>1, <3>1 DEF FrameInv, OrderInv
      <3>3. /\ DOMAIN queued'[t] = 1 .. l + 1 /\ queued'[t][l + 1] = m
            /\ \A i \in 1 .. l : queued'[t][i] = q[i]
        BY <1>6, <2>1
      <3>4. m # Client!Torn => m.of = t /\ m.n = frame[t]
        BY <1>4 DEF Client!Message
      <3> HIDE DEF q, l
      <3>5. \A i \in 1 .. l + 1 : i \in 1 .. l \/ i = l + 1
        BY <3>1
      <3>6. \A i \in 1 .. l + 1 : queued'[t][i] # Client!Torn =>
              queued'[t][i].of = t /\ queued'[t][i].n \in 0 .. frame[t]
        <4>1. frame[t] \in 0 .. frame[t]
          BY <1>2, Bounds
        <4> QED BY <3>2, <3>3, <3>4, <3>5, <4>1
      <3>7. ASSUME NEW i \in 1 .. l + 1, NEW j \in 1 .. l + 1, i < j,
                   queued'[t][i] # Client!Torn, queued'[t][j] # Client!Torn
            PROVE  queued'[t][i].n < queued'[t][j].n
        <4>1. i \in 1 .. l
          BY <3>1, <3>7
        <4>2. CASE j \in 1 .. l
          BY <3>2, <3>3, <3>7, <4>1, <4>2
        <4>3. CASE j = l + 1
          <5>1. queued'[t][j].n = frame[t]
            BY <3>3, <3>4, <3>7, <4>3
          <5>2. queued'[t][i] = q[i] /\ q[i].n < frame[t]
            BY <3>2, <3>3, <3>7, <4>1
          <5> QED BY <5>1, <5>2
        <4> QED BY <3>5, <4>2, <4>3
      <3>8. ~(byte'[t] < Size) /\ Client!Idle(t)' /\ frame' = frame
        BY <1>1, <1>2, <2>1, Bounds DEF Client!Idle
      <3> QED BY <3>3, <3>6, <3>7, <3>8 DEF OrderInv, Client!Torn
    <2> QED BY <2>2, <2>3, <2>4
  <1> QED BY <1>7, <1>8, <1>9 DEF FrameInv

(***************************************************************************)
(* The next byte is of the thread's stream, within its bounds.             *)
(***************************************************************************)
LEMMA NextByteTyped ==
  ASSUME Client!TypeOK, FrameInv, NEW t \in Client!Threads, chunk[t] > 0
  PROVE  /\ Client!NextFrame(t) \in 1 .. MaxFrames
         /\ Client!NextByte(t).i \in 1 .. Size
         /\ byte[t] < Size => /\ Client!NextFrame(t) = frame[t]
                              /\ Client!NextByte(t).i = byte[t] + 1
         /\ byte[t] = Size => /\ Client!NextFrame(t) = frame[t] + 1
                              /\ Client!NextByte(t).i = 1
  <1>1. /\ frame[t] \in 0 .. MaxFrames /\ byte[t] \in 1 .. Size /\ chunk[t] \in 0 .. MaxChunk
        /\ byte[t] = Size \/ byte[t] < Size
    BY Bounds DEF Client!TypeOK
  <1>2. ChunkInv(t)
    BY DEF FrameInv
  <1>3. CASE byte[t] = Size
    <2>1. Client!NextFrame(t) = frame[t] + 1 /\ Client!NextByte(t).i = 1 /\ ~(byte[t] < Size)
      BY <1>3, Bounds DEF Client!NextFrame, Client!NextByte, Client!Begins
    <2>2. frame[t] + 1 \in 1 .. MaxFrames /\ 1 \in 1 .. Size
      BY <1>1, <1>2, <1>3, Bounds DEF ChunkInv
    <2> QED BY <2>1, <2>2
  <1>4. CASE byte[t] < Size
    <2>1. byte[t] # Size
      BY <1>1, <1>4, Bounds
    <2>2. Client!NextFrame(t) = frame[t] /\ Client!NextByte(t).i = byte[t] + 1
      BY <2>1 DEF Client!NextFrame, Client!NextByte, Client!Begins
    <2>3. frame[t] \in 1 .. MaxFrames /\ byte[t] + 1 \in 1 .. Size
      BY <1>1, <1>2, <1>4, Bounds DEF ChunkInv
    <2> QED BY <2>1, <2>2, <2>3
  <1> QED BY <1>1, <1>3, <1>4

(***************************************************************************)
(* A byte is parsed.                                                       *)
(***************************************************************************)
LEMMA ParseKeeps ==
  ASSUME Client!TypeOK, FrameInv, NEW t \in Client!Threads, Client!ParseChar(t)
  PROVE  Client!TypeOK' /\ FrameInv'
  <1> DEFINE n == Client!NextFrame(t)
             k == Client!NextByte(t).i
             b == [of |-> t, n |-> n, i |-> k]
  <1>1. Client!Idle(t) /\ chunk[t] > 0
    BY DEF Client!ParseChar
  <1>2. /\ n \in 1 .. MaxFrames /\ k \in 1 .. Size
        /\ byte[t] < Size => n = frame[t] /\ k = byte[t] + 1
        /\ byte[t] = Size => n = frame[t] + 1 /\ k = 1
    BY <1>1, NextByteTyped
  <1>3. b = Client!NextByte(t) /\ b.i = k /\ b.n = n
    BY DEF Client!NextByte
  <1>4. b \in Client!Bytes
    BY <1>2 DEF Client!Bytes
  <1>5. PICK p \in Client!Parsed(state, b) :
          IF Len(p) = Size
          THEN state' = <<>> /\ copying' = [copying EXCEPT ![t] = p]
          ELSE state' = p /\ copying' = copying
    BY <1>3 DEF Client!ParseChar
  <1>6. /\ frame' = [frame EXCEPT ![t] = n] /\ byte' = [byte EXCEPT ![t] = k]
        /\ chunk' = [chunk EXCEPT ![t] = IF k = Size THEN chunk[t] - 1 ELSE chunk[t]]
        /\ queued' = queued
        /\ alone' = [u \in Client!Threads |->
                       IF u # t THEN FALSE
                       ELSE IF k = 1 THEN state = <<>> /\ Client!Idle(Client!Peer(t)) ELSE alone[t]]
        /\ torn' = [u \in Client!Threads |-> IF u = t THEN FALSE ELSE torn[u] \/ ~Client!Idle(u)]
    BY <1>3 DEF Client!ParseChar
  <1>7. /\ p \in Seq(Client!Bytes) /\ Len(p) <= Size
        /\ Len(p) = Size => p = Append(state, b) /\ Client!IsFrame(p)
    BY <1>4, <1>5, ParsedShape DEF Client!TypeOK
  <1>8. frame[t] \in 0 .. MaxFrames /\ byte[t] \in 1 .. Size /\ chunk[t] \in 0 .. MaxChunk
    BY DEF Client!TypeOK
  <1> HIDE DEF n, k
  <1>9. frame'[t] = n /\ byte'[t] = k /\ chunk'[t] = IF k = Size THEN chunk[t] - 1 ELSE chunk[t]
    BY <1>6 DEF Client!TypeOK
  <1>10. ASSUME Len(p) = Size
         PROVE  k = Size /\ Prefix(p, t, n, Size)
    <2>1. p = Append(state, b) /\ Len(state) \in Nat /\ Len(p) = Len(state) + 1
      BY <1>7, <1>10 DEF Client!TypeOK
    <2>2. Len(state) + 1 = Size
      BY <1>10, <2>1
    <2>3. p[Size] = b
      BY <2>1, <2>2 DEF Client!TypeOK
    <2>4. p[Size] = [of |-> p[1].of, n |-> p[1].n, i |-> Size]
      BY <1>7, <1>10, Bounds DEF Client!IsFrame
    <2>5. k = Size
      BY <2>3, <2>4
    <2>6. b = [of |-> t, n |-> n, i |-> Size]
      BY <2>5
    <2>7. Prefix(Append(state, b), t, n, Size)
      BY <1>4, <1>7, <1>10, <2>1, <2>2, <2>6, FrameIsOwn DEF Client!TypeOK
    <2> QED BY <2>1, <2>5, <2>7
  <1>11. copying'[t] = (IF Len(p) = Size THEN p ELSE <<>>)
         /\ \A u \in Client!Threads : u # t => copying'[u] = copying[u]
    BY <1>1, <1>5 DEF Client!TypeOK, Client!Idle
  <1>12. ~Client!Idle(t)' => Len(p) = Size
    BY <1>11 DEF Client!Idle
  <1> HIDE DEF b
  <1>13. Client!TypeOK'
    <2>1. frame' \in [Client!Threads -> 0 .. MaxFrames]
      <3>1. n \in 0 .. MaxFrames
        BY <1>2, Bounds
      <3> QED BY <1>6, <3>1 DEF Client!TypeOK
    <2>2. byte' \in [Client!Threads -> 1 .. Size]
      BY <1>2, <1>6 DEF Client!TypeOK
    <2>3. chunk' \in [Client!Threads -> 0 .. MaxChunk]
      <3>1. (IF k = Size THEN chunk[t] - 1 ELSE chunk[t]) \in 0 .. MaxChunk
        BY <1>1, <1>8, Bounds
      <3> QED BY <1>6, <3>1 DEF Client!TypeOK
    <2>4. torn' \in [Client!Threads -> BOOLEAN]
      BY <1>6 DEF Client!TypeOK
    <2>5. alone' \in [Client!Threads -> BOOLEAN]
      BY <1>6 DEF Client!TypeOK
    <2>6. state' \in Seq(Client!Bytes) /\ Len(state') < Size
      <3>1. CASE Len(p) = Size
        <4>1. <<>> \in Seq(Client!Bytes) /\ Len(<<>>) = 0
          OBVIOUS
        <4> QED BY <1>5, <3>1, <4>1, Bounds
      <3>2. CASE Len(p) # Size
        <4>1. Len(p) \in Nat
          BY <1>7
        <4> QED BY <1>5, <1>7, <3>2, <4>1, Bounds
      <3> QED BY <3>1, <3>2
    <2>7. copying' \in [Client!Threads -> Seq(Client!Bytes)]
      BY <1>5, <1>7 DEF Client!TypeOK
    <2> QED
      BY <1>6, <2>1, <2>2, <2>3, <2>4, <2>5, <2>6, <2>7 DEF Client!TypeOK, Client!Bytes,
         Client!Messages, Client!Torn
  <1>14. ASSUME NEW u \in Client!Threads, u # t
         PROVE  ChunkInv(u)' /\ CopyInv(u)' /\ AloneInv(u)' /\ OrderInv(u)'
    <2>1. /\ frame'[u] = frame[u] /\ byte'[u] = byte[u] /\ chunk'[u] = chunk[u]
          /\ copying'[u] = copying[u] /\ queued'[u] = queued[u] /\ alone'[u] = FALSE
      BY <1>6, <1>11, <1>14 DEF Client!TypeOK
    <2>2. ChunkInv(u)'
      BY <2>1 DEF FrameInv, ChunkInv
    <2>3. CopyInv(u)'
      BY <2>1 DEF FrameInv, CopyInv, Prefix, Client!Idle
    <2>4. AloneInv(u)'
      BY <2>1 DEF AloneInv
    <2>5. OrderInv(u)'
      BY <2>1 DEF FrameInv, OrderInv, Client!Idle
    <2> QED BY <2>2, <2>3, <2>4, <2>5
  <1>15. ChunkInv(t)'
    <2>1. ChunkInv(t)
      BY DEF FrameInv
    <2>2. CASE byte[t] = Size
      <3>1. n = frame[t] + 1 /\ k = 1 /\ k # Size /\ k < Size /\ chunk'[t] = chunk[t]
        BY <1>2, <1>9, <2>2, Bounds
      <3>2. frame[t] + chunk[t] <= MaxFrames
        BY <2>1, <2>2 DEF ChunkInv
      <3>3. n > 0 /\ n + chunk[t] <= MaxFrames + 1
        BY <1>8, <3>1, <3>2, Bounds
      <3> QED BY <1>1, <1>9, <3>1, <3>3 DEF ChunkInv
    <2>3. CASE byte[t] < Size
      <3>1. n = frame[t] /\ k = byte[t] + 1
        BY <1>2, <2>3
      <3>2. chunk[t] > 0 /\ frame[t] > 0 /\ frame[t] + chunk[t] <= MaxFrames + 1
        BY <2>1, <2>3 DEF ChunkInv
      <3>3. k = Size => n + (chunk[t] - 1) <= MaxFrames /\ ~(k < Size)
        BY <1>8, <3>1, <3>2, Bounds
      <3> QED BY <1>9, <3>1, <3>2, <3>3 DEF ChunkInv
    <2> QED BY <1>8, <2>2, <2>3, Bounds
  <1>16. CopyInv(t)'
    <2> SUFFICES ASSUME ~Client!Idle(t)'
                 PROVE  byte'[t] = Size /\ Prefix(copying'[t], t, frame'[t], Size)
      BY DEF CopyInv, Prefix
    <2> QED BY <1>9, <1>10, <1>11, <1>12
  <1>17. AloneInv(t)'
    <2> SUFFICES ASSUME alone'[t]
                 PROVE  /\ k < Size => Prefix(state', t, n, k)
                        /\ ~torn'[t]
                        /\ k = Size => ~Client!Idle(t)'
      BY <1>9 DEF AloneInv, Prefix
    <2>1. ~torn'[t]
      BY <1>6
    <2>2. alone'[t] = IF k = 1 THEN state = <<>> /\ Client!Idle(Client!Peer(t)) ELSE alone[t]
      BY <1>6
    <2>3. CASE k = 1
      <3>1. state = <<>>
        BY <2>2, <2>3
      <3>2. p = <<b>>
        BY <1>3, <1>5, <2>3, <3>1 DEF Client!Parsed
      <3>3. Len(p) = 1 /\ p[1] = b /\ 1 # Size
        BY <3>2, Bounds
      <3>4. state' = p
        BY <1>5, <3>3
      <3>5. Prefix(p, t, n, 1)
        <4>1. \A i \in 1 .. 1 : i = 1
          OBVIOUS
        <4>2. p[1] = [of |-> t, n |-> n, i |-> 1]
          BY <2>3, <3>3 DEF b
        <4> QED BY <3>3, <4>1, <4>2 DEF Prefix
      <3> QED BY <2>1, <2>3, <3>4, <3>5, Bounds
    <2>4. CASE k # 1
      <3>1. byte[t] < Size /\ n = frame[t] /\ k = byte[t] + 1
        BY <1>2, <1>8, <2>4, Bounds
      <3>2. Prefix(state, t, n, byte[t])
        BY <2>2, <2>4, <3>1 DEF FrameInv, AloneInv
      <3>3. byte[t] \in 1 .. Size - 1
        BY <1>8, <3>1, Bounds
      <3>4. Prefix(p, t, n, byte[t] + 1)
        <4>1. b = [of |-> t, n |-> n, i |-> byte[t] + 1]
          BY <3>1 DEF b
        <4> QED BY <1>4, <1>5, <3>2, <3>3, <4>1, PrefixGrows DEF Client!TypeOK
      <3>5. Len(p) = k
        BY <3>1, <3>4 DEF Prefix
      <3>6. k < Size => state' = p
        BY <1>2, <1>5, <3>5, Bounds
      <3>7. k = Size => copying'[t] = p /\ Len(p) = Size
        BY <1>11, <3>5
      <3>8. k = Size => ~Client!Idle(t)'
        <4>1. Len(<<>>) = 0
          OBVIOUS
        <4> QED BY <3>7, <4>1, Bounds DEF Client!Idle
      <3> QED BY <2>1, <3>1, <3>4, <3>6, <3>8
    <2> QED BY <2>3, <2>4
  <1>18. OrderInv(t)'
    <2> DEFINE q == queued[t]
    <2>1. /\ \A i \in DOMAIN q : q[i] # Client!Torn =>
               /\ q[i].of = t /\ q[i].n \in 0 .. frame[t]
               /\ byte[t] < Size => q[i].n < frame[t]
          /\ \A i, j \in DOMAIN q : i < j /\ q[i] # Client!Torn /\ q[j] # Client!Torn =>
               q[i].n < q[j].n
      BY DEF FrameInv, OrderInv
    <2>2. queued'[t] = q
      BY <1>6 DEF q
    <2> HIDE DEF q
    <2>3. ASSUME NEW i \in DOMAIN q, q[i] # Client!Torn
          PROVE  q[i].of = t /\ q[i].n \in 0 .. n /\ q[i].n < n
      <3>1. q[i].of = t /\ q[i].n \in 0 .. frame[t] /\ (byte[t] < Size => q[i].n < frame[t])
        BY <2>1, <2>3
      <3>2. CASE byte[t] = Size
        <4>1. n = frame[t] + 1
          BY <1>2, <3>2
        <4> QED BY <1>8, <3>1, <4>1, Bounds
      <3>3. CASE byte[t] < Size
        <4>1. n = frame[t]
          BY <1>2, <3>3
        <4> QED BY <3>1, <3>3, <4>1
      <3> QED BY <1>8, <3>2, <3>3, Bounds
    <2> QED BY <1>9, <2>1, <2>2, <2>3 DEF OrderInv, Client!Torn
  <1> QED BY <1>13, <1>14, <1>15, <1>16, <1>17, <1>18 DEF FrameInv

LEMMA FramesHold == Client!Spec => [](Client!TypeOK /\ FrameInv)
  <1>1. Client!TypeOK /\ FrameInv /\ [Client!Next]_(Client!vars) => Client!TypeOK' /\ FrameInv'
    <2> SUFFICES ASSUME Client!TypeOK, FrameInv, [Client!Next]_(Client!vars)
                 PROVE  Client!TypeOK' /\ FrameInv'
      OBVIOUS
    <2>1. CASE UNCHANGED Client!vars
      <3>1. Client!TypeOK'
        BY <2>1 DEF Client!vars, Client!streamVars, Client!TypeOK, Client!Bytes,
                    Client!Messages, Client!Torn
      <3>2. ASSUME NEW t \in Client!Threads
            PROVE  ChunkInv(t)' /\ CopyInv(t)' /\ AloneInv(t)' /\ OrderInv(t)'
        BY <2>1 DEF Client!vars, Client!streamVars, FrameInv, ChunkInv, CopyInv, AloneInv,
                    OrderInv, Prefix, Client!Idle
      <3> QED BY <3>1, <3>2 DEF FrameInv
    <2> QED BY <2>1, ReceiveKeeps, ParseKeeps, EnqueueKeeps DEF Client!Next
  <1> QED BY <1>1, FrameInit, PTL DEF Client!Spec

(***************************************************************************)
(* A frame whose first byte finds the parser idle and the other thread not *)
(* copying, and between whose bytes none of the other thread's is parsed,  *)
(* is enqueued, whatever its size.                                         *)
(***************************************************************************)
THEOREM AloneTheorem == Spec => []AloneDelivered
  <1>1. FrameInv => Client!AloneDelivered
    BY DEF FrameInv, AloneInv, Client!AloneDelivered
  <1> QED BY <1>1, Components, FramesHold, PTL DEF AloneDelivered

(***************************************************************************)
(* Whatever the two streams do to each other in the parser they share, a   *)
(* thread's messages that are not torn are of its own stream, never of the *)
(* other's, in order, none twice.                                          *)
(***************************************************************************)
THEOREM OrderTheorem == Spec => []OwnInOrder
  <1>1. Client!TypeOK /\ FrameInv => Client!OwnInOrder
    <2> SUFFICES ASSUME Client!TypeOK, FrameInv, NEW t \in Client!Threads,
                        NEW j \in DOMAIN queued[t], queued[t][j] # Client!Torn
                 PROVE  /\ queued[t][j].of = t
                        /\ \A i \in 1 .. j - 1 :
                             queued[t][i] # Client!Torn => queued[t][i].n < queued[t][j].n
      BY DEF Client!OwnInOrder
    <2>1. OrderInv(t)
      BY DEF FrameInv
    <2>2. Len(queued[t]) \in Nat /\ DOMAIN queued[t] = 1 .. Len(queued[t])
      BY SeqFacts DEF Client!TypeOK
    <2>3. \A i \in 1 .. j - 1 : i \in DOMAIN queued[t] /\ i < j
      BY <2>2
    <2> QED BY <2>1, <2>3 DEF OrderInv
  <1> QED BY <1>1, Components, FramesHold, PTL DEF OwnInOrder
=============================================================================
