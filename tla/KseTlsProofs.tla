---------------------------- MODULE KseTlsProofs ----------------------------
(***************************************************************************)
(* Theorems about KseTls, for every length of the handshake, every size of *)
(* the buffer and every number of connections and records.                 *)
(***************************************************************************)
EXTENDS KseTls, TLAPS

\* The phases in which the program reads from the present connection.
Live == {"opened", "handshake", "session"}

\* Kept input is the end of what was read from the socket.
RestInv ==
  phase \in Live /\ restLen > 0 => restConn = conn /\ restFirst + restLen = taken + 1

\* While nothing was thrown away and no call has failed, the input goes on
\* where the device is.
SequenceInv ==
  /\ phase \in {"opened", "handshake"} =>
       dev = "handshake" /\ ~spoiled /\ Head = devNext /\ (restLen > 0 => hsInput)
  /\ phase = "session" /\ ~failed /\ ~dropped => dev = "up" /\ ~spoiled /\ Head = devNext
  /\ rejected => failed \/ dropped

\* What the device expects is the record after the last one handed on.
DeliveryInv == phase \in Live => delivered + 1 = devNext

IInv == TypeOK /\ RestInv /\ SequenceInv /\ DeliveryInv

\* The library starts with every variable in its type and nothing kept.
LEMMA InvInit == Init => IInv
<1> SUFFICES ASSUME Init PROVE IInv
  OBVIOUS
<1>1. CountTypes
  BY KseTlsAssumption DEF Init, CountTypes
<1>2. StateTypes
  BY DEF Init, StateTypes, Phases
<1>3. RestInv /\ SequenceInv /\ DeliveryInv
  BY DEF Init, RestInv, SequenceInv, DeliveryInv, Live
<1> QED BY <1>1, <1>2, <1>3 DEF IInv, TypeOK

\* What a call has in the buffer is at most what the peer has sent.
LEMMA InputTaken ==
  ASSUME CountTypes, NEW k \in 1 .. Batch, TakeInput(k)
  PROVE  /\ taken' \in 0 .. sent
         /\ restLen > 0 => k = restLen /\ taken' = taken
         /\ restLen = 0 => taken' = taken + k
  BY KseTlsAssumption DEF CountTypes, TakeInput

\* A step keeps the counters in their types.
LEMMA CountNext == CountTypes /\ [Next]_vars => CountTypes'
<1> SUFFICES ASSUME CountTypes, [Next]_vars PROVE CountTypes'
  OBVIOUS
<1> USE KseTlsAssumption DEF CountTypes
<1>1. CASE Open
  BY <1>1 DEF Open, NewConnection, KeepNothing
<1>2. CASE OpenFails
  BY <1>2 DEF OpenFails, NewConnection, KeepNothing, KeepStale
<1>3. CASE HandshakeInput
  <2>1. PICK k \in 1 .. Batch :
          TakeInput(k) /\ KeepUnused(k) /\ HandshakeGoesOn(Head + 1, k - 1)
    BY <1>3 DEF HandshakeInput
  <2>2. taken' \in 0 .. sent
    BY <2>1, InputTaken
  <2>3. Head \in Nat /\ Source \in 0 .. conn
    BY DEF Head, Source
  <2>4. devNext' = Head + 1 /\ delivered' = Head /\ UNCHANGED <<conn, sent>>
    BY <1>3, <2>1 DEF HandshakeInput, HandshakeGoesOn
  <2>5. restLen' = k - 1 /\ restFirst' = Head + 1 /\ restConn' = Source
    BY <2>1 DEF KeepUnused
  <2> QED BY <2>2, <2>3, <2>4, <2>5
<1>4. CASE HandshakeOutput
  BY <1>4 DEF HandshakeOutput, HandshakeGoesOn, KeepNothing
<1>5. CASE HandshakeRefuses
  <2>1. PICK k \in 1 .. Batch : TakeInput(k) /\ (KeepNothing \/ KeepUnused(k))
    BY <1>5 DEF HandshakeRefuses
  <2>2. taken' \in 0 .. sent
    BY <2>1, InputTaken
  <2>3. Head \in Nat /\ Source \in 0 .. conn
    BY DEF Head, Source
  <2>4. restLen' \in 0 .. Batch - 1 /\ restFirst' \in Nat /\ restConn' \in 0 .. conn
    BY <2>1, <2>3 DEF KeepNothing, KeepUnused
  <2> QED BY <1>5, <2>2, <2>4 DEF HandshakeRefuses
<1>6. CASE HandshakeInternal
  <2>1. taken' \in 0 .. sent
    BY <1>6, InputTaken DEF HandshakeInternal
  <2>2. Head \in Nat /\ Source \in 0 .. conn
    BY DEF Head, Source
  <2>3. KeepNothing \/ \E k \in 1 .. Batch : KeepUnused(k)
    BY <1>6 DEF HandshakeInternal
  <2>4. restLen' \in 0 .. Batch - 1 /\ restFirst' \in Nat /\ restConn' \in 0 .. conn
    BY <2>2, <2>3 DEF KeepNothing, KeepUnused
  <2> QED BY <1>6, <2>1, <2>4 DEF HandshakeInternal
<1>7. CASE HandshakeFails
  <2>1. taken' \in 0 .. sent
    BY <1>7, InputTaken DEF HandshakeFails
  <2> QED BY <1>7, <2>1 DEF HandshakeFails, KeepStale
<1>8. CASE Read
  <2>1. PICK k \in 1 .. Batch : TakeInput(k) /\ KeepUnused(k)
    BY <1>8 DEF Read
  <2>2. taken' \in 0 .. sent
    BY <2>1, InputTaken
  <2>3. Head \in Nat /\ Source \in 0 .. conn
    BY DEF Head, Source
  <2>4. devNext' = Head + 1 /\ delivered' = Head /\ UNCHANGED <<conn, sent>>
    BY <1>8 DEF Read
  <2>5. restLen' = k - 1 /\ restFirst' = Head + 1 /\ restConn' = Source
    BY <2>1 DEF KeepUnused
  <2> QED BY <2>2, <2>3, <2>4, <2>5
<1>9. CASE ReadRejects
  BY <1>9, InputTaken DEF ReadRejects, KeepNothing
<1>10. CASE ReadFails
  BY <1>10, InputTaken DEF ReadFails, KeepStale
<1>11. CASE Write
  BY <1>11 DEF Write, KeepNothing
<1>12. CASE WriteFails
  BY <1>12 DEF WriteFails, KeepStale
<1>13. CASE Close
  BY <1>13 DEF Close, KeepNothing, KeepStale
<1>14. CASE PeerSends
  BY <1>14 DEF PeerSends, restVars
<1>15. CASE UNCHANGED vars
  BY <1>15 DEF vars, restVars
<1>16. CASE ReadInternal
  <2>1. taken' \in 0 .. sent
    BY <1>16, InputTaken DEF ReadInternal
  <2> QED BY <1>16, <2>1 DEF ReadInternal, KeepNothing, KeepStale
<1> QED BY <1>1, <1>2, <1>3, <1>4, <1>5, <1>6, <1>7, <1>8, <1>9, <1>10, <1>11, <1>12,
           <1>13, <1>14, <1>15, <1>16 DEF Next, Handshake, ReadStep

\* A step keeps the states and flags in their types.
LEMMA StateNext == StateTypes /\ [Next]_vars => StateTypes'
<1> SUFFICES ASSUME StateTypes, [Next]_vars PROVE StateTypes'
  OBVIOUS
<1>0. (restLen > 0) \in BOOLEAN
  OBVIOUS
<1> USE DEF StateTypes, Phases
<1>1. CASE Open
  BY <1>0, <1>1, Zenon DEF Open, NewConnection, KeepNothing
<1>2. CASE OpenFails
  BY <1>0, <1>2, Zenon DEF OpenFails, NewConnection, KeepNothing, KeepStale
<1>3. CASE HandshakeInput
  BY <1>0, <1>3, Zenon DEF HandshakeInput, KeepUnused, HandshakeGoesOn
<1>4. CASE HandshakeOutput
  BY <1>0, <1>4, Zenon DEF HandshakeOutput, HandshakeGoesOn, KeepNothing
<1>5. CASE HandshakeRefuses
  BY <1>0, <1>5, Zenon DEF HandshakeRefuses, KeepNothing, KeepUnused
<1>6. CASE HandshakeInternal
  BY <1>0, <1>6, Zenon DEF HandshakeInternal, KeepNothing, KeepUnused
<1>7. CASE HandshakeFails
  BY <1>0, <1>7, Zenon DEF HandshakeFails, KeepStale
<1>8. CASE Read
  BY <1>0, <1>8, Zenon DEF Read, KeepUnused
<1>9. CASE ReadRejects
  BY <1>0, <1>9, Zenon DEF ReadRejects, KeepNothing
<1>10. CASE ReadFails
  BY <1>0, <1>10, Zenon DEF ReadFails, KeepStale
<1>11. CASE Write
  BY <1>0, <1>11, Zenon DEF Write, KeepNothing
<1>12. CASE WriteFails
  BY <1>0, <1>12, Zenon DEF WriteFails, KeepStale
<1>13. CASE Close
  BY <1>0, <1>13, Zenon DEF Close, KeepNothing, KeepStale
<1>14. CASE PeerSends
  BY <1>0, <1>14, Zenon DEF PeerSends, restVars
<1>15. CASE UNCHANGED vars
  BY <1>15 DEF vars, restVars
<1>16. CASE ReadInternal
  BY <1>0, <1>16, Zenon DEF ReadInternal, KeepNothing, KeepStale
<1> QED BY <1>1, <1>2, <1>3, <1>4, <1>5, <1>6, <1>7, <1>8, <1>9, <1>10, <1>11, <1>12,
           <1>13, <1>14, <1>15, <1>16 DEF Next, Handshake, ReadStep

\* What a step that uses the first record leaves: the kept input still ends where
\* the reading of the socket does, and goes on behind the record used.
LEMMA UnusedKept ==
  ASSUME CountTypes, phase \in Live, RestInv, UNCHANGED conn,
         NEW k \in 1 .. Batch, TakeInput(k), KeepUnused(k)
  PROVE  /\ restLen' > 0 => restConn' = conn' /\ restFirst' + restLen' = taken' + 1
         /\ Head' = Head + 1
         /\ UNCHANGED spoiled
<1> USE KseTlsAssumption DEF CountTypes
<1>1. taken' \in 0 .. sent /\ Head \in Nat
  BY InputTaken DEF Head
<1>2. restLen' = k - 1 /\ restFirst' = Head + 1 /\ restConn' = Source /\ UNCHANGED spoiled
  BY DEF KeepUnused
<1>3. CASE restLen > 0
  <2>1. k = restLen /\ taken' = taken /\ Head = restFirst /\ Source = restConn
    BY <1>3, InputTaken DEF Head, Source
  <2>2. restConn = conn /\ restFirst + restLen = taken + 1
    BY <1>3 DEF RestInv
  <2> QED BY <1>1, <1>2, <2>1, <2>2 DEF Head
<1>4. CASE restLen = 0
  <2>1. taken' = taken + k /\ Head = taken + 1 /\ Source = conn
    BY <1>4, InputTaken DEF Head, Source
  <2> QED BY <1>1, <1>2, <1>4, <2>1 DEF Head
<1> QED BY <1>3, <1>4

\* A step keeps the kept input at the end of what was read.
LEMMA RestNext == TypeOK /\ RestInv /\ [Next]_vars => RestInv'
<1> SUFFICES ASSUME TypeOK, RestInv, [Next]_vars PROVE RestInv'
  OBVIOUS
<1> USE KseTlsAssumption DEF TypeOK, CountTypes, RestInv, Live
<1>1. CASE Open
  BY <1>1 DEF Open, NewConnection, KeepNothing
<1>2. CASE OpenFails
  BY <1>2 DEF OpenFails
<1>3. CASE HandshakeInput
  <2>1. PICK k \in 1 .. Batch : TakeInput(k) /\ KeepUnused(k)
    BY <1>3 DEF HandshakeInput
  <2>2. phase \in Live /\ UNCHANGED conn
    BY <1>3 DEF HandshakeInput
  <2> QED BY <2>1, <2>2, UnusedKept
<1>4. CASE HandshakeOutput
  BY <1>4 DEF HandshakeOutput, KeepNothing
<1>5. CASE HandshakeRefuses
  BY <1>5 DEF HandshakeRefuses
<1>6. CASE HandshakeInternal
  <2>1. phase \in Live /\ UNCHANGED conn
    BY <1>6 DEF HandshakeInternal
  <2>2. CASE KeepNothing
    BY <2>2 DEF KeepNothing
  <2>3. CASE \E k \in 1 .. Batch : TakeInput(k) /\ KeepUnused(k)
    BY <2>1, <2>3, UnusedKept
  <2> QED BY <1>6, <2>2, <2>3 DEF HandshakeInternal
<1>7. CASE HandshakeFails
  BY <1>7 DEF HandshakeFails
<1>8. CASE Read
  <2>1. PICK k \in 1 .. Batch : TakeInput(k) /\ KeepUnused(k)
    BY <1>8 DEF Read
  <2>2. phase \in Live /\ UNCHANGED conn
    BY <1>8 DEF Read, ReadCalled
  <2> QED BY <2>1, <2>2, UnusedKept
<1>9. CASE ReadRejects
  BY <1>9 DEF ReadRejects, KeepNothing
<1>10. CASE ReadFails
  BY <1>10 DEF ReadFails
<1>11. CASE Write
  BY <1>11 DEF Write, KeepNothing
<1>12. CASE WriteFails
  BY <1>12 DEF WriteFails, KeepStale
<1>13. CASE Close
  BY <1>13 DEF Close
<1>14. CASE PeerSends
  BY <1>14 DEF PeerSends, restVars
<1>15. CASE UNCHANGED vars
  BY <1>15 DEF vars, restVars
<1>16. CASE ReadInternal
  BY <1>16, InputTaken DEF ReadInternal, ReadCalled, KeepNothing, KeepStale
<1> QED BY <1>1, <1>2, <1>3, <1>4, <1>5, <1>6, <1>7, <1>8, <1>9, <1>10, <1>11, <1>12,
           <1>13, <1>14, <1>15, <1>16 DEF Next, Handshake, ReadStep

\* A step keeps the input in sequence until a call fails or throws input away.
LEMMA SequenceNext == TypeOK /\ RestInv /\ SequenceInv /\ [Next]_vars => SequenceInv'
<1> SUFFICES ASSUME TypeOK, RestInv, SequenceInv, [Next]_vars PROVE SequenceInv'
  OBVIOUS
<1> USE KseTlsAssumption DEF TypeOK, CountTypes, SequenceInv, Head
<1>1. CASE Open
  BY <1>1 DEF Open, NewConnection, KeepNothing
<1>2. CASE OpenFails
  BY <1>2 DEF OpenFails, NewConnection
<1>3. CASE HandshakeInput
  <2>1. PICK k \in 1 .. Batch : TakeInput(k) /\ KeepUnused(k) /\ HandshakeGoesOn(Head + 1, k - 1)
    BY <1>3 DEF HandshakeInput
  <2>2. phase \in Live /\ InSequence /\ UNCHANGED <<conn, failed, dropped>>
    BY <1>3 DEF HandshakeInput, Live
  <2>3. Head' = Head + 1 /\ UNCHANGED spoiled
    BY <2>1, <2>2, UnusedKept
  <2>4. phase \in {"opened", "handshake"} /\ UNCHANGED rejected /\ restLen' = k - 1
    BY <1>3, <2>1 DEF HandshakeInput, KeepUnused
  <2>5. dev = "handshake" /\ ~spoiled /\ ~spoiled' /\ devNext' = Head + 1
    BY <2>1, <2>3, <2>4 DEF HandshakeGoesOn
  <2>6. Head' = devNext'
    BY <2>3, <2>5
  <2>7. \/ phase' = "handshake" /\ dev' = "handshake" /\ (k - 1 > 0 => hsInput')
        \/ phase' = "session" /\ dev' = "up"
    BY <2>1 DEF HandshakeGoesOn
  <2> QED BY <2>2, <2>4, <2>5, <2>6, <2>7
<1>4. CASE HandshakeOutput
  <2>1. restLen = 0 /\ taken + 1 = devNext
    BY <1>4 DEF HandshakeOutput
  <2>2. restLen' = 0 /\ ~spoiled' /\ UNCHANGED <<taken, failed, dropped, rejected>>
    BY <1>4 DEF HandshakeOutput, KeepNothing
  <2>3. /\ devNext' = devNext
        /\ \/ phase' = "handshake" /\ dev' = "handshake"
           \/ phase' = "session" /\ dev' = "up"
    BY <1>4 DEF HandshakeOutput, HandshakeGoesOn
  <2> QED BY <2>1, <2>2, <2>3
<1>5. CASE HandshakeRefuses
  BY <1>5 DEF HandshakeRefuses
<1>6. CASE HandshakeInternal
  BY <1>6 DEF HandshakeInternal
<1>7. CASE HandshakeFails
  BY <1>7 DEF HandshakeFails
<1>8. CASE Read
  <2>1. PICK k \in 1 .. Batch : TakeInput(k) /\ KeepUnused(k)
    BY <1>8 DEF Read
  <2>2. phase \in Live /\ InSequence /\ UNCHANGED <<conn, failed, dropped>>
    BY <1>8 DEF Read, Live, ReadCalled
  <2>3. Head' = Head + 1 /\ UNCHANGED spoiled
    BY <2>1, <2>2, UnusedKept
  <2> QED BY <1>8, <2>1, <2>2, <2>3 DEF Read, ReadCalled
<1>9. CASE ReadRejects
  <2>1. phase = "session" /\ ~InSequence
    BY <1>9 DEF ReadRejects, ReadCalled
  <2>2. failed \/ dropped
    BY <2>1 DEF RestInv, InSequence, Live
  <2> QED BY <1>9, <2>1, <2>2 DEF ReadRejects
<1>10. CASE ReadFails
  BY <1>10 DEF ReadFails
<1>11. CASE Write
  <2>1. dropped' <=> dropped \/ restLen > 0
    BY <1>11 DEF Write
  <2>2. restLen' = 0 /\ ~spoiled' /\ ~rejected' /\ UNCHANGED <<phase, dev, taken, failed, devNext>>
    BY <1>11 DEF Write, KeepNothing
  <2>3. phase \in {"session", "failed"}
    BY <1>11 DEF Write
  <2> QED BY <2>1, <2>2, <2>3
<1>12. CASE WriteFails
  BY <1>12 DEF WriteFails, KeepStale
<1>13. CASE Close
  BY <1>13 DEF Close
<1>14. CASE PeerSends
  BY <1>14 DEF PeerSends, restVars
<1>15. CASE UNCHANGED vars
  BY <1>15 DEF vars, restVars
<1>16. CASE ReadInternal
  BY <1>16 DEF ReadInternal, ReadCalled
<1> QED BY <1>1, <1>2, <1>3, <1>4, <1>5, <1>6, <1>7, <1>8, <1>9, <1>10, <1>11, <1>12,
           <1>13, <1>14, <1>15, <1>16 DEF Next, Handshake, ReadStep

\* A step keeps what was handed on right behind what the device expects.
LEMMA DeliveryNext ==
  TypeOK /\ SequenceInv /\ DeliveryInv /\ [Next]_vars => DeliveryInv'
<1> SUFFICES ASSUME TypeOK, SequenceInv, DeliveryInv, [Next]_vars PROVE DeliveryInv'
  OBVIOUS
<1> USE DEF TypeOK, CountTypes, DeliveryInv, Live, Head
<1>1. CASE Open
  BY <1>1 DEF Open, NewConnection
<1>2. CASE OpenFails
  BY <1>2 DEF OpenFails
<1>3. CASE HandshakeInput
  BY <1>3 DEF HandshakeInput, HandshakeGoesOn
<1>4. CASE HandshakeOutput
  BY <1>4 DEF HandshakeOutput, HandshakeGoesOn
<1>5. CASE HandshakeRefuses
  BY <1>5 DEF HandshakeRefuses
<1>6. CASE HandshakeInternal
  BY <1>6 DEF HandshakeInternal
<1>7. CASE HandshakeFails
  BY <1>7 DEF HandshakeFails
<1>8. CASE Read
  BY <1>8 DEF Read
<1>9. CASE ReadRejects
  BY <1>9 DEF ReadRejects
<1>10. CASE ReadFails
  BY <1>10 DEF ReadFails
<1>11. CASE Write
  BY <1>11 DEF Write
<1>12. CASE WriteFails
  BY <1>12 DEF WriteFails
<1>13. CASE Close
  BY <1>13 DEF Close
<1>14. CASE PeerSends
  BY <1>14 DEF PeerSends
<1>15. CASE UNCHANGED vars
  BY <1>15 DEF vars, restVars
<1>16. CASE ReadInternal
  BY <1>16 DEF ReadInternal
<1> QED BY <1>1, <1>2, <1>3, <1>4, <1>5, <1>6, <1>7, <1>8, <1>9, <1>10, <1>11, <1>12,
           <1>13, <1>14, <1>15, <1>16 DEF Next, Handshake, ReadStep

\* The inductive invariant holds in every behaviour of the library.
LEMMA Invariant == Spec => []IInv
<1>1. IInv /\ [Next]_vars => IInv'
  <2> SUFFICES ASSUME IInv, [Next]_vars PROVE IInv'
    OBVIOUS
  <2>1. TypeOK'
    BY CountNext, StateNext DEF IInv, TypeOK
  <2>2. RestInv' /\ SequenceInv' /\ DeliveryInv'
    BY RestNext, SequenceNext, DeliveryNext DEF IInv
  <2> QED BY <2>1, <2>2 DEF IInv
<1> QED BY InvInit, <1>1, PTL DEF Spec

(***************************************************************************)
(* The buffer never holds more records than one read can bring, and every  *)
(* variable of the library stays in its type.                              *)
(***************************************************************************)
THEOREM TypeCorrect == Spec => []TypeOK
<1>1. IInv => TypeOK
  BY DEF IInv
<1> QED BY Invariant, <1>1, PTL

(***************************************************************************)
(* What a handshake or a read finds in the buffer was read from the        *)
(* present connection, whatever calls failed on the connections before.    *)
(***************************************************************************)
THEOREM RestTheorem == Spec => []RestIsCurrent
<1>1. IInv => RestIsCurrent
  BY DEF IInv, RestInv, RestIsCurrent, Live
<1> QED BY Invariant, <1>1, PTL

(***************************************************************************)
(* A record of a correct peer is rejected only after a failed call or a    *)
(* write that threw kept input away.                                       *)
(***************************************************************************)
THEOREM RejectionTheorem == Spec => []RejectionExplained
<1>1. IInv => RejectionExplained
  BY DEF IInv, SequenceInv, RejectionExplained
<1> QED BY Invariant, <1>1, PTL

\* The substitution under which the library is seen as a channel.
Whole == phase \in Live /\ dev \in {"handshake", "up"}

\* The record a call uses has been sent and is the next to be handed on.
LEMMA NextRecord ==
  ASSUME CountTypes, RestInv, DeliveryInv, phase \in Live, InSequence,
         NEW k \in 1 .. Batch, TakeInput(k)
  PROVE  delivered < sent /\ Head = delivered + 1 /\ Whole
<1> USE KseTlsAssumption DEF CountTypes
<1>1. Whole /\ Head = devNext /\ delivered + 1 = devNext
  BY DEF InSequence, DeliveryInv, Whole
<1>2. Head \in 1 .. sent
  BY <1>1 DEF TakeInput, RestInv, Head, InSequence
<1> QED BY <1>1, <1>2

\* Every step of the library is a step of the channel or leaves it alone.
LEMMA StepRefines == IInv /\ [Next]_vars => [Channel!ChannelNext]_(Channel!channelVars)
<1> SUFFICES ASSUME IInv, [Next]_vars PROVE [Channel!ChannelNext]_(Channel!channelVars)
  OBVIOUS
<1>0. /\ sent' = sent + 1 /\ UNCHANGED delivered /\ (Whole' <=> Whole)
        => Channel!Put
      /\ Whole /\ (Whole' <=> Whole) /\ delivered < sent /\ delivered' = delivered + 1
           /\ UNCHANGED sent
        => Channel!Deliver
      /\ ~Whole' /\ UNCHANGED <<sent, delivered>> => Channel!Break
      /\ sent' = 0 /\ delivered' = 0 => Channel!Renew
      /\ (Whole' <=> Whole) /\ UNCHANGED <<sent, delivered>> => UNCHANGED Channel!channelVars
  BY DEF Whole, Live, Channel!Put, Channel!Deliver, Channel!Break, Channel!Renew,
         Channel!channelVars
<1> USE DEF Channel!ChannelNext
<1>1. CASE Open
  BY <1>0, <1>1 DEF Open, NewConnection
<1>2. CASE OpenFails
  BY <1>0, <1>2 DEF OpenFails, NewConnection
<1>3. CASE HandshakeInput
  <2>1. PICK k \in 1 .. Batch : TakeInput(k) /\ HandshakeGoesOn(Head + 1, k - 1)
    BY <1>3 DEF HandshakeInput
  <2>2. phase \in Live /\ InSequence /\ delivered' = Head /\ UNCHANGED sent
    BY <1>3 DEF HandshakeInput, Live
  <2>3. delivered < sent /\ Head = delivered + 1 /\ Whole
    BY <2>1, <2>2, NextRecord DEF IInv, TypeOK
  <2>4. Whole'
    BY <2>1 DEF HandshakeGoesOn, Whole, Live
  <2> QED BY <1>0, <2>2, <2>3, <2>4
<1>4. CASE HandshakeOutput
  <2>1. Whole
    BY <1>4 DEF HandshakeOutput, IInv, SequenceInv, Whole, Live
  <2>2. Whole'
    BY <1>4 DEF HandshakeOutput, HandshakeGoesOn, Whole, Live
  <2> QED BY <1>0, <1>4, <2>1, <2>2 DEF HandshakeOutput
<1>5. CASE HandshakeRefuses
  BY <1>0, <1>5 DEF HandshakeRefuses, Whole, Live
<1>6. CASE HandshakeInternal
  BY <1>0, <1>6 DEF HandshakeInternal, Whole, Live
<1>7. CASE HandshakeFails
  BY <1>0, <1>7 DEF HandshakeFails, Whole, Live
<1>8. CASE Read
  <2>1. PICK k \in 1 .. Batch : TakeInput(k)
    BY <1>8 DEF Read
  <2>2. /\ phase \in Live /\ InSequence /\ delivered' = Head
        /\ UNCHANGED <<sent, phase, dev>>
    BY <1>8 DEF Read, ReadCalled, Live
  <2>3. delivered < sent /\ Head = delivered + 1 /\ Whole
    BY <2>1, <2>2, NextRecord DEF IInv, TypeOK
  <2>4. Whole'
    BY <2>2, <2>3 DEF Whole
  <2> QED BY <1>0, <2>2, <2>3, <2>4
<1>9. CASE ReadRejects
  BY <1>0, <1>9 DEF ReadRejects, Whole, Live
<1>10. CASE ReadFails
  BY <1>0, <1>10 DEF ReadFails, Whole, Live
<1>11. CASE Write
  BY <1>0, <1>11 DEF Write, Whole
<1>12. CASE WriteFails
  BY <1>0, <1>12 DEF WriteFails, Whole
<1>13. CASE Close
  BY <1>0, <1>13 DEF Close, Whole, Live
<1>14. CASE PeerSends
  BY <1>0, <1>14 DEF PeerSends, Whole
<1>15. CASE UNCHANGED vars
  BY <1>0, <1>15 DEF vars, Whole
<1>16. CASE ReadInternal
  BY <1>0, <1>16 DEF ReadInternal, Whole, Live
<1> QED BY <1>1, <1>2, <1>3, <1>4, <1>5, <1>6, <1>7, <1>8, <1>9, <1>10, <1>11, <1>12,
           <1>13, <1>14, <1>15, <1>16 DEF Next, Handshake, ReadStep

(***************************************************************************)
(* The TLS functions of the kse library deliver the records of a           *)
(* connection in the order of their sending, without a gap and without a   *)
(* repetition, until the channel breaks, and nothing from then on.         *)
(***************************************************************************)
THEOREM ChannelTheorem == Spec => ImplementsChannel
<1>1. Init => Channel!ChannelInit
  BY DEF Init, Channel!ChannelInit
<1> QED BY Invariant, <1>1, StepRefines, PTL DEF Spec, ImplementsChannel, Channel!ChannelSpec
=============================================================================
