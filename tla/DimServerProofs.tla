-------------------------- MODULE DimServerProofs --------------------------
(***************************************************************************)
(* Theorems about DimServer, for every number of connections, descriptors  *)
(* and inputs and every inactivity limit.                                  *)
(***************************************************************************)
EXTENDS DimServer, TLAPS

\* What _ksetlsTlsRead returns is a result of recv, whatever arrived.
LEMMA OutcomesType == \A k \in Kinds : Outcomes(k) \subseteq ReadResults
  BY DEF Outcomes, Answer, Kinds, ReadResults, Failures, FinalFailures

\* The number 0, for no connection, is within the range of the tables.
LEMMA NoneIsConn == 0 \in 0 .. MaxConns
  BY DimServerAssumption

\* The program starts with every variable in its type.
LEMMA TypeInit == Init => TypeOK
<1> SUFFICES ASSUME Init PROVE TypeOK
  OBVIOUS
<1>1. ThreadTypes
  BY DimServerAssumption DEF Init, ThreadTypes, ReaderPcs, WriterPcs
<1>2. WorldTypes
  BY DimServerAssumption DEF Init, WorldTypes
<1>3. FlagTypes
  BY DEF Init, FlagTypes
<1>4. FailureTypes
  BY DimServerAssumption DEF Init, FailureTypes
<1> QED BY <1>1, <1>2, <1>3, <1>4 DEF TypeOK

\* A step keeps the types of the threads' variables.
LEMMA ThreadTypesNext == TypeOK /\ [Next]_vars => ThreadTypes'
<1> SUFFICES ASSUME ThreadTypes, WorldTypes, [Next]_vars PROVE ThreadTypes'
  BY DEF TypeOK
<1> USE DEF ThreadTypes, readerVars, writerVars, kernelVars, peerVars, ghostVars
<1>1. CASE Accept BY <1>1 DEF Accept, ReaderPcs, InSession, ReaderCalls
<1>2. CASE AcceptConn
  BY <1>2 DEF AcceptConn, ReaderPcs, InSession, ReaderCalls, Fds
<1>3. CASE AcceptFails
  BY <1>3 DEF AcceptFails, ReaderPcs, InSession, ReaderCalls
<1>4. CASE TlsOpenOk BY <1>4 DEF TlsOpenOk, ReaderPcs, InSession, ReaderCalls
<1>5. CASE TlsOpenFails
  BY <1>5 DEF TlsOpenFails, ReaderPcs, InSession, ReaderCalls
<1>6. CASE HandshakeReturns
  BY <1>6 DEF HandshakeReturns, ReaderPcs, InSession, ReaderCalls
<1>7. CASE Publish BY <1>7 DEF Publish, ReaderPcs, InSession, ReaderCalls
<1>8. CASE ClearErr BY <1>8 DEF ClearErr, ReaderPcs, InSession, ReaderCalls
<1>9. CASE InitPoll BY <1>9 DEF InitPoll, ReaderPcs, InSession, ReaderCalls
<1>10. CASE Recv BY <1>10 DEF Recv, ReaderPcs, InSession, ReaderCalls
<1>11. CASE PollInput BY <1>11 DEF PollInput, ReaderPcs, InSession, ReaderCalls
<1>12. CASE PollNothing
  BY <1>12 DEF PollNothing, ReaderPcs, InSession, ReaderCalls, ReadResults
<1>13. CASE TlsReadReturns
  BY OutcomesType, <1>13
  DEF TlsReadReturns, ReaderPcs, InSession, ReaderCalls, Readable, WorldTypes
<1>14. CASE SetErr BY <1>14 DEF SetErr, ReaderPcs, InSession, ReaderCalls
<1>15. CASE ReturnData
  BY <1>15 DEF ReturnData, LowerRead, ReaderPcs, InSession, ReaderCalls
<1>16. CASE ReturnAgain
  BY <1>16 DEF ReturnAgain, LowerRead, ReaderPcs, InSession, ReaderCalls
<1>17. CASE ReturnZero
  BY <1>17 DEF ReturnZero, LowerRead, ReaderPcs, InSession, ReaderCalls
<1>18. CASE ReturnAlert
  BY <1>18 DEF ReturnAlert, LowerRead, ReaderPcs, InSession, ReaderCalls
<1>19. CASE ReturnError
  BY <1>19 DEF ReturnError, LowerRead, ReaderPcs, InSession, ReaderCalls
<1>20. CASE CloseNotifyReturns
  BY <1>20 DEF CloseNotifyReturns, ReaderPcs, InSession, ReaderCalls
<1>21. CASE Disconnect
  BY <1>21 DEF Disconnect, ReaderPcs, InSession, ReaderCalls
<1>22. CASE CloseFd BY <1>22 DEF CloseFd, ReaderPcs, InSession, ReaderCalls
<1>23. CASE TlsCloseReturns
  BY <1>23 DEF TlsCloseReturns, ReaderPcs, InSession, ReaderCalls
<1>24. CASE Dequeue BY <1>24 DEF Dequeue, WriterPcs, WriterCalls
<1>25. CASE SendTestsStatus
  BY <1>25 DEF SendTestsStatus, WriterPcs, WriterCalls
<1>26. CASE TestBeforeSpin
  BY <1>26 DEF TestBeforeSpin, SendTestsError, WriterPcs, WriterCalls
<1>27. CASE TestAfterSpin
  BY <1>27 DEF TestAfterSpin, SendTestsError, WriterPcs, WriterCalls
<1>28. CASE SpinEnds BY <1>28 DEF SpinEnds, WriterPcs, WriterCalls
<1>29. CASE RaiseWrite BY <1>29 DEF RaiseWrite, WriterPcs, WriterCalls
<1>30. CASE CallTlsWrite BY <1>30 DEF CallTlsWrite, WriterPcs, WriterCalls, Fds
<1>31. CASE Encrypt
  BY DimServerAssumption, <1>31 DEF Encrypt, WriterPcs, WriterCalls, WorldTypes, Fds
<1>32. CASE Transmit BY <1>32 DEF Transmit, WriterPcs, WriterCalls
<1>33. CASE TlsWriteFails
  BY <1>33 DEF TlsWriteFails, WriterPcs, WriterCalls, WriterInKse
<1>34. CASE LowerWrite
  BY DimServerAssumption, <1>34 DEF LowerWrite, WriterPcs, WriterCalls
<1>35. CASE PeerSends BY <1>35 DEF PeerSends
<1>36. CASE UNCHANGED vars BY <1>36 DEF vars
<1> QED
  BY <1>1, <1>2, <1>3, <1>4, <1>5, <1>6, <1>7, <1>8, <1>9, <1>10, <1>11,
     <1>12, <1>13, <1>14, <1>15, <1>16, <1>17, <1>18, <1>19, <1>20, <1>21,
     <1>22, <1>23, <1>24, <1>25, <1>26, <1>27, <1>28, <1>29, <1>30, <1>31,
     <1>32, <1>33, <1>34, <1>35, <1>36
  DEF Next, ReaderStep, SessionStep, WriterStep

\* A step keeps the types of the kernel's, the device's and the peers' state.
LEMMA WorldTypesNext == TypeOK /\ [Next]_vars => WorldTypes'
<1> SUFFICES ASSUME ThreadTypes, WorldTypes, [Next]_vars PROVE WorldTypes'
  BY DEF TypeOK
<1> USE DEF WorldTypes, readerVars, writerVars, kernelVars, peerVars, ghostVars,
            ReaderEnters, ReaderLeaves
<1>1. CASE Accept BY <1>1 DEF Accept
<1>2. CASE AcceptConn BY DimServerAssumption, <1>2 DEF AcceptConn, ThreadTypes
<1>3. CASE AcceptFails BY <1>3 DEF AcceptFails
<1>4. CASE TlsOpenOk
  <2>1. clash' \in SUBSET {"R", "W"} /\ entries' \in Nat
    BY <1>4 DEF TlsOpenOk
  <2>2. tls' \in [Fds -> 0 .. MaxConns]
    BY NoneIsConn, <1>4 DEF TlsOpenOk
  <2> QED BY <1>4, <2>1, <2>2 DEF TlsOpenOk
<1>5. CASE TlsOpenFails BY <1>5 DEF TlsOpenFails
<1>6. CASE HandshakeReturns
  BY DimServerAssumption, <1>6 DEF HandshakeReturns, ThreadTypes
<1>7. CASE Publish BY <1>7 DEF Publish
<1>8. CASE ClearErr BY <1>8 DEF ClearErr
<1>9. CASE InitPoll BY <1>9 DEF InitPoll
<1>10. CASE Recv BY <1>10 DEF Recv
<1>11. CASE PollInput BY <1>11 DEF PollInput
<1>12. CASE PollNothing BY <1>12 DEF PollNothing
<1>13. CASE TlsReadReturns BY <1>13 DEF TlsReadReturns, Readable
<1>14. CASE SetErr BY <1>14 DEF SetErr
<1>15. CASE ReturnData BY <1>15 DEF ReturnData, LowerRead
<1>16. CASE ReturnAgain BY <1>16 DEF ReturnAgain, LowerRead
<1>17. CASE ReturnZero
  <2>1. clash' \in SUBSET {"R", "W"}
    BY <1>17 DEF ReturnZero, LowerRead
  <2>2. entries' \in Nat
    BY <1>17 DEF ReturnZero, LowerRead
  <2> QED BY <1>17, <2>1, <2>2 DEF ReturnZero, LowerRead
<1>18. CASE ReturnAlert BY <1>18 DEF ReturnAlert, LowerRead
<1>19. CASE ReturnError BY <1>19 DEF ReturnError, LowerRead
<1>20. CASE CloseNotifyReturns BY <1>20 DEF CloseNotifyReturns
<1>21. CASE Disconnect BY <1>21 DEF Disconnect
<1>22. CASE CloseFd
  <2>1. clash' \in SUBSET {"R", "W"} /\ entries' \in Nat
    BY <1>22 DEF CloseFd
  <2>2. fdTable' \in [Fds -> 0 .. MaxConns]
    BY NoneIsConn, <1>22 DEF CloseFd
  <2>3. ended' \in [Conns -> {"open", "refused", "readError", "closed"}]
    BY <1>22 DEF CloseFd
  <2> QED BY <1>22, <2>1, <2>2, <2>3 DEF CloseFd
<1>23. CASE TlsCloseReturns
  <2>1. clash' \in SUBSET {"R", "W"}
    BY <1>23 DEF TlsCloseReturns
  <2>2. tls' \in [Fds -> 0 .. MaxConns]
    BY NoneIsConn, <1>23 DEF TlsCloseReturns
  <2> QED BY <1>23, <2>1, <2>2 DEF TlsCloseReturns
<1>24. CASE Dequeue BY <1>24 DEF Dequeue
<1>25. CASE SendTestsStatus BY <1>25 DEF SendTestsStatus
<1>26. CASE TestBeforeSpin
  BY <1>26 DEF TestBeforeSpin, SendTestsError
<1>27. CASE TestAfterSpin
  BY <1>27 DEF TestAfterSpin, SendTestsError
<1>28. CASE SpinEnds BY <1>28 DEF SpinEnds
<1>29. CASE RaiseWrite BY <1>29 DEF RaiseWrite
<1>30. CASE CallTlsWrite
  <2>1. clash' \in SUBSET {"R", "W"}
    BY <1>30 DEF CallTlsWrite
  <2>2. entries' \in Nat
    BY <1>30 DEF CallTlsWrite
  <2> QED BY <1>30, <2>1, <2>2 DEF CallTlsWrite
<1>31. CASE Encrypt
  <2>1. UNCHANGED <<kernelVars, tls, clash, peerVars, ghostVars>>
    BY <1>31 DEF Encrypt
  <2> QED BY <2>1
<1>32. CASE Transmit
  <2>1. clash' \in SUBSET {"R", "W"}
    BY <1>32 DEF Transmit
  <2>2. strays' \in [Conns -> Nat]
    <3>1. strays' \in {strays, [strays EXCEPT ![wrec] = strays[wrec] + 1]}
      BY <1>32 DEF Transmit
    <3>2. strays \in [Conns -> Nat] /\ (wrec \in Conns => strays[wrec] + 1 \in Nat)
      OBVIOUS
    <3> QED BY <3>1, <3>2
  <2> QED BY <1>32, <2>1, <2>2 DEF Transmit
<1>33. CASE TlsWriteFails BY <1>33 DEF TlsWriteFails
<1>34. CASE LowerWrite BY <1>34 DEF LowerWrite
<1>35. CASE PeerSends BY DimServerAssumption, <1>35 DEF PeerSends, ThreadTypes
<1>36. CASE UNCHANGED vars BY <1>36 DEF vars
<1> QED
  BY <1>1, <1>2, <1>3, <1>4, <1>5, <1>6, <1>7, <1>8, <1>9, <1>10, <1>11,
     <1>12, <1>13, <1>14, <1>15, <1>16, <1>17, <1>18, <1>19, <1>20, <1>21,
     <1>22, <1>23, <1>24, <1>25, <1>26, <1>27, <1>28, <1>29, <1>30, <1>31,
     <1>32, <1>33, <1>34, <1>35, <1>36
  DEF Next, ReaderStep, SessionStep, WriterStep

\* A step keeps the flags Boolean.
LEMMA FlagTypesNext == TypeOK /\ [Next]_vars => FlagTypes'
<1> SUFFICES ASSUME FlagTypes, [Next]_vars PROVE FlagTypes'
  BY DEF TypeOK
<1> USE DEF FlagTypes, ghostVars
<1>1. CASE ReaderStep
  BY <1>1
  DEF ReaderStep, SessionStep, Accept, AcceptConn, AcceptFails, TlsOpenOk,
      TlsOpenFails, HandshakeReturns, Publish, ClearErr, InitPoll, Recv, PollInput,
      PollNothing, TlsReadReturns, SetErr, LowerRead, ReturnData, ReturnAgain,
      ReturnZero, ReturnAlert, ReturnError, CloseNotifyReturns, Disconnect, CloseFd,
      TlsCloseReturns
<1>2. CASE WriterStep
  BY <1>2
  DEF WriterStep, Dequeue, SendTestsStatus, SendTestsError, TestBeforeSpin,
      TestAfterSpin, SpinEnds, RaiseWrite, CallTlsWrite, Encrypt, Transmit,
      TlsWriteFails, LowerWrite
<1>3. CASE PeerSends
  BY <1>3 DEF PeerSends
<1>4. CASE UNCHANGED vars
  BY <1>4 DEF vars
<1> QED BY <1>1, <1>2, <1>3, <1>4 DEF Next

\* A step keeps the types of the history of failures.
LEMMA FailureTypesNext == TypeOK /\ [Next]_vars => FailureTypes'
<1> SUFFICES ASSUME FailureTypes, accepted \in 0 .. MaxConns, [Next]_vars
             PROVE FailureTypes'
  BY DEF TypeOK, WorldTypes
<1> USE DEF FailureTypes, ghostVars
<1>1. CASE TlsReadReturns
  BY <1>1 DEF TlsReadReturns
<1>2. CASE ReaderStep /\ ~TlsReadReturns
  BY <1>2
  DEF ReaderStep, SessionStep, Accept, AcceptConn, AcceptFails, TlsOpenOk,
      TlsOpenFails, HandshakeReturns, Publish, ClearErr, InitPoll, Recv, PollInput,
      PollNothing, SetErr, LowerRead, ReturnData, ReturnAgain,
      ReturnZero, ReturnAlert, ReturnError, CloseNotifyReturns, Disconnect, CloseFd,
      TlsCloseReturns
<1>3. CASE SpinEnds
  BY <1>3 DEF SpinEnds
<1>4. CASE LowerWrite
  BY <1>4, NoneIsConn DEF LowerWrite
<1>5. CASE WriterStep /\ ~SpinEnds /\ ~LowerWrite
  BY <1>5
  DEF WriterStep, Dequeue, SendTestsStatus, SendTestsError, TestBeforeSpin,
      TestAfterSpin, RaiseWrite, CallTlsWrite, Encrypt, Transmit,
      TlsWriteFails
<1>6. CASE PeerSends
  BY <1>6 DEF PeerSends
<1>7. CASE UNCHANGED vars
  BY <1>7 DEF vars
<1> QED BY <1>1, <1>2, <1>3, <1>4, <1>5, <1>6, <1>7 DEF Next

\* A step keeps every type.
LEMMA TypeNext == TypeOK /\ [Next]_vars => TypeOK'
  BY ThreadTypesNext, WorldTypesNext, FlagTypesNext, FailureTypesNext DEF TypeOK

(***************************************************************************)
(* Every variable keeps its type: the writer's descriptor, the tables and  *)
(* the history name descriptors and connections that exist.                *)
(***************************************************************************)
THEOREM TypeCorrect == Spec => []TypeOK
  BY TypeInit, TypeNext, PTL DEF Spec

-----------------------------------------------------------------------------
(* The inductive invariant: TypeOK and the parts below.                    *)

\* on_read is up exactly inside DimSocket::recv.
Raised == onRead <=> rpc \in {"poll", "tlsRead", "setErr", "lowerRead"}

\* Positions from the publication of a connection to its ::close.
Served == {"clearErr"} \cup InSession

\* What the status says follows from where the reader thread is.
StatusFollows ==
  /\ rpc \in {"listen", "tlsOpen", "handshake", "publish", "closeFd", "tlsClose"}
       => connStatus = "DISCONNECTED"
  /\ rpc \in Served \ {"closeFd"} => connStatus = "CONNECTED"

\* _fd names the newest connection, and the pollfd has the same descriptor.
HoldsNewest ==
  /\ rpc \in {"tlsOpen", "handshake", "publish"} \cup Served
       => accepted \in Conns /\ fd \in Fds /\ fdTable[fd] = accepted
  /\ rpc \in Polling => pollFd = fd
  /\ rpc = "tlsClose" => fd \in Fds /\ fdTable[fd] = 0

\* How far a writer that met the reader's call can be: not back at its tests' end.
Overlaps ==
  rpc \in Shielded =>
    \/ entries = 0
    \/ entries = 1 /\ wpc \in {"encrypt", "transmit", "lower", "idle"}
    \/ entries = 1 /\ rpc = "tlsRead" /\ wpc \in {"send", "err1", "spin"}

\* After a final failure the thread is on its way back to accept, and the error
\* stays recorded until accept clears it for a newer connection.
FailureStays ==
  /\ failed <= accepted
  /\ failed # 0 /\ failed = accepted =>
       /\ rpc \in {"setErr", "lowerRead", "closeNotify", "disconnect", "closeFd",
                  "tlsClose", "accept", "listen"}
       /\ rpc \in {"setErr", "lowerRead"} => rres \in FinalFailures
       /\ rpc # "setErr" => readErr = -1

\* A descriptor that _fd names is the newest connection's, or closed; a writer
\* that is under way has a descriptor.
NewestFd ==
  /\ fd \in Fds => fdTable[fd] \in {0, accepted}
  /\ accepted # 0 => fd # 0
  /\ wpc # "idle" => accepted # 0
  /\ WriterInKse => wfd \in Fds

\* A writer that passed its second test knows of failures of older connections only.
SpunOlder ==
  /\ spunErr <= failed
  /\ wpc = "err2" /\ spunErr # 0 /\ spunErr = accepted => rpc # "setErr"
  /\ wpc \in {"raise", "call"} \cup WriterCalls /\ spunErr # 0 => spunErr < accepted
  /\ WriterInKse /\ spunErr # 0 => fdTable[wfd] # spunErr

ErrorStays == FailureStays /\ NewestFd /\ SpunOlder

\* Descriptors name one connection each, and only the newest can be unfinished.
Descriptors ==
  /\ \A f \in Fds : fdTable[f] <= accepted
  /\ \A f, g \in Fds : fdTable[f] = fdTable[g] /\ fdTable[f] # 0 => f = g
  /\ \A c \in Conns : c > accepted => ended[c] = "open"
  /\ rpc \in {"accept", "listen", "tlsClose"} /\ accepted # 0 => ended[accepted] # "open"
  /\ rpc \in {"tlsOpen", "handshake", "publish"} \cup Served => ended[accepted] = "open"

\* The device holds keys of a connection for its own descriptor only; keys that
\* outlive their connection are not those of a published one.
Keys ==
  /\ \A f \in Fds : tls[f] # 0 => /\ tls[f] <= accepted
                                  /\ fdTable[f] = tls[f] \/ ended[tls[f]] = "closed"
  /\ \A f, g \in Fds : tls[f] = tls[g] /\ tls[f] # 0 => f = g
  /\ rpc = "tlsOpen" => \A f \in Fds : tls[f] # accepted
  /\ rpc = "handshake" => \A f \in Fds : tls[f] # accepted
  /\ rpc \in {"publish"} \cup Served \/ connStatus = "CONNECTED"
       => /\ fd \in Fds /\ fdTable[fd] = accepted /\ accepted # 0
          /\ tls[fd] \in {0, accepted}
  /\ rpc = "handshake" => tls[fd] = 0

\* A sealed record has an owner that still holds the descriptor or was closed.
Records ==
  /\ wrec <= accepted
  /\ rpc \in {"tlsOpen", "handshake"} => wrec # accepted
  /\ wpc = "encrypt" /\ wfd \in Fds /\ tls[wfd] # 0 => strays[tls[wfd]] = 0
  /\ wpc = "transmit" => wfd \in Fds
  /\ wpc = "transmit" /\ wrec # 0 =>
       /\ fdTable[wfd] = wrec \/ ended[wrec] = "closed"
       /\ strays[wrec] = 0
       /\ \A f \in Fds : tls[f] = wrec => f = wfd

\* Keys of a session that lost a record are out of the writer's reach.
Strayed ==
  \A c \in Conns : strays[c] # 0 =>
    /\ strays[c] = 1 /\ ended[c] = "closed"
    /\ \A f \in Fds : tls[f] = c =>
         /\ fdTable[f] \notin {0, c}
         /\ f = fd => /\ connStatus = "DISCONNECTED"
                      /\ rpc \in {"tlsOpen", "accept", "listen"}
                      /\ wpc \in {"lower", "idle"}

IInv ==
  /\ TypeOK /\ Raised /\ StatusFollows /\ HoldsNewest /\ Overlaps /\ ErrorStays
  /\ Descriptors /\ LeaksAreErrors /\ Keys /\ Records /\ Strayed

\* The invariant holds when the threads start.
LEMMA InvInit == Init => IInv
<1> SUFFICES ASSUME Init PROVE IInv
  OBVIOUS
<1>1. TypeOK
  BY TypeInit
<1>2. Raised /\ StatusFollows /\ HoldsNewest /\ Overlaps /\ ErrorStays
  BY DEF Init, Raised, StatusFollows, HoldsNewest, Overlaps, ErrorStays, FailureStays,
         NewestFd, SpunOlder, WriterInKse, WriterCalls, Fds, Served, InSession, Polling,
         Shielded
<1>3. Descriptors /\ LeaksAreErrors
  BY DEF Init, Descriptors, LeaksAreErrors, Served, InSession
<1>4. Keys /\ Records /\ Strayed
  BY DEF Init, Keys, Records, Strayed, Served, InSession
<1> QED BY <1>1, <1>2, <1>3, <1>4 DEF IInv

-----------------------------------------------------------------------------
(* Frames: what a step of each thread leaves alone.                        *)

\* A step inside the session loop that closes nothing.
ReadsOn ==
  /\ UNCHANGED <<fd, fdTable, accepted, ended, tls, connStatus>>
  /\ rpc \in InSession \ {"closeFd"} /\ rpc' \in InSession \ {"closeFd"}

\* The reader's steps either touch connections or just go on in the session loop.
LEMMA ReaderCases ==
  ReaderStep =>
    /\ UNCHANGED <<wpc, wfd, wrec, strays>>
    /\ \/ Accept \/ AcceptConn \/ AcceptFails \/ TlsOpenOk \/ TlsOpenFails
       \/ HandshakeReturns \/ Publish \/ ClearErr \/ ReturnError \/ Disconnect
       \/ CloseFd \/ TlsCloseReturns \/ ReadsOn
<1> SUFFICES ASSUME ReaderStep
             PROVE  /\ UNCHANGED <<wpc, wfd, wrec, strays>>
                    /\ \/ Accept \/ AcceptConn \/ AcceptFails \/ TlsOpenOk \/ TlsOpenFails
                       \/ HandshakeReturns \/ Publish \/ ClearErr \/ ReturnError
                       \/ Disconnect \/ CloseFd \/ TlsCloseReturns \/ ReadsOn
  OBVIOUS
<1>1. UNCHANGED <<wpc, wfd, wrec, strays>>
  BY DEF writerVars, ghostVars, ReaderStep, SessionStep, Accept, AcceptConn, AcceptFails,
      TlsOpenOk, TlsOpenFails, HandshakeReturns, Publish, ClearErr, InitPoll, Recv,
      PollInput, PollNothing, TlsReadReturns, SetErr, LowerRead, ReturnData, ReturnAgain,
      ReturnZero, ReturnAlert, ReturnError, CloseNotifyReturns, Disconnect, CloseFd,
      TlsCloseReturns
<1>2. InitPoll \/ Recv \/ PollInput \/ PollNothing \/ TlsReadReturns \/ SetErr => ReadsOn
  BY DEF InitPoll, Recv, PollInput, PollNothing, TlsReadReturns, SetErr, ReadsOn,
         InSession, kernelVars, ghostVars
<1>3. ReturnData \/ ReturnAgain \/ ReturnZero \/ ReturnAlert \/ CloseNotifyReturns => ReadsOn
  BY DEF LowerRead, ReturnData, ReturnAgain, ReturnZero, ReturnAlert, CloseNotifyReturns,
         ReadsOn, InSession, kernelVars, ghostVars
<1> QED BY <1>1, <1>2, <1>3 DEF ReaderStep, SessionStep

\* A step that is not the reader thread's.
Others == WriterStep \/ PeerSends \/ UNCHANGED vars

\* The writer and the peers leave the connection tables to the reader.
LEMMA WriterKeeps ==
  Others =>
    UNCHANGED <<rpc, fd, pollFd, connStatus, fdTable, accepted, tls, ended>>
  BY DEF Others, vars, readerVars, kernelVars, ghostVars, PeerSends, WriterStep, Dequeue,
       SendTestsStatus, SendTestsError, TestBeforeSpin, TestAfterSpin, SpinEnds,
       RaiseWrite, CallTlsWrite, Encrypt, Transmit, TlsWriteFails, LowerWrite

\* Every step is the reader's or one of the others.
LEMMA EitherThread == [Next]_vars => ReaderStep \/ Others
  BY DEF Next, Others

-----------------------------------------------------------------------------
(* Each part is preserved.                                                 *)

\* No step separates on_read from the reader's place in recv.
LEMMA RaisedNext == Raised /\ [Next]_vars => Raised'
<1> SUFFICES ASSUME Raised, [Next]_vars PROVE Raised'
  OBVIOUS
<1> USE DEF Raised, readerVars
<1>1. CASE ReaderStep
  BY <1>1
  DEF ReaderStep, SessionStep, Accept, AcceptConn, AcceptFails, TlsOpenOk, TlsOpenFails,
      HandshakeReturns,
      Publish, ClearErr, InitPoll, Recv, PollInput, PollNothing, TlsReadReturns, SetErr,
      LowerRead, ReturnData, ReturnAgain, ReturnZero, ReturnAlert, ReturnError,
      CloseNotifyReturns, Disconnect, CloseFd, TlsCloseReturns
<1>2. CASE WriterStep
  BY <1>2
  DEF WriterStep, SendTestsError, Dequeue, SendTestsStatus, TestBeforeSpin, TestAfterSpin,
      SpinEnds, RaiseWrite,
      CallTlsWrite, Encrypt, Transmit, TlsWriteFails, LowerWrite
<1>3. CASE PeerSends
  BY <1>3 DEF PeerSends
<1>4. CASE UNCHANGED vars
  BY <1>4 DEF vars
<1> QED BY <1>1, <1>2, <1>3, <1>4 DEF Next

\* No step separates the status from the reader's place.
LEMMA StatusNext == StatusFollows /\ [Next]_vars => StatusFollows'
<1> SUFFICES ASSUME StatusFollows, [Next]_vars PROVE StatusFollows'
  OBVIOUS
<1> USE DEF StatusFollows, Served, InSession, readerVars
<1>1. CASE ReaderStep
  BY <1>1
  DEF ReaderStep, SessionStep, Accept, AcceptConn, AcceptFails, TlsOpenOk, TlsOpenFails,
      HandshakeReturns,
      Publish, ClearErr, InitPoll, Recv, PollInput, PollNothing, TlsReadReturns, SetErr,
      LowerRead, ReturnData, ReturnAgain, ReturnZero, ReturnAlert, ReturnError,
      CloseNotifyReturns, Disconnect, CloseFd, TlsCloseReturns
<1>2. CASE WriterStep
  BY <1>2
  DEF WriterStep, SendTestsError, Dequeue, SendTestsStatus, TestBeforeSpin, TestAfterSpin,
      SpinEnds, RaiseWrite,
      CallTlsWrite, Encrypt, Transmit, TlsWriteFails, LowerWrite
<1>3. CASE PeerSends
  BY <1>3 DEF PeerSends
<1>4. CASE UNCHANGED vars
  BY <1>4 DEF vars
<1> QED BY <1>1, <1>2, <1>3, <1>4 DEF Next

\* The reader keeps _fd on the newest connection.
LEMMA NewestReader == HoldsNewest /\ TypeOK /\ ReaderStep => HoldsNewest'
<1> SUFFICES ASSUME HoldsNewest, TypeOK, ReaderStep PROVE HoldsNewest'
  OBVIOUS
<1> USE DEF HoldsNewest, TypeOK, ThreadTypes, WorldTypes, Served, InSession, Polling,
            kernelVars
<1>1. CASE AcceptConn
  <2>1. PICK f \in Fds : fd' = f /\ fdTable' = [fdTable EXCEPT ![f] = accepted + 1]
    BY <1>1 DEF AcceptConn
  <2>2. accepted' = accepted + 1 /\ accepted < MaxConns /\ rpc' = "tlsOpen"
    BY <1>1 DEF AcceptConn
  <2> QED BY <2>1, <2>2, DimServerAssumption DEF Conns
<1>2. CASE CloseFd
  BY <1>2 DEF CloseFd
<1>4. CASE InitPoll
  BY <1>4 DEF InitPoll
<1>5. CASE AcceptFails
  BY <1>5 DEF AcceptFails
<1>6. CASE Accept \/ TlsOpenOk \/ TlsOpenFails \/ HandshakeReturns \/ Publish \/ ClearErr
  BY <1>6 DEF Accept, TlsOpenOk, TlsOpenFails, HandshakeReturns, Publish, ClearErr
<1>7. CASE Recv \/ PollInput \/ PollNothing \/ TlsReadReturns \/ SetErr
  BY <1>7 DEF Recv, PollInput, PollNothing, TlsReadReturns, SetErr
<1>8. CASE ReturnData \/ ReturnAgain \/ ReturnZero \/ ReturnAlert \/ ReturnError
  BY <1>8 DEF LowerRead, ReturnData, ReturnAgain, ReturnZero, ReturnAlert, ReturnError
<1>9. CASE CloseNotifyReturns \/ Disconnect \/ TlsCloseReturns
  BY <1>9 DEF CloseNotifyReturns, Disconnect, TlsCloseReturns
<1> QED BY <1>1, <1>2, <1>4, <1>5, <1>6, <1>7, <1>8, <1>9 DEF ReaderStep, SessionStep

\* Nobody else moves _fd.
LEMMA NewestNext == HoldsNewest /\ TypeOK /\ [Next]_vars => HoldsNewest'
  BY NewestReader, EitherThread, WriterKeeps DEF HoldsNewest

\* A second writer is stopped by the flag or the status.
LEMMA OverlapsNext == Overlaps /\ Raised /\ StatusFollows /\ [Next]_vars => Overlaps'
<1> SUFFICES ASSUME Overlaps, Raised, StatusFollows, [Next]_vars PROVE Overlaps'
  OBVIOUS
<1> USE DEF Overlaps, Raised, StatusFollows, Shielded, readerVars, writerVars, ghostVars,
      ReaderEnters
<1>1. CASE ReaderStep
  BY <1>1
  DEF ReaderStep, SessionStep, Accept, AcceptConn, AcceptFails, TlsOpenOk, TlsOpenFails,
      HandshakeReturns,
      Publish, ClearErr, InitPoll, Recv, PollInput, PollNothing, TlsReadReturns, SetErr,
      LowerRead, ReturnData, ReturnAgain, ReturnZero, ReturnAlert, ReturnError,
      CloseNotifyReturns, Disconnect, CloseFd, TlsCloseReturns
<1>2. CASE WriterStep
  BY <1>2
  DEF WriterStep, SendTestsError, Dequeue, SendTestsStatus, TestBeforeSpin, TestAfterSpin,
      SpinEnds, RaiseWrite,
      CallTlsWrite, Encrypt, Transmit, TlsWriteFails, LowerWrite
<1>3. CASE PeerSends
  BY <1>3 DEF PeerSends
<1>4. CASE UNCHANGED vars
  BY <1>4 DEF vars
<1> QED BY <1>1, <1>2, <1>3, <1>4 DEF Next

\* The reader records a final failure before it can serve another connection.
LEMMA FailureReader == FailureStays /\ TypeOK /\ ReaderStep => FailureStays'
<1> SUFFICES ASSUME FailureStays, TypeOK, ReaderStep PROVE FailureStays'
  OBVIOUS
<1> USE DEF FailureStays, TypeOK, ThreadTypes, WorldTypes, FailureTypes, FinalFailures,
            Failures, kernelVars, readerVars, ghostVars
<1>1. CASE AcceptConn
  BY <1>1 DEF AcceptConn
<1>2. CASE TlsReadReturns
  BY <1>2 DEF TlsReadReturns
<1>3. CASE SetErr
  BY <1>3 DEF SetErr
<1>4. CASE Accept \/ AcceptFails \/ TlsOpenOk \/ TlsOpenFails \/ HandshakeReturns
           \/ Publish \/ ClearErr
  BY <1>4 DEF Accept, AcceptFails, TlsOpenOk, TlsOpenFails, HandshakeReturns, Publish,
              ClearErr
<1>5. CASE InitPoll \/ Recv \/ PollInput \/ PollNothing
  BY <1>5 DEF InitPoll, Recv, PollInput, PollNothing
<1>6. CASE ReturnData \/ ReturnAgain \/ ReturnZero \/ ReturnAlert \/ ReturnError
  BY <1>6 DEF LowerRead, ReturnData, ReturnAgain, ReturnZero, ReturnAlert, ReturnError
<1>7. CASE CloseNotifyReturns \/ Disconnect \/ CloseFd \/ TlsCloseReturns
  BY <1>7 DEF CloseNotifyReturns, Disconnect, CloseFd, TlsCloseReturns
<1> QED BY <1>1, <1>2, <1>3, <1>4, <1>5, <1>6, <1>7 DEF ReaderStep, SessionStep

\* The error and the failures are the reader's alone.
LEMMA OthersKeepErrors == Others => UNCHANGED <<failed, readErr, rres>>
  BY DEF Others, vars, readerVars, kernelVars, ghostVars, PeerSends, WriterStep, Dequeue,
       SendTestsStatus, SendTestsError, TestBeforeSpin, TestAfterSpin, SpinEnds,
       RaiseWrite, CallTlsWrite, Encrypt, Transmit, TlsWriteFails, LowerWrite

\* Any step keeps a final failure recorded.
LEMMA FailureNext == FailureStays /\ TypeOK /\ [Next]_vars => FailureStays'
  BY FailureReader, EitherThread, WriterKeeps, OthersKeepErrors DEF FailureStays

\* The reader leaves the descriptors of connections it is done with alone.
LEMMA NewestFdReader == NewestFd /\ TypeOK /\ HoldsNewest /\ ReaderStep => NewestFd'
<1> SUFFICES ASSUME NewestFd, TypeOK, HoldsNewest, ReaderStep PROVE NewestFd'
  OBVIOUS
<1>0. UNCHANGED <<wpc, wfd>>
  BY ReaderCases
<1> USE <1>0 DEF NewestFd, TypeOK, ThreadTypes, WorldTypes, WriterInKse, Fds
<1>1. CASE AcceptConn
  BY <1>1 DEF AcceptConn
<1>2. CASE AcceptFails
  BY <1>2 DEF AcceptFails, kernelVars
<1>3. CASE CloseFd
  BY <1>3 DEF CloseFd
<1>4. CASE UNCHANGED <<fd, fdTable, accepted>>
  BY <1>4
<1>5. AcceptConn \/ AcceptFails \/ CloseFd \/ UNCHANGED <<fd, fdTable, accepted>>
  BY DEF ReaderStep, SessionStep, kernelVars, Accept, TlsOpenOk, TlsOpenFails,
      HandshakeReturns, Publish, ClearErr, InitPoll, Recv, PollInput, PollNothing,
      TlsReadReturns, SetErr, LowerRead, ReturnData, ReturnAgain, ReturnZero, ReturnAlert,
      ReturnError, CloseNotifyReturns, Disconnect, TlsCloseReturns
<1> QED BY <1>1, <1>2, <1>3, <1>4, <1>5

\* A writer calls the library with the descriptor of a connection.
LEMMA NewestFdWriter == NewestFd /\ TypeOK /\ Keys /\ Others => NewestFd'
<1> SUFFICES ASSUME NewestFd, TypeOK, Keys, Others PROVE NewestFd'
  OBVIOUS
<1>0. UNCHANGED <<fd, fdTable, accepted>>
  BY WriterKeeps
<1> USE <1>0 DEF NewestFd, TypeOK, ThreadTypes, WriterInKse, WriterCalls
<1>1. CASE Dequeue
  BY <1>1 DEF Dequeue, Keys
<1>2. CASE CallTlsWrite
  BY <1>2 DEF CallTlsWrite, Fds
<1>3. CASE SendTestsStatus \/ TestBeforeSpin \/ TestAfterSpin \/ SpinEnds
  BY <1>3 DEF SendTestsStatus, TestBeforeSpin, TestAfterSpin, SendTestsError,
              SpinEnds
<1>4. CASE RaiseWrite \/ Encrypt \/ Transmit \/ TlsWriteFails \/ LowerWrite
  BY <1>4 DEF RaiseWrite, Encrypt, Transmit, TlsWriteFails, LowerWrite
<1>5. CASE PeerSends \/ UNCHANGED vars
  BY <1>5 DEF PeerSends, vars, writerVars
<1> QED BY <1>1, <1>2, <1>3, <1>4, <1>5 DEF Others, WriterStep

\* Both threads keep the descriptors apart.
LEMMA NewestFdNext == NewestFd /\ TypeOK /\ HoldsNewest /\ Keys /\ [Next]_vars => NewestFd'
  BY NewestFdReader, NewestFdWriter, EitherThread

\* The reader cannot make an older connection of the writer's the failed one.
LEMMA SpunReader ==
  SpunOlder /\ FailureStays /\ NewestFd /\ TypeOK /\ ReaderStep => SpunOlder'
<1> SUFFICES ASSUME SpunOlder, FailureStays, NewestFd, TypeOK, ReaderStep PROVE SpunOlder'
  OBVIOUS
<1>0. UNCHANGED <<wpc, wfd, spunErr>>
  BY ReaderCases
     DEF ReaderStep, SessionStep, ghostVars, Accept, AcceptConn, AcceptFails, TlsOpenOk,
      TlsOpenFails, HandshakeReturns, Publish, ClearErr, InitPoll, Recv, PollInput,
      PollNothing, TlsReadReturns, SetErr, LowerRead, ReturnData, ReturnAgain, ReturnZero,
      ReturnAlert, ReturnError, CloseNotifyReturns, Disconnect, CloseFd, TlsCloseReturns
<1> USE <1>0 DEF SpunOlder, TypeOK, ThreadTypes, WorldTypes, FailureTypes, WriterInKse, Fds
<1>1. CASE AcceptConn
  BY <1>1 DEF AcceptConn, FailureStays
<1>2. CASE CloseFd
  BY <1>2 DEF CloseFd, NewestFd, WriterInKse, kernelVars
<1>3. CASE TlsReadReturns
  BY <1>3 DEF TlsReadReturns, FailureStays, kernelVars
<1>4. CASE UNCHANGED <<fdTable, accepted, failed>> /\ rpc' # "setErr"
  BY <1>4
<1>5. CASE Accept \/ AcceptFails \/ TlsOpenOk \/ TlsOpenFails \/ HandshakeReturns
           \/ Publish \/ ClearErr
  BY <1>4, <1>5 DEF kernelVars, ghostVars, Accept, AcceptFails, TlsOpenOk, TlsOpenFails,
                    HandshakeReturns, Publish, ClearErr
<1>6. CASE InitPoll \/ Recv \/ PollInput \/ PollNothing \/ SetErr
  BY <1>4, <1>6 DEF kernelVars, ghostVars, InitPoll, Recv, PollInput, PollNothing, SetErr
<1>7. CASE ReturnData \/ ReturnAgain \/ ReturnZero \/ ReturnAlert \/ ReturnError
  BY <1>4, <1>7 DEF kernelVars, LowerRead, ReturnData, ReturnAgain, ReturnZero, ReturnAlert,
                    ReturnError
<1>8. CASE CloseNotifyReturns \/ Disconnect \/ TlsCloseReturns
  BY <1>4, <1>8 DEF kernelVars, ghostVars, CloseNotifyReturns, Disconnect, TlsCloseReturns
<1> QED BY <1>1, <1>2, <1>3, <1>5, <1>6, <1>7, <1>8 DEF ReaderStep, SessionStep

\* The writer's second test stops it unless accept has cleared the error.
LEMMA SpunWriter ==
  SpunOlder /\ FailureStays /\ NewestFd /\ Raised /\ TypeOK /\ Others => SpunOlder'
<1> SUFFICES ASSUME SpunOlder, FailureStays, NewestFd, Raised, TypeOK, Others
             PROVE SpunOlder'
  OBVIOUS
<1>0. UNCHANGED <<rpc, fd, fdTable, accepted, failed, readErr>>
  BY WriterKeeps, OthersKeepErrors
<1> USE <1>0 DEF SpunOlder, TypeOK, ThreadTypes, WorldTypes, FailureTypes, WriterInKse,
                 WriterCalls
<1>1. CASE SpinEnds
  BY <1>1 DEF SpinEnds, Raised
<1>2. CASE TestAfterSpin
  BY <1>2 DEF TestAfterSpin, SendTestsError, FailureStays, ghostVars
<1>3. CASE CallTlsWrite
  BY <1>3 DEF CallTlsWrite, NewestFd, Fds
<1>4. CASE Dequeue \/ SendTestsStatus \/ TestBeforeSpin \/ RaiseWrite
  BY <1>4 DEF Dequeue, SendTestsStatus, TestBeforeSpin, SendTestsError,
              RaiseWrite, ghostVars
<1>5. CASE Encrypt \/ Transmit \/ TlsWriteFails
  BY <1>5 DEF Encrypt, Transmit, TlsWriteFails, ghostVars
<1>6. CASE LowerWrite
  BY <1>6 DEF LowerWrite
<1>7. CASE PeerSends \/ UNCHANGED vars
  BY <1>7 DEF PeerSends, vars, writerVars, ghostVars
<1> QED BY <1>1, <1>2, <1>3, <1>4, <1>5, <1>6, <1>7 DEF Others, WriterStep

\* The error part is preserved.
LEMMA ErrorNext ==
  ErrorStays /\ TypeOK /\ Raised /\ HoldsNewest /\ Keys /\ [Next]_vars => ErrorStays'
  BY FailureNext, NewestFdNext, SpunReader, SpunWriter, EitherThread DEF ErrorStays

\* The reader keeps one descriptor to a connection.
LEMMA DescriptorsReader == Descriptors /\ TypeOK /\ HoldsNewest /\ ReaderStep => Descriptors'
<1> SUFFICES ASSUME Descriptors, TypeOK, HoldsNewest, ReaderStep PROVE Descriptors'
  OBVIOUS
<1> USE DEF Descriptors, HoldsNewest, TypeOK, ThreadTypes, WorldTypes, kernelVars, Served,
      InSession, ghostVars
<1>1. UNCHANGED <<wpc, wfd, wrec, strays>>
  BY ReaderCases
<1>2. CASE Accept BY <1>1, <1>2 DEF Accept
<1>3. CASE AcceptConn
  <2>1. PICK f \in Fds : fdTable[f] = 0 /\ fdTable' = [fdTable EXCEPT ![f] = accepted + 1]
    BY <1>3 DEF AcceptConn
  <2>2. accepted' = accepted + 1 /\ rpc' = "tlsOpen" /\ ended' = ended /\ accepted < MaxConns
    BY <1>3 DEF AcceptConn
  <2>3. accepted + 1 \in Conns
    BY <2>2, DimServerAssumption DEF Conns
  <2>4. \A g \in Fds : fdTable'[g] = IF g = f THEN accepted + 1 ELSE fdTable[g]
    BY <2>1
  <2>5. \A g \in Fds : fdTable[g] \in Int /\ fdTable[g] <= accepted /\ accepted \in Int
    OBVIOUS
  <2>7. ASSUME NEW g \in Fds PROVE fdTable'[g] <= accepted'
    <3>1. fdTable'[g] \in {accepted + 1, fdTable[g]}
      BY <2>4
    <3> QED BY <2>2, <2>5, <3>1
  <2>8. ASSUME NEW g \in Fds, NEW h \in Fds, fdTable'[g] = fdTable'[h], fdTable'[g] # 0
        PROVE  g = h
    <3>1. fdTable[g] # accepted + 1 /\ fdTable[h] # accepted + 1
      BY <2>5
    <3>2. g = f <=> h = f
      BY <2>4, <2>8, <3>1
    <3>3. g # f /\ h # f => fdTable[g] = fdTable[h] /\ fdTable[g] # 0
      BY <2>4, <2>8
    <3> QED BY <3>2, <3>3
  <2>6. \A c \in Conns : c > accepted' => ended'[c] = "open"
    BY <2>2 DEF Conns
  <2> QED BY <2>2, <2>3, <2>6, <2>7, <2>8
<1>4. CASE AcceptFails BY <1>1, <1>4 DEF AcceptFails
<1>5. CASE TlsOpenOk BY <1>1, <1>5 DEF TlsOpenOk
<1>6. CASE TlsOpenFails BY <1>1, <1>6 DEF TlsOpenFails
<1>7. CASE HandshakeReturns BY <1>1, <1>7 DEF HandshakeReturns
<1>8. CASE Publish BY <1>1, <1>8 DEF Publish
<1>9. CASE ClearErr BY <1>1, <1>9 DEF ClearErr
<1>10. CASE ReturnError BY <1>1, <1>10 DEF ReturnError, LowerRead
<1>11. CASE Disconnect BY <1>1, <1>11 DEF Disconnect
<1>12. CASE CloseFd BY <1>1, <1>12 DEF CloseFd
<1>13. CASE TlsCloseReturns BY <1>1, <1>13 DEF TlsCloseReturns
<1>14. CASE ReadsOn BY <1>1, <1>14 DEF ReadsOn
<1> QED BY ReaderCases, <1>2, <1>3, <1>4, <1>5, <1>6, <1>7, <1>8, <1>9, <1>10, <1>11, <1>12,
      <1>13, <1>14

\* Only the reader opens and closes descriptors.
LEMMA DescriptorsNext == Descriptors /\ TypeOK /\ HoldsNewest /\ [Next]_vars => Descriptors'
  BY DescriptorsReader, EitherThread, WriterKeeps DEF Descriptors

\* The reader loses a descriptor only by a refusal or a read error.
LEMMA LeaksReader ==
  LeaksAreErrors /\ Descriptors /\ TypeOK /\ HoldsNewest /\ ReaderStep => LeaksAreErrors'
<1> SUFFICES ASSUME LeaksAreErrors, Descriptors, TypeOK, HoldsNewest, ReaderStep
             PROVE  LeaksAreErrors'
  OBVIOUS
<1> USE DEF LeaksAreErrors, Descriptors, TypeOK, ThreadTypes, WorldTypes, HoldsNewest,
            Served, InSession, kernelVars, ghostVars, Conns
<1>1. CASE AcceptConn
  <2>1. PICK f \in Fds : fdTable[f] = 0 /\ fdTable' = [fdTable EXCEPT ![f] = accepted + 1]
    BY <1>1 DEF AcceptConn
  <2>2. accepted' = accepted + 1 /\ ended' = ended /\ rpc = "listen" /\ accepted < MaxConns
    BY <1>1 DEF AcceptConn
  <2>3. accepted \in Nat
    BY DimServerAssumption
  <2>4. ASSUME NEW c \in 1 .. accepted + 1
        PROVE  /\ (\E g \in Fds : fdTable'[g] = c) <=> ended[c] # "closed"
               /\ c < accepted + 1 => ended[c] # "open"
    <3>1. CASE c = accepted + 1
      <4>1. ended[c] = "open" /\ fdTable'[f] = c
        BY <2>1, <2>2, <2>3, <3>1, DimServerAssumption
      <4> QED BY <4>1, <3>1, <2>3
    <3>2. CASE c \in 1 .. accepted
      <4>1. (\E g \in Fds : fdTable'[g] = c) <=> (\E g \in Fds : fdTable[g] = c)
        BY <2>1, <2>3, <3>2
      <4>2. ended[c] # "open"
        BY <2>2, <2>3, <3>2
      <4> QED BY <4>1, <4>2, <3>2
    <3> QED BY <3>1, <3>2, <2>3
  <2> QED BY <2>2, <2>4
<1>2. CASE CloseFd
  <2>1. /\ fdTable' = [fdTable EXCEPT ![fd] = 0]
        /\ ended' = [ended EXCEPT ![accepted] = "closed"]
        /\ accepted' = accepted /\ rpc = "closeFd"
    BY <1>2 DEF CloseFd
  <2>2. fd \in Fds /\ fdTable[fd] = accepted /\ accepted \in Conns
    BY <2>1
  <2>3. \A c \in 1 .. accepted : (\E g \in Fds : fdTable'[g] = c)
                                   <=> (c # accepted /\ \E g \in Fds : fdTable[g] = c)
    BY <2>1, <2>2
  <2> QED BY <2>1, <2>2, <2>3
<1>3. CASE TlsOpenFails \/ ClearErr \/ ReturnError
  <2>1. accepted \in Conns /\ ended[accepted] = "open"
    BY <1>3 DEF TlsOpenFails, ClearErr, ReturnError, LowerRead
  <2>2. UNCHANGED <<fdTable, accepted>>
    BY <1>3 DEF TlsOpenFails, ClearErr, ReturnError, LowerRead
  <2>3. \E e \in {"open", "refused", "readError"} : ended' = [ended EXCEPT ![accepted] = e]
    <3>1. CASE ended' = ended
      <4>1. ended = [ended EXCEPT ![accepted] = "open"]
        BY <2>1
      <4> QED BY <3>1, <4>1
    <3>2. CASE ended' # ended
      BY <1>3, <3>2 DEF TlsOpenFails, ClearErr, ReturnError, LowerRead
    <3> QED BY <3>1, <3>2
  <2> QED BY <2>1, <2>2, <2>3
<1>4. CASE Accept \/ AcceptFails \/ TlsOpenOk \/ HandshakeReturns \/ Publish
           \/ Disconnect \/ TlsCloseReturns \/ ReadsOn
  <2>1. UNCHANGED <<fdTable, accepted, ended>>
    BY <1>4 DEF Accept, AcceptFails, TlsOpenOk, HandshakeReturns, Publish,
                Disconnect, TlsCloseReturns, ReadsOn
  <2> QED BY <2>1
<1> QED BY ReaderCases, <1>1, <1>2, <1>3, <1>4

\* Nobody else loses a descriptor.
LEMMA LeaksNext ==
  LeaksAreErrors /\ Descriptors /\ TypeOK /\ HoldsNewest /\ [Next]_vars => LeaksAreErrors'
  BY LeaksReader, EitherThread, WriterKeeps DEF LeaksAreErrors

\* The reader keeps the device's keys with their connection.
LEMMA KeysReader == Keys /\ TypeOK /\ HoldsNewest /\ StatusFollows /\ Descriptors
      /\ ReaderStep => Keys'
<1> SUFFICES ASSUME Keys, TypeOK, HoldsNewest, StatusFollows, Descriptors, ReaderStep
      PROVE Keys'
  OBVIOUS
<1> USE DEF Keys, Descriptors, HoldsNewest, StatusFollows, ghostVars, TypeOK, ThreadTypes,
      WorldTypes, kernelVars, Served, InSession
<1>1. UNCHANGED <<wpc, wfd, wrec, strays>>
  BY ReaderCases
<1>2. CASE Accept BY <1>1, <1>2 DEF Accept
<1>3. CASE AcceptConn
  <2>1. PICK f \in Fds : /\ fd' = f /\ fdTable[f] = 0
                         /\ fdTable' = [fdTable EXCEPT ![f] = accepted + 1]
    BY <1>3 DEF AcceptConn
  <2>2. /\ rpc = "listen" /\ rpc' = "tlsOpen" /\ accepted' = accepted + 1
        /\ UNCHANGED <<tls, ended, connStatus>>
    BY <1>3 DEF AcceptConn
  <2>3. connStatus' = "DISCONNECTED"
    BY <2>2
  <2>4. ASSUME NEW g \in Fds, tls[g] # 0
        PROVE  tls[g] <= accepted /\ (fdTable'[g] = tls[g] \/ ended[tls[g]] = "closed")
    BY <2>1, <2>4
  <2>5. \A g \in Fds : tls'[g] # accepted'
    <3>1. accepted \in Nat /\ accepted' # 0
      BY <2>2
    <3>2. ASSUME NEW g \in Fds, tls[g] # 0 PROVE tls[g] # accepted'
      BY <2>2, <2>4, <3>1, <3>2
    <3> QED BY <2>2, <3>1, <3>2
  <2>6. \A g \in Fds : tls'[g] # 0 =>
          tls'[g] <= accepted' /\ (fdTable'[g] = tls'[g] \/ ended'[tls'[g]] = "closed")
    BY <2>2, <2>4
  <2>7. \A g, k \in Fds : tls'[g] = tls'[k] /\ tls'[g] # 0 => g = k
    BY <2>2
  <2> QED BY <2>2, <2>3, <2>5, <2>6, <2>7
<1>4. CASE AcceptFails BY <1>1, <1>4 DEF AcceptFails
<1>5. CASE TlsOpenOk BY <1>1, <1>5 DEF TlsOpenOk
<1>6. CASE TlsOpenFails BY <1>1, <1>6 DEF TlsOpenFails
<1>7. CASE HandshakeReturns BY <1>1, <1>7 DEF HandshakeReturns
<1>8. CASE Publish BY <1>1, <1>8 DEF Publish
<1>9. CASE ClearErr
  <2>1. accepted \in Conns /\ ended[accepted] = "open"
    BY <1>9 DEF ClearErr
  <2>2. /\ ended' \in {ended, [ended EXCEPT ![accepted] = "refused"]}
        /\ rpc' \in {"accept", "initPoll"} /\ rpc = "clearErr"
        /\ UNCHANGED <<tls, fd, fdTable, accepted, connStatus>>
    BY <1>9 DEF ClearErr
  <2>3. \A c \in Conns : ended[c] = "closed" => ended'[c] = "closed"
    BY <2>1, <2>2
  <2>4. UNCHANGED <<tls, fd, fdTable, accepted, connStatus>> /\ rpc = "clearErr"
        /\ rpc' \in {"accept", "initPoll"}
    BY <2>2
  <2> QED BY <1>1, <2>3, <2>4 DEF Conns
<1>10. CASE ReturnError BY <1>1, <1>10 DEF ReturnError, LowerRead
<1>11. CASE Disconnect BY <1>1, <1>11 DEF Disconnect
<1>12. CASE CloseFd BY <1>1, <1>12 DEF CloseFd
<1>13. CASE TlsCloseReturns
  <2>1. /\ \A f \in Fds : tls'[f] \in {0, tls[f]}
        /\ rpc = "tlsClose" /\ rpc' = "accept"
        /\ UNCHANGED <<fd, fdTable, accepted, connStatus, ended>>
    BY <1>13 DEF TlsCloseReturns
  <2> QED BY <1>1, <2>1
<1>14. CASE ReadsOn BY <1>1, <1>14 DEF ReadsOn
<1> QED BY ReaderCases, <1>2, <1>3, <1>4, <1>5, <1>6, <1>7, <1>8, <1>9, <1>10, <1>11, <1>12,
      <1>13, <1>14

\* Nobody else touches the device's keys.
LEMMA KeysNext ==
  Keys /\ TypeOK /\ HoldsNewest /\ StatusFollows /\ Descriptors /\ [Next]_vars => Keys'
  BY KeysReader, EitherThread, WriterKeeps DEF Keys

\* What the reader does to a descriptor keeps a sealed record accounted for.
LEMMA RecordsReader == Records /\ TypeOK /\ HoldsNewest /\ Keys /\ Descriptors /\ Strayed
      /\ ReaderStep => Records'
<1> SUFFICES ASSUME Records, TypeOK, HoldsNewest, Keys, Descriptors, Strayed,
      ReaderStep PROVE Records'
  OBVIOUS
<1> USE DEF Records, Keys, Strayed, Descriptors, HoldsNewest, ghostVars, TypeOK, ThreadTypes,
      WorldTypes, kernelVars, Served, InSession
<1>1. UNCHANGED <<wpc, wfd, wrec, strays>>
  BY ReaderCases
<1>2. CASE Accept BY <1>1, <1>2 DEF Accept
<1>3. CASE AcceptConn BY <1>1, <1>3 DEF AcceptConn
<1>4. CASE AcceptFails BY <1>1, <1>4 DEF AcceptFails
<1>5. CASE TlsOpenOk BY <1>1, <1>5 DEF TlsOpenOk
<1>6. CASE TlsOpenFails BY <1>1, <1>6 DEF TlsOpenFails
<1>7. CASE HandshakeReturns BY <1>1, <1>7 DEF HandshakeReturns
<1>8. CASE Publish BY <1>1, <1>8 DEF Publish
<1>9. CASE ClearErr
  <2>1. accepted \in Conns /\ ended[accepted] = "open"
    BY <1>9 DEF ClearErr
  <2>2. /\ ended' \in {ended, [ended EXCEPT ![accepted] = "refused"]}
        /\ rpc' \in {"accept", "initPoll"} /\ rpc = "clearErr"
        /\ UNCHANGED <<tls, fd, fdTable, accepted, connStatus>>
    BY <1>9 DEF ClearErr
  <2>3. \A c \in Conns : ended[c] = "closed" => ended'[c] = "closed"
    BY <2>1, <2>2
  <2>4. UNCHANGED <<tls, fd, fdTable, accepted, connStatus>> /\ rpc = "clearErr"
        /\ rpc' \in {"accept", "initPoll"}
    BY <2>2
  <2> QED BY <1>1, <2>3, <2>4 DEF Conns
<1>10. CASE ReturnError BY <1>1, <1>10 DEF ReturnError, LowerRead
<1>11. CASE Disconnect BY <1>1, <1>11 DEF Disconnect
<1>12. CASE CloseFd BY <1>1, <1>12 DEF CloseFd
<1>13. CASE TlsCloseReturns
  <2>1. /\ \A f \in Fds : tls'[f] \in {0, tls[f]}
        /\ rpc = "tlsClose" /\ rpc' = "accept"
        /\ UNCHANGED <<fd, fdTable, accepted, connStatus, ended>>
    BY <1>13 DEF TlsCloseReturns
  <2> QED BY <1>1, <2>1
<1>14. CASE ReadsOn BY <1>1, <1>14 DEF ReadsOn
<1> QED BY ReaderCases, <1>2, <1>3, <1>4, <1>5, <1>6, <1>7, <1>8, <1>9, <1>10, <1>11, <1>12,
      <1>13, <1>14

\* The writer seals with keys whose session has lost nothing yet.
LEMMA RecordsOthers ==
  TypeOK /\ Records /\ Keys /\ Strayed /\ Descriptors /\ Others => Records'
<1> SUFFICES ASSUME TypeOK, Records, Keys, Strayed, Descriptors, Others
             PROVE Records'
  OBVIOUS
<1> USE DEF TypeOK, ThreadTypes, WorldTypes, Records
<1>1. UNCHANGED <<rpc, fd, pollFd, connStatus, fdTable, accepted, tls, ended>>
  BY WriterKeeps
<1>2. CASE CallTlsWrite
  BY <1>1, <1>2 DEF CallTlsWrite, Strayed, Conns
<1>3. CASE Encrypt
  BY <1>1, <1>3 DEF Encrypt, Keys, ghostVars
<1>4. CASE Transmit
  BY <1>1, <1>4 DEF Transmit
<1>5. CASE LowerWrite
  BY <1>1, <1>5 DEF LowerWrite
<1>6. CASE Dequeue \/ SendTestsStatus \/ TestBeforeSpin \/ TestAfterSpin \/ SpinEnds
      \/ RaiseWrite \/ TlsWriteFails
  BY <1>1, <1>6 DEF Dequeue, SendTestsStatus, SendTestsError, TestBeforeSpin, TestAfterSpin,
     SpinEnds, RaiseWrite, TlsWriteFails, ghostVars
<1>7. CASE PeerSends \/ UNCHANGED vars
  BY <1>1, <1>7 DEF PeerSends, vars, writerVars, ghostVars
<1> QED BY <1>2, <1>3, <1>4, <1>5, <1>6, <1>7 DEF Others, WriterStep

\* Records is preserved by every step.
LEMMA RecordsNext ==
  Records /\ TypeOK /\ HoldsNewest /\ Keys /\ Descriptors /\ Strayed /\ [Next]_vars
      => Records'
  BY RecordsReader, RecordsOthers, EitherThread

\* The reader never republishes keys of a session that lost a record.
LEMMA StrayedReader == Strayed /\ TypeOK /\ HoldsNewest /\ Keys /\ Descriptors
      /\ StatusFollows /\ Records /\ ReaderStep => Strayed'
<1> SUFFICES ASSUME Strayed, TypeOK, HoldsNewest, Keys, Descriptors, StatusFollows, Records,
      ReaderStep PROVE Strayed'
  OBVIOUS
<1> USE DEF Records, Keys, Strayed, Descriptors, HoldsNewest, StatusFollows, ghostVars,
      TypeOK, ThreadTypes, WorldTypes, kernelVars, Served, InSession
<1>1. UNCHANGED <<wpc, wfd, wrec, strays>>
  BY ReaderCases
<1>2. CASE Accept BY <1>1, <1>2 DEF Accept
<1>3. CASE AcceptConn BY <1>1, <1>3 DEF AcceptConn
<1>4. CASE AcceptFails
  <2>1. fd' \notin Fds /\ UNCHANGED <<fdTable, ended, tls>>
    BY <1>4 DEF AcceptFails, Fds
  <2> QED BY <1>1, <2>1
<1>5. CASE TlsOpenOk
  <2>1. /\ tls'[fd] = 0 /\ \A f \in Fds : tls'[f] \in {0, tls[f]}
        /\ UNCHANGED <<fd, fdTable, connStatus, ended>>
    BY <1>5 DEF TlsOpenOk
  <2> QED BY <1>1, <2>1 DEF Conns
<1>6. CASE TlsOpenFails BY <1>1, <1>6 DEF TlsOpenFails
<1>7. CASE HandshakeReturns BY <1>1, <1>7 DEF HandshakeReturns
<1>8. CASE Publish BY <1>1, <1>8 DEF Publish
<1>9. CASE ClearErr BY <1>1, <1>9 DEF ClearErr
<1>10. CASE ReturnError BY <1>1, <1>10 DEF ReturnError, LowerRead
<1>11. CASE Disconnect BY <1>1, <1>11 DEF Disconnect
<1>12. CASE CloseFd BY <1>1, <1>12 DEF CloseFd
<1>13. CASE TlsCloseReturns
  <2>1. /\ \A f \in Fds : tls'[f] \in {0, tls[f]}
        /\ rpc = "tlsClose" /\ rpc' = "accept"
        /\ UNCHANGED <<fd, fdTable, accepted, connStatus, ended>>
    BY <1>13 DEF TlsCloseReturns
  <2> QED BY <1>1, <2>1 DEF Conns
<1>14. CASE ReadsOn BY <1>1, <1>14 DEF ReadsOn
<1> QED BY ReaderCases, <1>2, <1>3, <1>4, <1>5, <1>6, <1>7, <1>8, <1>9, <1>10, <1>11, <1>12,
      <1>13, <1>14

\* A record strays at most once from each session.
LEMMA StrayedOthers ==
  TypeOK /\ Records /\ Keys /\ Strayed /\ Descriptors /\ HoldsNewest /\ Others => Strayed'
<1> SUFFICES ASSUME TypeOK, Records, Keys, Strayed, Descriptors, HoldsNewest, Others
             PROVE Strayed'
  OBVIOUS
<1> USE DEF TypeOK, ThreadTypes, WorldTypes, Strayed
<1>1. UNCHANGED <<rpc, fd, pollFd, connStatus, fdTable, accepted, tls, ended>>
  BY WriterKeeps
<1>2. CASE CallTlsWrite
  BY <1>1, <1>2 DEF CallTlsWrite
<1>3. CASE Encrypt
  BY <1>1, <1>3 DEF Encrypt, ghostVars
<1>4. CASE Transmit
  <2>1. /\ wpc = "transmit" /\ wpc' = "lower"
        /\ wfd \in Fds /\ fdTable[wfd] # 0 /\ wrec \in 0 .. MaxConns
        /\ strays' = IF wrec \in {0, fdTable[wfd]} THEN strays
                     ELSE [strays EXCEPT ![wrec] = strays[wrec] + 1]
    BY <1>4 DEF Transmit, Records
  <2>2. CASE wrec \in {0, fdTable[wfd]}
    BY <1>1, <2>1, <2>2
  <2>3. CASE wrec \notin {0, fdTable[wfd]}
    <3>1. /\ ended[wrec] = "closed" /\ strays[wrec] = 0 /\ wrec \in Conns
          /\ \A f \in Fds : tls[f] = wrec => f = wfd
      BY <2>1, <2>3 DEF Records, Conns
    <3>2. ASSUME tls[fd] = wrec, fd = wfd
          PROVE  connStatus = "DISCONNECTED" /\ rpc \in {"tlsOpen", "accept", "listen"}
      <4>1. ~(rpc \in {"publish"} \cup Served \/ connStatus = "CONNECTED")
        BY <2>1, <2>3, <3>2 DEF Keys
      <4>2. rpc # "handshake" /\ rpc # "tlsClose"
        BY <2>1, <2>3, <3>2 DEF Keys, HoldsNewest
      <4> QED BY <4>1, <4>2 DEF ReaderPcs, ReaderCalls, Served, InSession
    <3>3. \A c \in Conns : strays'[c] = IF c = wrec THEN 1 ELSE strays[c]
      BY <2>1, <2>3, <3>1
    <3> QED BY <1>1, <2>1, <2>3, <3>1, <3>2, <3>3
  <2> QED BY <2>2, <2>3
<1>5. CASE LowerWrite
  BY <1>1, <1>5 DEF LowerWrite
<1>6. CASE Dequeue \/ SendTestsStatus \/ TestBeforeSpin \/ TestAfterSpin \/ SpinEnds
      \/ RaiseWrite \/ TlsWriteFails
  <2>1. CASE Dequeue \/ SendTestsStatus
    BY <1>1, <2>1 DEF Dequeue, SendTestsStatus, ghostVars
  <2>2. CASE TestBeforeSpin \/ TestAfterSpin
    BY <1>1, <2>2 DEF TestBeforeSpin, TestAfterSpin, SendTestsError, ghostVars
  <2>3. CASE SpinEnds \/ RaiseWrite \/ TlsWriteFails
    BY <1>1, <2>3 DEF SpinEnds, RaiseWrite, TlsWriteFails, ghostVars, WriterInKse, WriterCalls
  <2> QED BY <1>6, <2>1, <2>2, <2>3
<1>7. CASE PeerSends \/ UNCHANGED vars
  BY <1>1, <1>7 DEF PeerSends, vars, writerVars, ghostVars
<1> QED BY <1>2, <1>3, <1>4, <1>5, <1>6, <1>7 DEF Others, WriterStep

\* Strayed is preserved by every step.
LEMMA StrayedNext ==
  Strayed /\ TypeOK /\ HoldsNewest /\ Keys /\ Descriptors /\ StatusFollows /\ Records
    /\ [Next]_vars => Strayed'
  BY StrayedReader, StrayedOthers, EitherThread

\* The invariant is inductive.
LEMMA InvNext == IInv /\ [Next]_vars => IInv'
  BY TypeNext, RaisedNext, StatusNext, NewestNext, OverlapsNext, ErrorNext,
     DescriptorsNext, LeaksNext, KeysNext, RecordsNext, StrayedNext
  DEF IInv, TypeOK

\* The invariant holds of every behaviour.
LEMMA Invariant == Spec => []IInv
  BY InvInit, InvNext, PTL DEF Spec

-----------------------------------------------------------------------------

(***************************************************************************)
(* The session loop serves the newest connection: its status, descriptor   *)
(* and pollfd agree until close() begins.                                  *)
(***************************************************************************)
THEOREM SessionTheorem == Spec => []ServesNewest
<1>1. IInv => ServesNewest
  BY DEF IInv, ServesNewest, StatusFollows, HoldsNewest, Served
<1> QED BY <1>1, Invariant, PTL

(***************************************************************************)
(* Exactly the connections ended by a failed open, a failed handshake or a *)
(* read error leak their descriptor.                                       *)
(***************************************************************************)
THEOREM LeakTheorem == Spec => []LeaksAreErrors
<1>1. IInv => LeaksAreErrors
  BY DEF IInv
<1> QED BY <1>1, Invariant, PTL

(***************************************************************************)
(* One writer at most meets a read, an open, a handshake or a close of the *)
(* device session: the flags and the status keep every later one out.      *)
(***************************************************************************)
THEOREM OverlapTheorem == Spec => []OverlapAtMostOne
<1>1. IInv => OverlapAtMostOne
  BY DEF IInv, Overlaps, OverlapAtMostOne
<1> QED BY <1>1, Invariant, PTL

(***************************************************************************)
(* A writer sends nothing to a connection whose read had failed for good   *)
(* when it left its spin.                                                  *)
(***************************************************************************)
THEOREM SpinTheorem == Spec => []SpinSeesError
<1>1. IInv => SpinSeesError
  BY DEF IInv, ErrorStays, SpunOlder, SpinSeesError
<1> QED BY <1>1, Invariant, PTL

(***************************************************************************)
(* A session loses at most one record to another connection, and only if   *)
(* close() ended it.                                                       *)
(***************************************************************************)
THEOREM StrayTheorem == Spec => []OneStrayAtMost
<1>1. IInv => OneStrayAtMost
  BY DEF IInv, Strayed, OneStrayAtMost
<1> QED BY <1>1, Invariant, PTL
=============================================================================
