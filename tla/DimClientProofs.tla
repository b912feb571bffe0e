-------------------------- MODULE DimClientProofs --------------------------
(***************************************************************************)
(* Theorems about the client's socket (DimClient), for every number of     *)
(* descriptors, every receive buffer and every queue.                      *)
(***************************************************************************)
EXTENDS DimClient, TLAPS

(***************************************************************************)
(* Type correctness.                                                       *)
(***************************************************************************)
LEMMA TypeInit == Init => TypeOK
<1> SUFFICES ASSUME Init PROVE TypeOK
  OBVIOUS
<1>1. starting \in BOOLEAN /\ keys \in BOOLEAN /\ readErr \in BOOLEAN
      /\ internal \in BOOLEAN /\ serverUp \in BOOLEAN
  BY Zenon DEF Init
<1>2. inbox \in Seq(Kinds) /\ queued \in 0 .. MaxQueue
  BY DimClientAssumption DEF Init
<1> QED
  BY <1>1, <1>2 DEF Init, TypeOK, Pcs

LEMMA ReadErrType == Read => readErr' \in BOOLEAN
  BY DEF Read

LEMMA TypeStep == TypeOK /\ [Next]_vars => TypeOK'
<1> SUFFICES ASSUME TypeOK, [Next]_vars PROVE TypeOK'
  OBVIOUS
<1> USE DimClientAssumption DEF TypeOK, Pcs, InLoop, Fds
<1>1. CASE SocketFails
  BY <1>1 DEF SocketFails, tlsVars, envVars
<1>2. CASE TcpConnect
  <2>1. /\ fd' \in Fds /\ pollFd' = pollFd /\ inbox' = <<>>
        /\ UNCHANGED <<connStatus, readErr, internal, queued, serverUp>>
    BY <1>2 DEF TcpConnect, NewSocket, envVars
  <2>2. pc' \in Pcs /\ open' \subseteq Fds /\ link' \in {"refused", "up"}
    BY <1>2, <2>1 DEF TcpConnect
  <2>3. keys' \in BOOLEAN /\ starting' \in BOOLEAN
    BY <1>2, Zenon DEF TcpConnect, NewSocket
  <2>4. inbox' \in Seq(Kinds)
    BY <2>1
  <2> QED
    BY <2>1, <2>2, <2>3, <2>4
<1>3. CASE TcpRefused
  <2>1. /\ fd' \in Fds /\ pollFd' = pollFd /\ inbox' = <<>>
        /\ UNCHANGED <<connStatus, readErr, internal, queued, serverUp>>
    BY <1>3 DEF TcpRefused, NewSocket, envVars
  <2>2. pc' \in Pcs /\ open' \subseteq Fds /\ link' \in {"refused", "up"}
    BY <1>3, <2>1 DEF TcpRefused
  <2>3. keys' \in BOOLEAN /\ starting' \in BOOLEAN
    BY <1>3, Zenon DEF TcpRefused, NewSocket
  <2>4. inbox' \in Seq(Kinds)
    BY <2>1
  <2> QED
    BY <2>1, <2>2, <2>3, <2>4
<1>4. CASE TlsOpen
  <2>1. UNCHANGED <<fd, pollFd, link, inbox, keys, connStatus, readErr, internal, queued, serverUp>>
    BY <1>4 DEF TlsOpen, tlsVars, envVars
  <2>2. pc' \in Pcs /\ starting' \in BOOLEAN /\ open' \subseteq Fds
    BY <1>4 DEF TlsOpen, ConnectReturns
  <2> QED
    BY <2>1, <2>2
<1>5. CASE Handshake
  <2>1. UNCHANGED <<fd, pollFd, link, inbox, queued, serverUp>>
    BY <1>5 DEF Handshake, envVars
  <2>2. pc' \in Pcs /\ starting' \in BOOLEAN /\ open' \subseteq Fds
    BY <1>5 DEF Handshake, ConnectReturns
  <2>3. /\ connStatus' \in {"CONNECTED", "DISCONNECTED"}
        /\ keys' \in BOOLEAN /\ readErr' \in BOOLEAN /\ internal' \in BOOLEAN
    BY <1>5, Zenon DEF Handshake, tlsVars
  <2> QED
    BY <2>1, <2>2, <2>3
<1>6. CASE InitPoll
  BY <1>6 DEF InitPoll, tlsVars, envVars
<1>7. CASE Poll
  BY <1>7 DEF Poll, socketVars, tlsVars, envVars
<1>8. CASE ReadUnconnected
  BY <1>8 DEF ReadUnconnected, socketVars, tlsVars, envVars
<1>9. CASE Read
  <2>1. inbox' \in Seq(Kinds)
    BY <1>9 DEF Read
  <2>2. UNCHANGED <<starting, socketVars, keys, connStatus, internal, envVars>> /\ pc' \in Pcs
    BY <1>9 DEF Read
  <2>3. readErr' \in BOOLEAN
    BY <1>9, ReadErrType
  <2> QED
    BY <2>1, <2>2, <2>3 DEF socketVars, envVars
<1>10. CASE ReadNothing
  BY <1>10 DEF ReadNothing, socketVars, tlsVars, envVars
<1>11. CASE Write
  BY <1>11 DEF Write, socketVars, tlsVars
<1>12. CASE Close
  BY <1>12 DEF Close, envVars
<1>13. CASE ServerSends
  BY <1>13 DEF ServerSends, socketVars, tlsVars, envVars
<1>14. CASE ServerCloses
  BY <1>14 DEF ServerCloses, tlsVars, envVars
<1>15. CASE ServerStartsOrStops
  BY <1>15 DEF ServerStartsOrStops, socketVars, tlsVars
<1>16. CASE GcsQueues
  BY <1>16 DEF GcsQueues, socketVars, tlsVars
<1>17. CASE UNCHANGED vars
  BY <1>17 DEF vars, socketVars, tlsVars, envVars
<1> QED
  BY <1>1, <1>2, <1>3, <1>4, <1>5, <1>6, <1>7, <1>8, <1>9, <1>10, <1>11, <1>12, <1>13,
     <1>14, <1>15, <1>16, <1>17 DEF Next, LoopStep

(***************************************************************************)
(* Every variable has its type, whatever the server does.                  *)
(***************************************************************************)
THEOREM TypeCorrect == Spec => []TypeOK
BY TypeInit, TypeStep, PTL DEF Spec

-----------------------------------------------------------------------------
(***************************************************************************)
(* What is known where the thread is.  The position, not the status, tells *)
(* that the old connection is gone: from the close to the end of the next  *)
(* handshake the client is DISCONNECTED, and while a handshake may still   *)
(* come the new socket is open.                                            *)
(***************************************************************************)
Connecting == {"connect", "tlsOpen", "handshake"}

SocketInv ==
  /\ OneSocket /\ ConnectedHasKeys
  /\ pc \in Connecting => connStatus = "DISCONNECTED"
  /\ pc \in {"tlsOpen", "handshake"} => fd \in open

LEMMA SocketInit == Init => SocketInv
  BY DEF Init, SocketInv, OneSocket, ConnectedHasKeys, Connecting

LEMMA SocketStep == SocketInv /\ [Next]_vars => SocketInv'
<1> SUFFICES ASSUME SocketInv, [Next]_vars PROVE SocketInv'
  OBVIOUS
<1> USE DEF SocketInv, OneSocket, ConnectedHasKeys, Connecting
<1>1. CASE SocketFails
  BY <1>1 DEF SocketFails, tlsVars
<1>2. CASE TcpConnect
  BY <1>2 DEF TcpConnect, NewSocket
<1>3. CASE TcpRefused
  BY <1>3 DEF TcpRefused, NewSocket
<1>4. CASE TlsOpen
  BY <1>4 DEF TlsOpen, ConnectReturns, tlsVars
<1>5. CASE Handshake
  <2>1. CASE ConnectReturns /\ UNCHANGED tlsVars
    BY <1>5, <2>1 DEF Handshake, ConnectReturns, tlsVars
  <2>2. CASE /\ \E r \in {"ok", "internal"} : keys' = (r = "ok") /\ internal' = (r = "internal")
             /\ connStatus' = "CONNECTED" /\ pc' = "initPoll" /\ UNCHANGED open
    <3>1. keys' \/ internal'
      BY <2>2, Zenon
    <3>2. fd' = fd /\ open' = open /\ pollFd' = pollFd /\ pc = "handshake"
      BY <1>5, <2>2 DEF Handshake
    <3> QED
      BY <2>2, <3>1, <3>2
  <2> QED
    BY <1>5, <2>1, <2>2 DEF Handshake
<1>6. CASE InitPoll
  BY <1>6 DEF InitPoll, tlsVars
<1>7. CASE Poll
  BY <1>7 DEF Poll, socketVars, tlsVars
<1>8. CASE ReadUnconnected
  BY <1>8 DEF ReadUnconnected, socketVars, tlsVars
<1>9. CASE Read
  BY <1>9 DEF Read, socketVars
<1>10. CASE ReadNothing
  BY <1>10 DEF ReadNothing, socketVars, tlsVars
<1>11. CASE Write
  BY <1>11 DEF Write, socketVars, tlsVars
<1>12. CASE Close
  BY <1>12 DEF Close
<1>13. CASE ServerSends
  BY <1>13 DEF ServerSends, socketVars, tlsVars
<1>14. CASE ServerCloses
  BY <1>14 DEF ServerCloses, tlsVars
<1>15. CASE ServerStartsOrStops
  BY <1>15 DEF ServerStartsOrStops, socketVars, tlsVars
<1>16. CASE GcsQueues
  BY <1>16 DEF GcsQueues, socketVars, tlsVars
<1>17. CASE UNCHANGED vars
  BY <1>17 DEF vars, socketVars, tlsVars
<1> QED
  BY <1>1, <1>2, <1>3, <1>4, <1>5, <1>6, <1>7, <1>8, <1>9, <1>10, <1>11, <1>12, <1>13,
     <1>14, <1>15, <1>16, <1>17 DEF Next, LoopStep

LEMMA SocketAlways == Spec => []SocketInv
BY SocketInit, SocketStep, PTL DEF Spec

(***************************************************************************)
(* The client never holds a descriptor but _fd, and none when it connects: *)
(* the paths of connect that leave a socket open leave it to the loop's    *)
(* close (dim_client.cpp 38-107, client.cpp 153-167).                      *)
(***************************************************************************)
THEOREM SocketTheorem == Spec => []OneSocket
<1>1. SocketInv => OneSocket
  BY DEF SocketInv
<1> QED
  BY <1>1, SocketAlways, PTL

(***************************************************************************)
(* CONNECTED means a socket that is open, and keys unless the handshake    *)
(* ended with a positive code of the device.                               *)
(***************************************************************************)
THEOREM KeysTheorem == Spec => []ConnectedHasKeys
<1>1. SocketInv => ConnectedHasKeys
  BY DEF SocketInv
<1> QED
  BY <1>1, SocketAlways, PTL
=============================================================================
