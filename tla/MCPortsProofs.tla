---------------------------- MODULE MCPortsProofs ----------------------------
(***************************************************************************)
(* Theorems about the components with a port to the outside (MCPorts): the *)
(* power of the device, the serial port and the UDP proxy.  A step of the  *)
(* whole is a step of one of them or leaves it alone, so each part below   *)
(* is about one component, and its theorems carry over.                    *)
(***************************************************************************)
EXTENDS MCPorts, Sequences, TLAPS

LEMMA Components == Spec => Power!Spec /\ Serial!Spec /\ Proxy!Spec
  <1>1. Init => Power!Init /\ Serial!Init /\ Proxy!Init
    BY DEF Init
  <1>2. [Next]_vars => [Power!Next]_(Power!vars)
    BY DEF Next, Moves, vars, powerVars, Power!vars, Power!procVars, Power!usbVars,
           Power!devVars, Power!countVars
  <1>3. [Next]_vars => [Serial!Next]_(Serial!vars)
    BY DEF Next, Moves, vars, serialVars, Serial!vars, Serial!portVars, Serial!readerVars,
           Serial!writerVars
  <1>4. [Next]_vars => [Proxy!Next]_(Proxy!vars)
    BY DEF Next, Moves, vars, proxyVars, Proxy!vars, Proxy!loopVars, Proxy!kernelVars,
           Proxy!senderVars, Proxy!countVars
  <1> QED BY <1>1, <1>2, <1>3, <1>4, PTL DEF Spec, Power!Spec, Serial!Spec, Proxy!Spec

-----------------------------------------------------------------------------
(* The power.  Where the process is (main) decides what handle, libusb and *)
(* gusKsePower are, also where its threads run without power, and from the *)
(* answer to POWER ON to the command POWER OFF the device is on.  What the *)
(* threads do leaves all of that alone, and no thread is in a transfer     *)
(* before the device is on.                                                *)

Places == {"none", "run", "unpowered"} \cup Power!Starting \cup Power!Exiting

HandleAt(place) ==
  CASE place \in {"none", "init", "unpowered", "exit"} -> "null"
    [] place = "claim" -> "open"
    [] place = "clear" -> "closed"
    [] OTHER -> "claimed"

Table ==
  /\ main \in Places /\ wpc \in [Workers -> {"idle", "send", "read"}]
  /\ handle = HandleAt(main)
  /\ power \in BOOLEAN /\ context \in BOOLEAN

Linked ==
  /\ power <=> main \in {"run"} \cup (Power!Exiting \ {"exit"})
  /\ context <=> handle \in {"open", "claimed"}

\* From the command POWER ON to the command POWER OFF.
OnPlaces == {"on read", "run", "close send", "close read", "off send"}
DeviceOn == main \in OnPlaces => devOn

Quiescent == main \in {"none", "unpowered"} \cup Power!Starting => \A w \in Workers : wpc[w] = "idle"

PowerInv == Table /\ Linked /\ DeviceOn /\ Quiescent

-----------------------------------------------------------------------------

(***************************************************************************)
(* No process: the handle is null, nothing is powered (Init, and every     *)
(* early return of _ksePowerOn, exit and kill).                            *)
(***************************************************************************)
LEMMA InitTable == Power!Init => PowerInv
  <1> SUFFICES ASSUME Power!Init PROVE PowerInv
    OBVIOUS
  <1>1. Table
    BY DEF Power!Init, Table, Places, HandleAt, Power!Starting, Power!Exiting
  <1>2. Linked
    BY DEF Power!Init, Linked, Power!Exiting
  <1>3. DeviceOn /\ Quiescent
    BY DEF Power!Init, DeviceOn, OnPlaces, Quiescent
  <1> QED BY <1>1, <1>2, <1>3 DEF PowerInv

LEMMA ProcessGone == ASSUME Power!NoProcess PROVE PowerInv'
  <1>1. Table'
    BY DEF Power!NoProcess, Power!UsbClosed, Table, Places, HandleAt
  <1>2. Linked'
    BY DEF Power!NoProcess, Power!UsbClosed, Linked, Power!Exiting
  <1>3. DeviceOn' /\ Quiescent'
    BY DEF Power!NoProcess, DeviceOn, OnPlaces, Quiescent
  <1> QED BY <1>1, <1>2, <1>3 DEF PowerInv

(***************************************************************************)
(* _ksePowerOn goes through its places in order; every other way out of it *)
(* closes libusb and starts the threads without power; and the answer that *)
(* lets it succeed comes after the device has had the command.             *)
(***************************************************************************)
LEMMA PowerOnKeeps == ASSUME PowerInv, Power!Start \/ Power!PowerOn PROVE PowerInv'
  <1> USE DEF PowerInv, Table, Places, HandleAt, Linked, DeviceOn, OnPlaces, Quiescent,
              Power!Starting, Power!Exiting
  <1>1. CASE Power!StartsUnpowered /\ main \in Power!Starting
    BY <1>1 DEF Power!StartsUnpowered, Power!UsbClosed
  <1>2. CASE Power!Start
    BY <1>2 DEF Power!Start, Power!usbVars, Power!devVars
  <1>3. CASE Power!Open
    BY <1>3 DEF Power!Open, Power!devVars
  <1>4. CASE Power!Claim
    BY <1>4 DEF Power!Claim, Power!devVars
  <1>5. CASE Power!PowerOnSend /\ ~Power!StartsUnpowered
    <2>1. devOn' = TRUE /\ main = "on send" /\ main' = "on read" /\ UNCHANGED <<wpc, Power!usbVars>>
      BY <1>5 DEF Power!PowerOnSend, Power!DeviceGets
    <2> QED BY <2>1 DEF Power!usbVars
  <1>6. CASE Power!PowerOnRead /\ ~Power!StartsUnpowered
    <2>1. /\ main = "on read" /\ main' = "run" /\ power' = TRUE
          /\ UNCHANGED <<wpc, handle, context, devOn>>
      BY <1>6 DEF Power!PowerOnRead, Power!Reads
    <2> QED BY <2>1
  <1>7. CASE Power!OpenFails \/ Power!ClaimFails
    BY <1>1, <1>7 DEF Power!OpenFails, Power!ClaimFails
  <1>8. Power!PowerOnSend \/ Power!PowerOnRead => main \in Power!Starting
    BY DEF Power!PowerOnSend, Power!PowerOnRead
  <1> QED BY <1>1, <1>2, <1>3, <1>4, <1>5, <1>6, <1>7, <1>8 DEF Power!PowerOn

(***************************************************************************)
(* The relay threads change neither handle nor power, and no command of    *)
(* theirs turns the device off.                                            *)
(***************************************************************************)
LEMMA WorkerKeeps == ASSUME PowerInv, NEW w \in Workers, Power!Worker(w) PROVE PowerInv'
  <1>1. CASE Power!Stray(w)
    BY <1>1, ProcessGone DEF Power!Stray
  <1>2. CASE ~Power!Stray(w)
    <2>1. UNCHANGED <<main, handle, context, power>>
      BY <1>2 DEF Power!Worker, Power!Command, Power!CommandFails, Power!CommandSend,
                  Power!CommandRead, Power!usbVars
    <2>2. devOn' = devOn
      BY <1>2 DEF Power!Worker, Power!Command, Power!CommandFails, Power!CommandSend,
                  Power!CommandRead, Power!devVars,
                  Power!TransferFails, Power!TimesOut, Power!DeviceGets, Power!Reads
    <2>3. \E p \in {"idle", "send", "read"} : wpc' = [wpc EXCEPT ![w] = p]
      BY <1>2 DEF Power!Worker, Power!Command, Power!CommandFails, Power!CommandSend,
                  Power!CommandRead
    <2>4. wpc[w] # "idle" \/ (Power!Running /\ handle # "null")
      BY <1>2 DEF Power!Worker, Power!Command, Power!CommandFails, Power!CommandSend,
                  Power!CommandRead
    <2>5. main \notin {"none", "unpowered"} \cup Power!Starting
      BY <2>4 DEF PowerInv, Quiescent, Table, HandleAt, Power!Running, Power!Starting,
                  Power!Exiting
    <2>6. Table'
      BY <2>1, <2>3 DEF PowerInv, Table, HandleAt
    <2>7. Linked' /\ DeviceOn'
      BY <2>1, <2>2 DEF PowerInv, Linked, DeviceOn
    <2>8. Quiescent'
      BY <2>1, <2>5 DEF Quiescent
    <2> QED BY <2>6, <2>7, <2>8 DEF PowerInv
  <1> QED BY <1>1, <1>2

(***************************************************************************)
(* The handler closes the channel, powers off and clears the handle, in    *)
(* this order whatever fails.                                              *)
(***************************************************************************)
LEMMA HandlerKeeps == ASSUME PowerInv, Power!Signal \/ Power!Handler PROVE PowerInv'
  <1> USE DEF PowerInv, Table, Places, HandleAt, Linked, DeviceOn, OnPlaces, Quiescent,
              Power!Starting, Power!Exiting
  <1>1. CASE Power!Signal
    BY <1>1 DEF Power!Signal, Power!usbVars, Power!devVars
  <1>2. CASE Power!CloseSend \/ Power!CloseRead
    <2>1. /\ main \in {"close send", "close read"} /\ main' \in {"close read", "off send"}
          /\ UNCHANGED <<wpc, handle, context, power>>
      BY <1>2 DEF Power!CloseSend, Power!CloseRead, Power!usbVars
    <2>2. devOn' = devOn
      BY <1>2 DEF Power!CloseSend, Power!CloseRead, Power!DeviceGets, Power!TransferFails,
                  Power!TimesOut, Power!Reads, Power!devVars
    <2> QED BY <2>1, <2>2
  <1>3. CASE Power!PowerOffSend \/ Power!PowerOffRead
    <2>1. /\ main \in {"off send", "off read"} /\ main' \in {"off read", "release"}
          /\ UNCHANGED <<wpc, handle, context, power>>
      BY <1>3 DEF Power!PowerOffSend, Power!PowerOffRead, Power!usbVars
    <2> QED BY <2>1
  <1>4. CASE Power!Release
    BY <1>4 DEF Power!Release
  <1>5. CASE Power!Clear
    BY <1>5 DEF Power!Clear
  <1>6. CASE Power!Exit
    BY <1>6, ProcessGone DEF Power!Exit
  <1> QED BY <1>1, <1>2, <1>3, <1>4, <1>5, <1>6 DEF Power!Handler

LEMMA StepTable == PowerInv /\ [Power!Next]_(Power!vars) => PowerInv'
  <1> SUFFICES ASSUME PowerInv, [Power!Next]_(Power!vars) PROVE PowerInv'
    OBVIOUS
  <1>1. CASE Power!Start \/ Power!PowerOn
    BY <1>1, PowerOnKeeps
  <1>2. CASE Power!Signal \/ Power!Handler
    BY <1>2, HandlerKeeps
  <1>3. CASE \E w \in Workers : Power!Worker(w)
    BY <1>3, WorkerKeeps
  <1>4. CASE Power!Kill \/ Power!Replace
    BY <1>4, ProcessGone DEF Power!Kill, Power!Replace
  <1>5. CASE UNCHANGED Power!vars
    BY <1>5 DEF Power!vars, Power!procVars, Power!usbVars, Power!devVars, PowerInv, Table, Linked,
                DeviceOn, Quiescent
  <1> QED BY <1>1, <1>2, <1>3, <1>4, <1>5 DEF Power!Next

LEMMA TableHolds == Power!Spec => []PowerInv
  BY InitTable, StepTable, PTL DEF Power!Spec

-----------------------------------------------------------------------------

(***************************************************************************)
(* gusKsePower, ghDev and libusb agree, and no way out of _ksePowerOn or   *)
(* _ksePowerOff leaves one of them behind, also if the relay threads are   *)
(* then started without power; a running server that takes its device for  *)
(* powered is right, although the answer that told it so may have been an  *)
(* earlier process's.                                                      *)
(***************************************************************************)
THEOREM PowerTheorem == Spec => []UsbConsistent
  <1>1. PowerInv => Power!UsbConsistent /\ Power!PoweredMeansOn
    <2> SUFFICES ASSUME PowerInv PROVE Power!UsbConsistent /\ Power!PoweredMeansOn
      OBVIOUS
    <2>1. main \in {"none", "init", "unpowered", "exit"} => handle = "null"
      BY DEF PowerInv, Table, HandleAt
    <2>2. power <=> handle = "closed" \/ (handle = "claimed" /\ main \notin Power!Starting)
      BY DEF PowerInv, Table, Places, HandleAt, Linked, Power!Starting, Power!Exiting
    <2>3. Power!PoweredMeansOn
      BY DEF PowerInv, DeviceOn, OnPlaces, Linked, Power!Exiting, Power!PoweredMeansOn
    <2> QED BY <2>1, <2>2, <2>3 DEF PowerInv, Linked, Power!UsbConsistent
  <1> QED BY <1>1, Components, TableHolds, PTL DEF UsbConsistent

(***************************************************************************)
(* No transfer is given a handle that is closed or NULL before the handler *)
(* of SIGINT has closed it: all other ends of a process leave no thread.   *)
(***************************************************************************)
THEOREM StrayTheorem == Spec => StrayOnlyAtExit
  <1>1. ASSUME PowerInv, [Power!Next]_(Power!vars)
        PROVE  [stray' # stray => main \in {"clear", "exit"}]_(Power!vars)
    <2> SUFFICES ASSUME Power!Next, stray' # stray PROVE main \in {"clear", "exit"}
      BY <1>1
    <2>1. PICK w \in Workers : Power!Stray(w)
      BY DEF Power!Next, Power!PowerOn, Power!Handler, Power!Worker, Power!Start,
             Power!OpenFails, Power!Open, Power!ClaimFails, Power!Claim,
             Power!PowerOnSend, Power!PowerOnRead, Power!Signal, Power!CloseSend,
             Power!CloseRead, Power!PowerOffSend,
             Power!PowerOffRead, Power!Release, Power!Clear, Power!Exit, Power!Kill,
             Power!Replace, Power!Command, Power!CommandFails, Power!CommandSend,
             Power!CommandRead
    <2>2. wpc[w] # "idle" /\ handle # "claimed"
      BY <2>1 DEF Power!Stray
    <2>3. main \notin {"none", "unpowered"} \cup Power!Starting
      BY <1>1, <2>2 DEF PowerInv, Quiescent
    <2> QED BY <1>1, <2>2, <2>3 DEF PowerInv, Table, Places, HandleAt, Power!Starting, Power!Exiting
  <1> QED BY <1>1, Components, TableHolds, PTL
      DEF Power!Spec, Power!StrayOnlyAtExit, StrayOnlyAtExit

-----------------------------------------------------------------------------
(* The serial port, for messages and output buffers of every size and any  *)
(* amount of input.                                                        *)

(***************************************************************************)
(* The port in use: configured, and blocking calls are what the flags that *)
(* were read stand for.  A POLLIN that the reader has seen stays true,     *)
(* because it is the only one to read.                                     *)
(***************************************************************************)
InUse == {"running", "stopped"}

PortInv ==
  /\ phase \in {"start", "opened", "running", "thrown", "stopped"}
  /\ phase \in InUse => fd > 0
  /\ rpc # "idle" => phase \in InUse
  /\ flags = FALSE
  /\ phase \in {"start", "opened"} => nonblock = FALSE

InputInv ==
  /\ arrived \in Int /\ consumed \in Int
  /\ rpc = "poll" => ~revents
  /\ rpc \in {"clear", "test"} /\ revents => Serial!Input > 0 \/ hungup \/ ~Serial!Open
  /\ rpc = "read" => Serial!Input > 0 \/ hungup \/ ~Serial!Open

\* O_NONBLOCK is set only where the reader has set it and not come back.
WindowInv == phase = "running" /\ nonblock => rpc \in {"poll", "clear"} \/ quiet

SerialInv == PortInv /\ InputInv /\ WindowInv

LEMMA SerialInit == Serial!Init => SerialInv
<1> SUFFICES ASSUME Serial!Init PROVE SerialInv
  OBVIOUS
<1>1. PortInv
  BY DEF Serial!Init, PortInv, InUse
<1>2. InputInv
  BY DEF Serial!Init, InputInv
<1>3. WindowInv
  BY DEF Serial!Init, WindowInv
<1> QED
  BY <1>1, <1>2, <1>3 DEF SerialInv

LEMMA PortStep == PortInv /\ [Serial!Next]_(Serial!vars) => PortInv'
<1> SUFFICES ASSUME PortInv, [Serial!Next]_(Serial!vars) PROVE PortInv'
  OBVIOUS
<1> USE DEF PortInv, InUse
<1>1. CASE Serial!OpenPort
  BY <1>1 DEF Serial!OpenPort, Serial!readerVars
<1>2. CASE Serial!SetupPort
  BY <1>2 DEF Serial!SetupPort
<1>3. CASE Serial!Stop
  BY <1>3 DEF Serial!Stop, Serial!readerVars
<1>4. CASE Serial!SetNonblock
  BY <1>4 DEF Serial!SetNonblock, Serial!portVars
<1>5. CASE Serial!Poll \/ Serial!PollFails \/ Serial!PollTimeout
  BY <1>5 DEF Serial!Poll, Serial!PollFails, Serial!PollTimeout, Serial!portVars
<1>6. CASE Serial!ClearNonblock
  BY <1>6 DEF Serial!ClearNonblock, Serial!portVars
<1>7. CASE Serial!TestRevents \/ Serial!ReadByte
  BY <1>7 DEF Serial!TestRevents, Serial!ReadByte, Serial!portVars
<1>8. CASE Serial!WriteMessage \/ Serial!WriteClosed \/ Serial!WriteEnds
  BY <1>8 DEF Serial!WriteMessage, Serial!WriteClosed, Serial!WriteEnds, Serial!WriteSome,
              Serial!WriteShort, Serial!WriteFails,
    Serial!portVars, Serial!readerVars
<1>9. CASE Serial!Arrive \/ Serial!Drain \/ Serial!HangUp
  BY <1>9 DEF Serial!Arrive, Serial!Drain, Serial!HangUp, Serial!portVars, Serial!readerVars
<1>10. CASE UNCHANGED Serial!vars
  BY <1>10 DEF Serial!vars, Serial!portVars, Serial!readerVars
<1> QED
  BY <1>1, <1>2, <1>3, <1>4, <1>5, <1>6, <1>7, <1>8, <1>9, <1>10 DEF Serial!Next, Serial!Reader

LEMMA InputStep == PortInv /\ InputInv /\ [Serial!Next]_(Serial!vars) => InputInv'
<1> SUFFICES ASSUME PortInv, InputInv, [Serial!Next]_(Serial!vars) PROVE InputInv'
  OBVIOUS
<1> USE DEF InputInv, Serial!Input, Serial!Open
<1>1. CASE Serial!OpenPort
  BY <1>1 DEF Serial!OpenPort, Serial!readerVars, PortInv, InUse
<1>2. CASE Serial!SetupPort
  BY <1>2 DEF Serial!SetupPort, PortInv, InUse
<1>3. CASE Serial!Stop
  BY <1>3 DEF Serial!Stop, Serial!readerVars
<1>4. CASE Serial!SetNonblock
  BY <1>4 DEF Serial!SetNonblock, Serial!portVars
<1>5. CASE Serial!Poll
  BY <1>5 DEF Serial!Poll, Serial!portVars
<1>6. CASE Serial!PollFails \/ Serial!PollTimeout
  BY <1>6 DEF Serial!PollFails, Serial!PollTimeout, Serial!portVars
<1>7. CASE Serial!ClearNonblock
  BY <1>7 DEF Serial!ClearNonblock, Serial!portVars
<1>8. CASE Serial!TestRevents
  BY <1>8 DEF Serial!TestRevents, Serial!portVars
<1>9. CASE Serial!ReadByte
  BY <1>9 DEF Serial!ReadByte, Serial!portVars
<1>10. CASE Serial!WriteMessage \/ Serial!WriteClosed \/ Serial!WriteEnds
  BY <1>10 DEF Serial!WriteMessage, Serial!WriteClosed, Serial!WriteEnds, Serial!WriteSome,
               Serial!WriteShort, Serial!WriteFails,
    Serial!portVars, Serial!readerVars
<1>11. CASE Serial!Arrive \/ Serial!Drain \/ Serial!HangUp
  BY <1>11 DEF Serial!Arrive, Serial!Drain, Serial!HangUp, Serial!portVars, Serial!readerVars
<1>12. CASE UNCHANGED Serial!vars
  BY <1>12 DEF Serial!vars, Serial!portVars, Serial!readerVars
<1> QED
  BY <1>1, <1>2, <1>3, <1>4, <1>5, <1>6, <1>7, <1>8, <1>9, <1>10, <1>11, <1>12 DEF Serial!Next,
     Serial!Reader

LEMMA WindowStep == PortInv /\ WindowInv /\ [Serial!Next]_(Serial!vars) => WindowInv'
<1> SUFFICES ASSUME PortInv, WindowInv, [Serial!Next]_(Serial!vars) PROVE WindowInv'
  OBVIOUS
<1> USE DEF WindowInv
<1>1. CASE Serial!OpenPort
  BY <1>1 DEF Serial!OpenPort
<1>2. CASE Serial!SetupPort
  BY <1>2 DEF Serial!SetupPort, PortInv
<1>3. CASE Serial!Stop
  BY <1>3 DEF Serial!Stop
<1>4. CASE Serial!SetNonblock \/ Serial!Poll \/ Serial!PollFails \/ Serial!PollTimeout
  BY <1>4 DEF Serial!SetNonblock, Serial!Poll, Serial!PollFails, Serial!PollTimeout, Serial!portVars
<1>5. CASE Serial!ClearNonblock
  BY <1>5 DEF Serial!ClearNonblock, Serial!portVars, PortInv, Serial!Open
<1>6. CASE Serial!TestRevents \/ Serial!ReadByte
  BY <1>6 DEF Serial!TestRevents, Serial!ReadByte, Serial!portVars
<1>7. CASE Serial!WriteMessage \/ Serial!WriteClosed \/ Serial!WriteEnds
  BY <1>7 DEF Serial!WriteMessage, Serial!WriteClosed, Serial!WriteEnds, Serial!WriteSome,
              Serial!WriteShort, Serial!WriteFails,
    Serial!portVars, Serial!readerVars
<1>8. CASE Serial!Arrive \/ Serial!Drain \/ Serial!HangUp
  BY <1>8 DEF Serial!Arrive, Serial!Drain, Serial!HangUp, Serial!portVars, Serial!readerVars
<1>9. CASE UNCHANGED Serial!vars
  BY <1>9 DEF Serial!vars, Serial!portVars, Serial!readerVars
<1> QED
  BY <1>1, <1>2, <1>3, <1>4, <1>5, <1>6, <1>7, <1>8, <1>9 DEF Serial!Next, Serial!Reader

LEMMA SerialAlways == Serial!Spec => []SerialInv
<1>1. SerialInv /\ [Serial!Next]_(Serial!vars) => SerialInv'
  BY PortStep, InputStep, WindowStep DEF SerialInv
<1> QED
  BY <1>1, SerialInit, PTL DEF Serial!Spec

(***************************************************************************)
(* The reader never stops in its blocking read of a port that works, and   *)
(* reads only from a port that start() has configured.                     *)
(***************************************************************************)
THEOREM ReaderTheorem == Spec => []ReaderNeverBlocks
<1>1. SerialInv => Serial!ReaderNeverBlocks
  BY DEF SerialInv, PortInv, InputInv, Serial!ReaderNeverBlocks
<1> QED
  BY <1>1, Components, SerialAlways, PTL DEF ReaderNeverBlocks

(***************************************************************************)
(* A step that ends a write_message early, on a port that works, is in a   *)
(* window of the reader.                                                   *)
(***************************************************************************)
CutStep ==
  writer = "write" /\ writer' = "idle" /\ ret' # MsgLen /\ Serial!Open /\ ~hungup
    => rpc \in {"poll", "clear"} \/ quiet

LEMMA CutLemma == SerialInv /\ [Serial!Next]_(Serial!vars) => CutStep
<1> SUFFICES ASSUME SerialInv, [Serial!Next]_(Serial!vars), writer = "write", writer' = "idle",
   ret' # MsgLen,
                    Serial!Open, ~hungup
             PROVE  rpc \in {"poll", "clear"} \/ quiet
  BY DEF CutStep
<1>1. nonblock
  <2>1. CASE Serial!WriteEnds
    BY <2>1 DEF Serial!WriteEnds, Serial!WriteSome, Serial!WriteShort, Serial!WriteFails,
                Serial!Return
  <2>2. CASE Serial!Reader
    BY <2>2 DEF Serial!Reader, Serial!SetNonblock, Serial!Poll, Serial!PollFails,
                Serial!PollTimeout, Serial!ClearNonblock, Serial!TestRevents,
      Serial!ReadByte, Serial!writerVars
  <2>3. CASE Serial!OpenPort \/ Serial!SetupPort \/ Serial!Stop
    BY <2>3 DEF Serial!OpenPort, Serial!SetupPort, Serial!Stop, Serial!writerVars
  <2>4. CASE Serial!WriteMessage \/ Serial!WriteClosed
    BY <2>4 DEF Serial!WriteMessage, Serial!WriteClosed
  <2>5. CASE Serial!Arrive \/ Serial!Drain \/ Serial!HangUp
    BY <2>5 DEF Serial!Arrive, Serial!Drain, Serial!HangUp, Serial!writerVars
  <2>6. CASE UNCHANGED Serial!vars
    BY <2>6 DEF Serial!vars, Serial!writerVars
  <2> QED
    BY <2>1, <2>2, <2>3, <2>4, <2>5, <2>6 DEF Serial!Next
<1>2. phase = "running"
  BY <1>1 DEF SerialInv, PortInv, Serial!Open
<1> QED
  BY <1>1, <1>2 DEF SerialInv, WindowInv

LEMMA CutHolds == Serial!Spec => Serial!CutOnlyByReader
<1>1. SerialInv /\ [Serial!Next]_(Serial!vars) => [CutStep]_(Serial!vars)
  BY CutLemma
<1> QED
  BY <1>1, SerialAlways, PTL DEF Serial!Spec, Serial!CutOnlyByReader, CutStep

-----------------------------------------------------------------------------
(* The proxy.  The queues of its sockets hold datagrams of senders, and    *)
(* only Receive takes one and goes on.                                     *)

Datagrams == [from : Proxy!Senders, empty : BOOLEAN]
QueueInv == input \in [Proxy!Ports -> Seq(Datagrams)]

LEMMA QueueInit == Proxy!Init => QueueInv
<1>1. <<>> \in Seq(Datagrams)
  OBVIOUS
<1> QED
  BY <1>1 DEF Proxy!Init, Proxy!NoInput, QueueInv

LEMMA BreakEmpties == Proxy!Break => QueueInv'
<1>1. <<>> \in Seq(Datagrams)
  OBVIOUS
<1> QED
  BY <1>1 DEF Proxy!Break, Proxy!NoInput, QueueInv

\* What a step of the loop does to the queues.
Taken(i) == /\ Proxy!Receive(i)
            /\ input[i] # <<>> /\ input' = [input EXCEPT ![i] = Tail(@)]
            /\ forwarded' = (IF conn[Proxy!OtherPort(i)] # Proxy!Nobody
                              THEN Head(input[i]).from ELSE Proxy!Nobody)

LEMMA LoopQueues ==
  ASSUME Proxy!Loop
  PROVE  input' = input \/ Proxy!Break \/ \E i \in Proxy!Ports : Taken(i)
<1>1. CASE Proxy!Open \/ Proxy!OpenFails \/ Proxy!Check \/ Proxy!Select \/ Proxy!Interrupted
  BY <1>1 DEF Proxy!Open, Proxy!OpenFails, Proxy!Check, Proxy!Select, Proxy!Interrupted,
              Proxy!kernelVars
<1>2. ASSUME NEW i \in Proxy!Ports, Proxy!Skip(i) \/ Proxy!ReceiveFails(i)
      PROVE  input' = input \/ Proxy!Break
  BY <1>2 DEF Proxy!Skip, Proxy!ReceiveFails, Proxy!kernelVars
<1>3. ASSUME NEW i \in Proxy!Ports, Proxy!Receive(i)
      PROVE  Proxy!Break \/ Taken(i)
  <2>1. CASE refused[Proxy!OtherPort(i)]
    BY <1>3, <2>1 DEF Proxy!Receive
  <2>2. CASE ~refused[Proxy!OtherPort(i)]
    BY <1>3, <2>2 DEF Proxy!Receive, Proxy!Forwards, Taken
  <2> QED
    BY <2>1, <2>2
<1> QED
  BY <1>1, <1>2, <1>3 DEF Proxy!Loop

\* What a sender does to the queues.
Sent(x) == \E i \in Proxy!Ports, d \in Datagrams : input' = [input EXCEPT ![i] = Append(@, d)]

LEMMA SendQueues ==
  ASSUME NEW x \in Proxy!Senders, Proxy!Send(x)
  PROVE  input' = input \/ Sent(x)
<1>1. PICK empty \in BOOLEAN :
        \/ input' = input
        \/ input' = [input EXCEPT ![Proxy!PortOf(x)] = Append(@, [from |-> x, empty |-> empty])]
  BY DEF Proxy!Send
<1>2. Proxy!PortOf(x) \in Proxy!Ports
  BY DEF Proxy!PortOf, Proxy!Ports
<1>3. [from |-> x, empty |-> empty] \in Datagrams
  BY DEF Datagrams
<1> QED
  BY <1>1, <1>2, <1>3 DEF Sent

LEMMA OtherQueues ==
  ASSUME Proxy!Tick \/ (\E x \in Proxy!Senders : Proxy!Go(x)) \/ UNCHANGED Proxy!vars
  PROVE  input' = input
BY DEF Proxy!Tick, Proxy!Go, Proxy!vars, Proxy!kernelVars

LEMMA QueueStep == QueueInv /\ [Proxy!Next]_(Proxy!vars) => QueueInv'
<1> SUFFICES ASSUME QueueInv, [Proxy!Next]_(Proxy!vars) PROVE QueueInv'
  OBVIOUS
<1>1. ASSUME NEW i \in Proxy!Ports, Taken(i) PROVE QueueInv'
  BY <1>1 DEF Taken, QueueInv
<1>2. ASSUME NEW x \in Proxy!Senders, Sent(x) PROVE QueueInv'
  BY <1>2 DEF Sent, QueueInv
<1>3. ASSUME input' = input PROVE QueueInv'
  BY <1>3 DEF QueueInv
<1> QED
  BY <1>1, <1>2, <1>3, BreakEmpties, LoopQueues, SendQueues, OtherQueues DEF Proxy!Next

NoDrop ==
  \A i \in Proxy!Ports :
    conn[1] # Proxy!Nobody /\ conn[2] # Proxy!Nobody /\ Len(input'[i]) < Len(input[i])
      => forwarded' # Proxy!Nobody \/ pc'.at = "open"

LEMMA DropLemma == QueueInv /\ [Proxy!Next]_(Proxy!vars) => NoDrop
<1> SUFFICES ASSUME QueueInv, [Proxy!Next]_(Proxy!vars),
                    NEW i \in Proxy!Ports,
                    conn[1] # Proxy!Nobody, conn[2] # Proxy!Nobody,
                    Len(input'[i]) < Len(input[i])
             PROVE  forwarded' # Proxy!Nobody \/ pc'.at = "open"
  BY DEF NoDrop
<1>1. input' # input
  BY DEF QueueInv
<1>2. ASSUME NEW x \in Proxy!Senders, Sent(x) PROVE FALSE
  <2>1. PICK j \in Proxy!Ports, d \in Datagrams : input' = [input EXCEPT ![j] = Append(@, d)]
    BY <1>2 DEF Sent
  <2>2. CASE i = j
    <3>1. input[i] \in Seq(Datagrams) /\ input'[i] = Append(input[i], d)
      BY <2>1, <2>2 DEF QueueInv
    <3>2. Len(input'[i]) = Len(input[i]) + 1 /\ Len(input[i]) \in Nat
      BY <3>1
    <3> QED
      BY <3>2
  <2>3. CASE i # j
    <3>1. input'[i] = input[i] /\ Len(input[i]) \in Nat
      BY <2>1, <2>3 DEF QueueInv
    <3> QED
      BY <3>1
  <2> QED
    BY <2>2, <2>3
<1>3. CASE Proxy!Break
  BY <1>3 DEF Proxy!Break, Proxy!At
<1>4. ASSUME NEW j \in Proxy!Ports, Taken(j) PROVE forwarded' # Proxy!Nobody
  <2>1. Proxy!OtherPort(j) \in {1, 2}
    BY DEF Proxy!OtherPort, Proxy!Ports
  <2>2. forwarded' = Head(input[j]).from
    BY <1>4, <2>1 DEF Taken
  <2>3. Head(input[j]) \in Datagrams
    BY <1>4 DEF Taken, QueueInv
  <2>4. Head(input[j]).from \in Senders1 \cup Senders2
    BY <2>3 DEF Datagrams, Proxy!Senders
  <2> QED
    BY <2>2, <2>4, MCPortsAssumption DEF Proxy!Nobody
<1> QED
  BY <1>1, <1>2, <1>3, <1>4, LoopQueues, SendQueues, OtherQueues DEF Proxy!Next

LEMMA DropHolds == Proxy!Spec => Proxy!NothingDropped
<1>1. QueueInv /\ [Proxy!Next]_(Proxy!vars) => [NoDrop]_(Proxy!vars)
  BY DropLemma
<1> QED
  BY <1>1, QueueInit, QueueStep, PTL DEF Proxy!Spec, Proxy!NothingDropped, NoDrop

(***************************************************************************)
(* A message to the autopilot is cut short on a port that works only while *)
(* the reader has O_NONBLOCK set on the descriptor they share; and the     *)
(* proxy sends every datagram on that it receives while it knows both      *)
(* endpoints, or ends the session with it.                                 *)
(***************************************************************************)
THEOREM CutTheorem == Spec => CutOnlyByReader
  BY Components, CutHolds, DropHolds, PTL DEF CutOnlyByReader
-----------------------------------------------------------------------------
(* Types, and the bound on how long the proxy keeps quiet endpoints.       *)

LEMMA Bounds ==
  /\ MaxKills \in Nat /\ MaxExits \in Nat /\ MaxFails \in Nat /\ MaxInput \in Nat
  /\ MaxSignals \in Nat /\ MsgLen \in Nat /\ Room \in Nat /\ Quiet \in Nat /\ MaxQueue \in Nat
  /\ MsgLen > 0 /\ Quiet > 0
  BY MCPortsAssumption

PowerTyped ==
  /\ devOn \in BOOLEAN /\ queue \in Seq(Power!AnswerKinds) /\ stray \in BOOLEAN
  /\ kills \in 0 .. MaxKills /\ exits \in 0 .. MaxExits /\ fails \in 0 .. MaxFails

LEMMA TransferTyped ==
  ASSUME devOn \in BOOLEAN, queue \in Seq(Power!AnswerKinds),
         (\E c \in {"on", "off", "data"} : Power!DeviceGets(c)) \/ Power!Reads
           \/ UNCHANGED <<devOn, queue>>
  PROVE  devOn' \in BOOLEAN /\ queue' \in Seq(Power!AnswerKinds)
  <1>1. ASSUME NEW c \in {"on", "off", "data"}, Power!DeviceGets(c)
        PROVE  devOn' \in BOOLEAN /\ queue' \in Seq(Power!AnswerKinds)
    <2>1. devOn' \in BOOLEAN
      BY <1>1 DEF Power!DeviceGets
    <2>2. PICK a \in Power!AnswerKinds : queue' = Append(queue, a)
      BY <1>1 DEF Power!DeviceGets, Power!AnswerKinds
    <2>3. queue' \in Seq(Power!AnswerKinds)
      BY <2>2
    <2> QED BY <2>1, <2>3
  <1>2. CASE Power!Reads
    <2>1. queue # <<>> /\ queue' = Tail(queue) /\ devOn' = devOn
      BY <1>2 DEF Power!Reads
    <2> QED BY <2>1
  <1> QED BY <1>1, <1>2

LEMMA PowerStepTyped == PowerTyped /\ [Power!Next]_(Power!vars) => PowerTyped'
  <1> SUFFICES ASSUME PowerTyped, [Power!Next]_(Power!vars) PROVE PowerTyped'
    OBVIOUS
  <1>1. (\E c \in {"on", "off", "data"} : Power!DeviceGets(c)) \/ Power!Reads
          \/ UNCHANGED <<devOn, queue>> \/ (devOn' = FALSE /\ queue' = <<>>)
    <2>1. CASE Power!Start \/ Power!PowerOn
      BY <2>1 DEF Power!Start, Power!PowerOn, Power!OpenFails, Power!Open, Power!ClaimFails,
                  Power!Claim, Power!PowerOnSend, Power!PowerOnRead, Power!devVars,
                  Power!TransferFails, Power!TimesOut
    <2>2. CASE Power!Signal \/ Power!Handler \/ Power!Replace \/ Power!Kill
      BY <2>2 DEF Power!Signal, Power!Handler, Power!Replace, Power!Kill, Power!CloseSend,
                  Power!CloseRead,
                  Power!PowerOffSend, Power!PowerOffRead, Power!Release, Power!Clear,
                  Power!Exit, Power!devVars, Power!TransferFails, Power!TimesOut
    <2>3. CASE \E w \in Workers : Power!Worker(w)
      BY <2>3 DEF Power!Worker, Power!Command, Power!Stray, Power!CommandFails,
                  Power!CommandSend, Power!CommandRead, Power!devVars, Power!TransferFails,
                  Power!TimesOut
    <2>4. CASE UNCHANGED Power!vars
      BY <2>4 DEF Power!vars, Power!devVars
    <2> QED BY <2>1, <2>2, <2>3, <2>4 DEF Power!Next
  <1>2. /\ kills' = kills \/ (kills < MaxKills /\ kills' = kills + 1)
        /\ exits' = exits \/ (exits < MaxExits /\ exits' = exits + 1)
        /\ fails' = fails \/ (fails < MaxFails /\ fails' = fails + 1)
        /\ stray' = stray \/ stray' = TRUE
    <2>1. CASE Power!Start \/ Power!PowerOn
      BY <2>1 DEF Power!Start, Power!PowerOn, Power!OpenFails, Power!Open, Power!ClaimFails,
                  Power!Claim, Power!PowerOnSend, Power!PowerOnRead, Power!countVars,
                  Power!TransferFails, Power!TimesOut
    <2>2. CASE Power!Signal \/ Power!Handler \/ Power!Replace \/ Power!Kill
      BY <2>2 DEF Power!Signal, Power!Handler, Power!Replace, Power!Kill, Power!CloseSend,
                  Power!CloseRead,
                  Power!PowerOffSend, Power!PowerOffRead, Power!Release, Power!Clear,
                  Power!Exit, Power!countVars, Power!TransferFails, Power!TimesOut
    <2>3. CASE \E w \in Workers : Power!Worker(w)
      BY <2>3 DEF Power!Worker, Power!Command, Power!Stray, Power!CommandFails,
                  Power!CommandSend, Power!CommandRead, Power!countVars, Power!TransferFails,
                  Power!TimesOut
    <2>4. CASE UNCHANGED Power!vars
      BY <2>4 DEF Power!vars, Power!countVars
    <2> QED BY <2>1, <2>2, <2>3, <2>4 DEF Power!Next
  <1>3. kills' \in 0 .. MaxKills /\ exits' \in 0 .. MaxExits /\ fails' \in 0 .. MaxFails
    BY <1>2, Bounds DEF PowerTyped
  <1>4. stray' \in BOOLEAN
    BY <1>2 DEF PowerTyped
  <1>5. devOn' \in BOOLEAN /\ queue' \in Seq(Power!AnswerKinds)
    <2>1. CASE devOn' = FALSE /\ queue' = <<>>
      <3>1. <<>> \in Seq(Power!AnswerKinds)
        OBVIOUS
      <3> QED BY <2>1, <3>1
    <2>2. CASE UNCHANGED <<devOn, queue>>
      BY <2>2 DEF PowerTyped
    <2> QED BY <1>1, <2>1, <2>2, TransferTyped DEF PowerTyped
  <1> QED BY <1>3, <1>4, <1>5 DEF PowerTyped

LEMMA PowerTypeHolds == Power!Spec => []Power!TypeOK
  <1>1. Power!Init => PowerTyped
    <2> SUFFICES ASSUME Power!Init PROVE PowerTyped
      OBVIOUS
    <2>1. devOn \in BOOLEAN /\ stray \in BOOLEAN
      BY Zenon DEF Power!Init
    <2>3. queue = <<>>
      BY DEF Power!Init
    <2>4. queue \in Seq(Power!AnswerKinds)
      BY <2>3
    <2>2. kills \in 0 .. MaxKills /\ exits \in 0 .. MaxExits /\ fails \in 0 .. MaxFails
      BY Bounds DEF Power!Init
    <2> QED BY <2>1, <2>2, <2>4 DEF PowerTyped
  <1>2. PowerInv /\ PowerTyped => Power!TypeOK
    <2> SUFFICES ASSUME PowerInv, PowerTyped PROVE Power!TypeOK
      OBVIOUS
    <2>1. /\ main \in {"none", "run", "unpowered"} \cup Power!Starting \cup Power!Exiting
          /\ wpc \in [Workers -> {"idle", "send", "read"}]
          /\ handle \in {"null", "open", "claimed", "closed"}
          /\ context \in BOOLEAN /\ power \in BOOLEAN
      BY DEF PowerInv, Table, Places, HandleAt
    <2>2. (power \/ \E w \in Workers : wpc[w] # "idle") => Power!Running
      BY DEF PowerInv, Table, Places, Linked, Quiescent, Power!Running, Power!Starting,
             Power!Exiting
    <2> QED BY <2>1, <2>2 DEF Power!TypeOK, PowerTyped
  <1> QED BY <1>1, <1>2, PowerStepTyped, TableHolds, PTL DEF Power!Spec

-----------------------------------------------------------------------------

LineTyped == arrived \in 0 .. MaxInput /\ consumed \in 0 .. arrived
OutputTyped ==
  left \in 0 .. MsgLen /\ outBuf \in 0 .. Room /\ ret \in -1 .. MsgLen
FlagsTyped ==
  /\ fd \in {-1, 0, 3} /\ flags \in BOOLEAN /\ nonblock \in BOOLEAN /\ hungup \in BOOLEAN
  /\ rpc \in {"idle", "poll", "clear", "test", "read"}
  /\ revents \in BOOLEAN /\ quiet \in BOOLEAN /\ writer \in {"idle", "write"}

LEMMA FlagsStep == FlagsTyped /\ [Serial!Next]_(Serial!vars) => FlagsTyped'
<1> SUFFICES ASSUME FlagsTyped, [Serial!Next]_(Serial!vars) PROVE FlagsTyped'
  OBVIOUS
<1> USE DEF FlagsTyped, Serial!portVars, Serial!readerVars, Serial!writerVars
<1>1. CASE Serial!OpenPort \/ Serial!SetupPort \/ Serial!Stop
  BY <1>1 DEF Serial!OpenPort, Serial!SetupPort, Serial!Stop
<1>2. CASE Serial!SetNonblock \/ Serial!PollFails \/ Serial!PollTimeout
  BY <1>2 DEF Serial!SetNonblock, Serial!PollFails, Serial!PollTimeout
<1>7. CASE Serial!Poll
  <2>1. /\ rpc' = "clear" /\ revents' = Serial!Open /\ quiet' = FALSE
        /\ UNCHANGED <<fd, flags, nonblock, hungup, writer>>
    BY <1>7 DEF Serial!Poll
  <2>3. CASE Serial!Open
    <3>1. revents' = TRUE
      BY <2>1, <2>3, Zenon
    <3> QED
      BY <2>1, <3>1
  <2>4. CASE ~Serial!Open
    <3>1. (phase \in {"opened", "running"}) = FALSE
      BY <2>4 DEF Serial!Open
    <3>2. revents' = FALSE
      BY <2>1, <3>1 DEF Serial!Open
    <3> QED
      BY <2>1, <3>2
  <2> QED
    BY <2>3, <2>4
<1>3. CASE Serial!ClearNonblock \/ Serial!TestRevents \/ Serial!ReadByte
  BY <1>3 DEF Serial!ClearNonblock, Serial!TestRevents, Serial!ReadByte
<1>4. CASE Serial!WriteMessage \/ Serial!WriteClosed \/ Serial!WriteEnds
  BY <1>4 DEF Serial!WriteMessage, Serial!WriteClosed, Serial!WriteEnds, Serial!WriteSome,
              Serial!WriteShort, Serial!WriteFails, Serial!Return
<1>5. CASE Serial!Arrive \/ Serial!Drain \/ Serial!HangUp
  <2>1. /\ UNCHANGED <<fd, flags, nonblock, rpc, revents, quiet, writer>>
        /\ hungup' \in {hungup, TRUE}
    BY <1>5 DEF Serial!Arrive, Serial!Drain, Serial!HangUp
  <2> QED BY <2>1
<1>6. CASE UNCHANGED Serial!vars
  BY <1>6 DEF Serial!vars
<1> QED
  BY <1>1, <1>2, <1>3, <1>4, <1>5, <1>6, <1>7 DEF Serial!Next, Serial!Reader

LEMMA LineStep == LineTyped /\ [Serial!Next]_(Serial!vars) => LineTyped'
<1> SUFFICES ASSUME LineTyped, [Serial!Next]_(Serial!vars) PROVE LineTyped'
  OBVIOUS
<1>1. \/ UNCHANGED <<arrived, consumed>>
      \/ consumed' = arrived /\ arrived' = arrived
      \/ arrived' = arrived /\ Serial!Input > 0 /\ consumed' = consumed + 1
      \/ arrived < MaxInput /\ arrived' = arrived + 1 /\ consumed' = consumed
  <2> USE DEF Serial!portVars, Serial!readerVars, Serial!writerVars
  <2>1. CASE Serial!OpenPort \/ Serial!SetupPort \/ Serial!Stop
    BY <2>1 DEF Serial!OpenPort, Serial!SetupPort, Serial!Stop
  <2>2. CASE Serial!Reader
    BY <2>2 DEF Serial!Reader, Serial!SetNonblock, Serial!Poll, Serial!PollFails,
                Serial!PollTimeout, Serial!ClearNonblock, Serial!TestRevents, Serial!ReadByte
  <2>3. CASE Serial!WriteMessage \/ Serial!WriteClosed \/ Serial!WriteEnds
    BY <2>3 DEF Serial!WriteMessage, Serial!WriteClosed, Serial!WriteEnds, Serial!WriteSome,
                Serial!WriteShort, Serial!WriteFails
  <2>4. CASE Serial!Arrive \/ Serial!Drain \/ Serial!HangUp
    BY <2>4 DEF Serial!Arrive, Serial!Drain, Serial!HangUp
  <2>5. CASE UNCHANGED Serial!vars
    BY <2>5 DEF Serial!vars
  <2> QED
    BY <2>1, <2>2, <2>3, <2>4, <2>5 DEF Serial!Next
<1> QED
  BY <1>1, Bounds DEF LineTyped, Serial!Input

LEMMA MinOfTwo ==
  ASSUME NEW a \in Nat, NEW b \in Nat
  PROVE  Serial!Min({a, b}) = (IF a <= b THEN a ELSE b)
BY DEF Serial!Min

LEMMA OutputStep == OutputTyped /\ [Serial!Next]_(Serial!vars) => OutputTyped'
<1> SUFFICES ASSUME OutputTyped, [Serial!Next]_(Serial!vars) PROVE OutputTyped'
  OBVIOUS
<1>1. CASE Serial!WriteSome
  <2>1. outBuf < Room /\ left \in Nat /\ Room - outBuf \in Nat
    BY <1>1, Bounds DEF OutputTyped, Serial!WriteSome
  <2>2. PICK n \in {left, Room - outBuf} :
          /\ n <= left /\ n <= Room - outBuf /\ outBuf' = outBuf + n
          /\ \/ n = left /\ left' = 0 /\ ret' = MsgLen
             \/ left' = left - n /\ ret' = ret
    BY <1>1, <2>1, MinOfTwo DEF Serial!WriteSome, Serial!Return
  <2> QED
    BY <2>1, <2>2, Bounds DEF OutputTyped
<1>2. CASE Serial!WriteShort \/ Serial!WriteFails
  <2>1. /\ left' = 0 /\ outBuf' = outBuf
        /\ ret' = IF left = MsgLen THEN -1 ELSE MsgLen - left
    BY <1>2 DEF Serial!WriteShort, Serial!WriteFails, Serial!Return
  <2> QED
    BY <2>1, Bounds DEF OutputTyped
<1>3. CASE Serial!WriteMessage \/ Serial!WriteClosed
  <2>1. left' \in {left, MsgLen} /\ ret' \in {ret, -1} /\ outBuf' = outBuf
    BY <1>3 DEF Serial!WriteMessage, Serial!WriteClosed
  <2> QED
    BY <2>1, Bounds DEF OutputTyped
<1>4. CASE Serial!Drain
  <2>1. outBuf > 0 /\ outBuf' = outBuf - 1 /\ left' = left /\ ret' = ret
    BY <1>4 DEF Serial!Drain, Serial!writerVars
  <2> QED
    BY <2>1, Bounds DEF OutputTyped
<1>5. CASE Serial!HangUp
  <2>1. outBuf' = 0 /\ left' = left /\ ret' = ret
    BY <1>5 DEF Serial!HangUp, Serial!writerVars
  <2> QED
    BY <2>1, Bounds DEF OutputTyped
<1>6. ASSUME UNCHANGED <<left, ret, outBuf>> PROVE OutputTyped'
  BY <1>6 DEF OutputTyped
<1>7. CASE Serial!OpenPort \/ Serial!SetupPort \/ Serial!Stop \/ Serial!Arrive
  BY <1>6, <1>7 DEF Serial!OpenPort, Serial!SetupPort, Serial!Stop, Serial!Arrive, Serial!writerVars
<1>8. CASE Serial!Reader
  BY <1>6, <1>8 DEF Serial!Reader, Serial!SetNonblock, Serial!Poll, Serial!PollFails,
    Serial!PollTimeout, Serial!ClearNonblock, Serial!TestRevents, Serial!ReadByte,
    Serial!writerVars
<1>9. CASE UNCHANGED Serial!vars
  BY <1>6, <1>9 DEF Serial!vars, Serial!writerVars
<1> QED
  BY <1>1, <1>2, <1>3, <1>4, <1>5, <1>7, <1>8, <1>9 DEF Serial!Next, Serial!WriteEnds

LEMMA SerialTypeHolds == Serial!Spec => []Serial!TypeOK
<1>1. Serial!Init => FlagsTyped /\ LineTyped /\ OutputTyped
  <2> SUFFICES ASSUME Serial!Init PROVE FlagsTyped /\ LineTyped /\ OutputTyped
    OBVIOUS
  <2>1. FlagsTyped
    BY DEF Serial!Init, FlagsTyped
  <2>2. arrived = 0 /\ consumed = 0 /\ left = 0 /\ ret = 0 /\ outBuf = 0
    BY DEF Serial!Init
  <2> QED
    BY <2>1, <2>2, Bounds DEF LineTyped, OutputTyped
<1>2. SerialInv /\ FlagsTyped /\ LineTyped /\ OutputTyped => Serial!TypeOK
  BY DEF SerialInv, PortInv, FlagsTyped, LineTyped, OutputTyped, Serial!TypeOK
<1> QED
  BY <1>1, <1>2, FlagsStep, LineStep, OutputStep, SerialAlways, PTL DEF Serial!Spec


-----------------------------------------------------------------------------

\* The proxy: places and flags, its clock, and its queues.
PlaceTyped ==
  /\ pc \in {Proxy!At("open"), Proxy!At("check"), Proxy!At("select"), Proxy!At("exit")}
              \cup {Proxy!Serve(i) : i \in Proxy!Ports}
  /\ ready \subseteq Proxy!Ports /\ refused \in [Proxy!Ports -> BOOLEAN]
SendersTyped ==
  /\ steady \in {{}, SteadySenders} /\ spoke \subseteq Proxy!Senders /\ gone \subseteq Leavers
CountsTyped == openFails \in 0 .. 1 /\ signals \in 0 .. MaxSignals
Clock ==
  /\ wait \in 0 .. Quiet /\ age \in [Proxy!Ports -> Nat]
  /\ \A i \in Proxy!Ports :
       /\ conn[i] = Proxy!Nobody => age[i] = 0
       /\ age[i] <= 2 * Quiet
       /\ pc = Proxy!At("select") => age[i] <= Quiet + wait
SendersOf(i) == {x \in Proxy!Senders : Proxy!PortOf(x) = i}
Endpoints ==
  /\ DOMAIN conn = Proxy!Ports
  /\ \A i \in Proxy!Ports : conn[i] \in SendersOf(i) \cup {Proxy!Nobody}
Queues ==
  \A i \in Proxy!Ports :
    /\ \A k \in DOMAIN input[i] : Proxy!PortOf(input[i][k].from) = i
    /\ Len(input[i]) <= MaxQueue

LEMMA PlacesApart ==
  /\ Proxy!At("open") # Proxy!At("select") /\ Proxy!At("check") # Proxy!At("select")
  /\ Proxy!At("exit") # Proxy!At("select")
  /\ \A i \in Proxy!Ports : Proxy!Serve(i) # Proxy!At("select")
BY DEF Proxy!At, Proxy!Serve

LEMMA PlaceStep == PlaceTyped /\ [Proxy!Next]_(Proxy!vars) => PlaceTyped'
<1> SUFFICES ASSUME PlaceTyped, [Proxy!Next]_(Proxy!vars) PROVE PlaceTyped'
  OBVIOUS
<1> USE DEF PlaceTyped, Proxy!loopVars, Proxy!kernelVars
<1>1. CASE Proxy!Break
  BY <1>1 DEF Proxy!Break, Proxy!NotRefused
<1>2. CASE Proxy!Open \/ Proxy!OpenFails \/ Proxy!Check \/ Proxy!Interrupted
  BY <1>1, <1>2 DEF Proxy!Open, Proxy!OpenFails, Proxy!Check, Proxy!Interrupted
<1>3. CASE Proxy!Select
  <2>1. 1 \in Proxy!Ports /\ Proxy!Readable \subseteq Proxy!Ports
    BY DEF Proxy!Ports, Proxy!Readable
  <2> QED
    BY <1>1, <1>3, <2>1 DEF Proxy!Select
<1>4. ASSUME NEW i \in Proxy!Ports, Proxy!AfterPort(i)
      PROVE  pc' \in {Proxy!At("check")} \cup {Proxy!Serve(j) : j \in Proxy!Ports}
  BY <1>4 DEF Proxy!AfterPort, Proxy!Ports
<1>5. ASSUME NEW i \in Proxy!Ports, Proxy!Skip(i) \/ Proxy!ReceiveFails(i) PROVE PlaceTyped'
  BY <1>1, <1>4, <1>5 DEF Proxy!Skip, Proxy!ReceiveFails
<1>6. ASSUME NEW i \in Proxy!Ports, Proxy!Receive(i), ~Proxy!Break PROVE PlaceTyped'
  <2>1. Proxy!AfterPort(i) /\ ready' = ready
    BY <1>6 DEF Proxy!Receive
  <2>2. refused' = refused \/ \E b : /\ b = (Proxy!Forwards(Proxy!OtherPort(i))
                                              /\ conn[Proxy!OtherPort(i)] \in gone)
                                     /\ refused' = [refused EXCEPT ![Proxy!OtherPort(i)] = b]
    BY <1>6 DEF Proxy!Receive
  <2>3. refused' \in [Proxy!Ports -> BOOLEAN]
    <3>1. CASE Proxy!Forwards(Proxy!OtherPort(i)) /\ conn[Proxy!OtherPort(i)] \in gone
      <4>1. refused' = refused \/ refused' = [refused EXCEPT ![Proxy!OtherPort(i)] = TRUE]
        BY <2>2, <3>1, Zenon
      <4> QED
        BY <4>1
    <3>2. CASE ~(Proxy!Forwards(Proxy!OtherPort(i)) /\ conn[Proxy!OtherPort(i)] \in gone)
      <4>1. (Proxy!Forwards(Proxy!OtherPort(i)) /\ conn[Proxy!OtherPort(i)] \in gone) = FALSE
        BY <3>2
      <4>2. refused' = refused \/ refused' = [refused EXCEPT ![Proxy!OtherPort(i)] = FALSE]
        BY <2>2, <4>1
      <4> QED
        BY <4>2
    <3> QED
      BY <3>1, <3>2
  <2> QED
    BY <1>4, <2>1, <2>3
<1>7. CASE Proxy!Tick \/ \E x \in Proxy!Senders : Proxy!Send(x) \/ Proxy!Go(x)
  BY <1>7 DEF Proxy!Tick, Proxy!Send, Proxy!Go
<1>8. CASE UNCHANGED Proxy!vars
  BY <1>8 DEF Proxy!vars
<1> QED
  BY <1>1, <1>2, <1>3, <1>5, <1>6, <1>7, <1>8 DEF Proxy!Next, Proxy!Loop

LEMMA SendersStep == SendersTyped /\ CountsTyped /\ [Proxy!Next]_(Proxy!vars)
                       => SendersTyped' /\ CountsTyped'
<1> SUFFICES ASSUME SendersTyped, CountsTyped, [Proxy!Next]_(Proxy!vars)
             PROVE  SendersTyped' /\ CountsTyped'
  OBVIOUS
<1> USE DEF Proxy!senderVars, Proxy!countVars
<1>1. /\ UNCHANGED steady
      /\ \/ UNCHANGED spoke
         \/ spoke' = {}
         \/ \E x \in Proxy!Senders : spoke' = spoke \cup {x}
      /\ UNCHANGED gone \/ \E x \in Leavers : gone' = gone \cup {x}
      /\ UNCHANGED openFails \/ (openFails < 1 /\ openFails' = openFails + 1)
      /\ UNCHANGED signals \/ (signals < MaxSignals /\ signals' = signals + 1)
  <2>1. CASE Proxy!Loop
    BY <2>1 DEF Proxy!Loop, Proxy!Open, Proxy!OpenFails, Proxy!Check, Proxy!Select,
      Proxy!Interrupted, Proxy!Skip, Proxy!ReceiveFails, Proxy!Receive
  <2>2. CASE Proxy!Tick
    BY <2>2 DEF Proxy!Tick
  <2>3. CASE \E x \in Proxy!Senders : Proxy!Send(x) \/ Proxy!Go(x)
    BY <2>3 DEF Proxy!Send, Proxy!Go
  <2>4. CASE UNCHANGED Proxy!vars
    BY <2>4 DEF Proxy!vars
  <2> QED
    BY <2>1, <2>2, <2>3, <2>4 DEF Proxy!Next
<1>2. SendersTyped'
  BY <1>1 DEF SendersTyped
<1>3. CountsTyped'
  BY <1>1, Bounds DEF CountsTyped
<1> QED
  BY <1>2, <1>3

\* What a step does to the clock: a session ends, select begins to wait with
\* no quiet endpoint, a datagram is received, time goes by, or nothing.
Keeps == UNCHANGED <<conn, age, wait>>
Waits == /\ \A i \in Proxy!Ports : ~Proxy!Silent(i)
         /\ wait' = 0 /\ conn' = conn /\ age' = age
Takes(i) == /\ conn' = [conn EXCEPT ![i] = Proxy!Connected(i)]
            /\ age' = [age EXCEPT ![i] = 0] /\ wait' = wait
            /\ input[i] # <<>> /\ pc' # Proxy!At("select")
Ticks == /\ pc = Proxy!At("select") /\ pc' = pc /\ wait < Quiet
         /\ wait' = wait + 1 /\ conn' = conn
         /\ age' = [i \in Proxy!Ports |-> IF conn[i] = Proxy!Nobody THEN 0 ELSE age[i] + 1]

LEMMA ClockCases ==
  ASSUME PlaceTyped, [Proxy!Next]_(Proxy!vars)
  PROVE  \/ Proxy!Break \/ Waits \/ Ticks \/ \E i \in Proxy!Ports : Takes(i)
         \/ Keeps /\ (pc' = pc \/ pc' # Proxy!At("select"))
<1> USE DEF Proxy!loopVars
<1>1. ASSUME NEW i \in Proxy!Ports, Proxy!AfterPort(i) PROVE pc' # Proxy!At("select")
  BY <1>1, PlacesApart DEF Proxy!AfterPort, Proxy!Ports
<1>2. CASE Proxy!Open \/ Proxy!OpenFails \/ Proxy!Interrupted
  BY <1>2, PlacesApart DEF Proxy!Open, Proxy!OpenFails, Proxy!Interrupted, Keeps
<1>3. CASE Proxy!Check
  BY <1>3 DEF Proxy!Check, Waits
<1>4. CASE Proxy!Select
  <2>1. 1 \in Proxy!Ports
    BY DEF Proxy!Ports
  <2> QED
    BY <1>4, <2>1, PlacesApart DEF Proxy!Select, Keeps
<1>5. ASSUME NEW i \in Proxy!Ports, Proxy!Skip(i) \/ Proxy!ReceiveFails(i)
      PROVE  Proxy!Break \/ (Keeps /\ pc' # Proxy!At("select"))
  BY <1>1, <1>5 DEF Proxy!Skip, Proxy!ReceiveFails, Keeps
<1>6. ASSUME NEW i \in Proxy!Ports, Proxy!Receive(i) PROVE Proxy!Break \/ Takes(i)
  BY <1>1, <1>6 DEF Proxy!Receive, Takes
<1>7. CASE Proxy!Tick
  BY <1>7, PlacesApart DEF Proxy!Tick, Ticks, Keeps
<1>8. CASE \E x \in Proxy!Senders : Proxy!Send(x) \/ Proxy!Go(x)
  BY <1>8 DEF Proxy!Send, Proxy!Go, Keeps
<1>9. CASE UNCHANGED Proxy!vars
  BY <1>9 DEF Proxy!vars, Keeps
<1> QED
  BY <1>2, <1>3, <1>4, <1>5, <1>6, <1>7, <1>8, <1>9 DEF Proxy!Next, Proxy!Loop

LEMMA SenderNotNobody == \A x \in Proxy!Senders : x # Proxy!Nobody
BY MCPortsAssumption DEF Proxy!Senders, Proxy!Nobody

\* Whom a port is connected to after it has received.
LEMMA NewEndpoint ==
  ASSUME Endpoints, Queues, QueueInv, NEW i \in Proxy!Ports, Takes(i)
  PROVE  conn'[i] \in SendersOf(i)
<1>1. input[i] \in Seq(Datagrams) /\ input[i] # <<>>
  BY DEF QueueInv, Takes
<1>2. Head(input[i]) = input[i][1] /\ Head(input[i]) \in Datagrams /\ 1 \in DOMAIN input[i]
  BY <1>1
<1>3. Proxy!PortOf(Head(input[i]).from) = i
  BY <1>2 DEF Queues
<1>4. Head(input[i]).from \in Proxy!Senders
  BY <1>2 DEF Datagrams
<1>5. conn'[i] = Proxy!Connected(i)
  BY DEF Takes, Endpoints
<1> QED
  BY <1>3, <1>4, <1>5 DEF Proxy!Connected, Endpoints, SendersOf

LEMMA EndpointsStep ==
  PlaceTyped /\ QueueInv /\ Queues /\ Endpoints /\ [Proxy!Next]_(Proxy!vars) => Endpoints'
<1> SUFFICES ASSUME PlaceTyped, QueueInv, Queues, Endpoints, [Proxy!Next]_(Proxy!vars)
             PROVE  Endpoints'
  OBVIOUS
<1>1. CASE Proxy!Break
  BY <1>1 DEF Proxy!Break, Proxy!NoConn, Endpoints
<1>2. ASSUME conn' = conn PROVE Endpoints'
  BY <1>2 DEF Endpoints
<1>3. ASSUME NEW i \in Proxy!Ports, Takes(i) PROVE Endpoints'
  <2>1. conn'[i] \in SendersOf(i)
    BY <1>3, NewEndpoint
  <2> QED
    BY <1>3, <2>1 DEF Takes, Endpoints
<1> QED
  BY <1>1, <1>2, <1>3, ClockCases DEF Waits, Ticks, Keeps

LEMMA ClockStep ==
  PlaceTyped /\ QueueInv /\ Queues /\ Endpoints /\ Clock /\ [Proxy!Next]_(Proxy!vars) => Clock'
<1> SUFFICES ASSUME PlaceTyped, QueueInv, Queues, Endpoints, Clock, [Proxy!Next]_(Proxy!vars)
             PROVE  Clock'
  OBVIOUS
<1>1. CASE Proxy!Break
  BY <1>1, PlacesApart, Bounds DEF Proxy!Break, Clock
<1>2. CASE Waits
  BY <1>2, Bounds DEF Waits, Clock, Proxy!Silent
<1>3. CASE Ticks
  <2>1. wait' \in 0 .. Quiet /\ age' \in [Proxy!Ports -> Nat]
    BY <1>3, Bounds DEF Ticks, Clock
  <2>2. ASSUME NEW i \in Proxy!Ports
        PROVE  /\ conn'[i] = Proxy!Nobody => age'[i] = 0
               /\ age'[i] <= 2 * Quiet
               /\ age'[i] <= Quiet + wait'
    <3>1. age[i] \in Nat /\ wait \in Nat /\ age[i] <= Quiet + wait
      BY <1>3 DEF Ticks, Clock
    <3> QED
      BY <1>3, <3>1, Bounds DEF Ticks
  <2> QED
    BY <2>1, <2>2 DEF Clock
<1>4. ASSUME NEW i \in Proxy!Ports, Takes(i) PROVE Clock'
  <2>1. conn'[i] # Proxy!Nobody
    BY <1>4, NewEndpoint, SenderNotNobody DEF SendersOf
  <2>2. \A j \in Proxy!Ports : j # i => conn'[j] = conn[j] /\ age'[j] = age[j]
    BY <1>4 DEF Takes, Clock, Endpoints
  <2>3. age' \in [Proxy!Ports -> Nat] /\ age'[i] = 0 /\ wait' = wait
    BY <1>4 DEF Takes, Clock
  <2> QED
    BY <1>4, <2>1, <2>2, <2>3, Bounds DEF Takes, Clock
<1>5. ASSUME Keeps, pc' = pc \/ pc' # Proxy!At("select") PROVE Clock'
  BY <1>5 DEF Keeps, Clock
<1> QED
  BY <1>1, <1>2, <1>3, <1>4, <1>5, ClockCases

\* A datagram joins the queue of its sender's port only while there is room.
Joins(x) ==
  \E b \in BOOLEAN : LET i == Proxy!PortOf(x) IN
    Len(input[i]) < MaxQueue /\ input' = [input EXCEPT ![i] = Append(@, [from |-> x, empty |-> b])]

LEMMA QueuesStep == QueueInv /\ Queues /\ [Proxy!Next]_(Proxy!vars) => Queues'
<1> SUFFICES ASSUME QueueInv, Queues, [Proxy!Next]_(Proxy!vars) PROVE Queues'
  OBVIOUS
<1>1. CASE Proxy!Break
  BY <1>1, Bounds DEF Proxy!Break, Proxy!NoInput, Queues
<1>2. ASSUME input' = input PROVE Queues'
  BY <1>2 DEF Queues
<1>3. ASSUME NEW i \in Proxy!Ports, Taken(i) PROVE Queues'
  <2>1. input[i] \in Seq(Datagrams) /\ input[i] # <<>> /\ input'[i] = Tail(input[i])
    BY <1>3 DEF Taken, QueueInv
  <2>2. \A j \in Proxy!Ports : j # i => input'[j] = input[j]
    BY <1>3 DEF Taken, QueueInv
  <2>3. Len(Tail(input[i])) = Len(input[i]) - 1 /\ Len(input[i]) \in Nat
    BY <2>1
  <2>4. \A k \in DOMAIN Tail(input[i]) :
          Tail(input[i])[k] = input[i][k + 1] /\ k + 1 \in DOMAIN input[i]
    BY <2>1
  <2>5. Len(input'[i]) <= MaxQueue
    BY <2>1, <2>3, Bounds DEF Queues
  <2>6. \A k \in DOMAIN input'[i] : Proxy!PortOf(input'[i][k].from) = i
    BY <2>1, <2>4 DEF Queues
  <2> QED
    BY <2>2, <2>5, <2>6 DEF Queues
<1>4. ASSUME NEW x \in Proxy!Senders, Proxy!Send(x) PROVE Queues'
  <2>1. CASE Joins(x)
    <3>1. PICK b \in BOOLEAN :
            /\ Len(input[Proxy!PortOf(x)]) < MaxQueue
            /\ input' = [input EXCEPT ![Proxy!PortOf(x)] = Append(@, [from |-> x, empty |-> b])]
      BY <2>1 DEF Joins
    <3> DEFINE i == Proxy!PortOf(x)
               d == [from |-> x, empty |-> b]
    <3>2. i \in Proxy!Ports /\ d \in Datagrams
      BY DEF Proxy!PortOf, Proxy!Ports, Datagrams
    <3>3. d.from = x
      OBVIOUS
    <3>4. input[i] \in Seq(Datagrams) /\ input'[i] = Append(input[i], d)
      BY <3>1, <3>2 DEF QueueInv
    <3>5. \A j \in Proxy!Ports : j # i => input'[j] = input[j]
      BY <3>1, <3>2 DEF QueueInv
    <3> HIDE DEF d
    <3>6. /\ Len(Append(input[i], d)) = Len(input[i]) + 1
          /\ \A k \in DOMAIN Append(input[i], d) :
               \/ k \in DOMAIN input[i] /\ Append(input[i], d)[k] = input[i][k]
               \/ Append(input[i], d)[k] = d
      BY <3>2, <3>4
    <3>7. Len(input[i]) \in Nat
      BY <3>4
    <3>8. Len(input'[i]) <= MaxQueue
      BY <3>1, <3>4, <3>6, <3>7, Bounds
    <3>9. \A k \in DOMAIN input'[i] : Proxy!PortOf(input'[i][k].from) = i
      BY <3>2, <3>3, <3>4, <3>6 DEF Queues
    <3> HIDE DEF i
    <3> QED
      BY <3>5, <3>8, <3>9 DEF Queues
  <2>2. input' = input \/ Joins(x)
    BY <1>4 DEF Proxy!Send, Joins
  <2> QED
    BY <1>2, <2>1, <2>2
<1> QED
  BY <1>1, <1>2, <1>3, <1>4, LoopQueues, OtherQueues DEF Proxy!Next

ForwardTyped == forwarded \in Proxy!Senders \cup {Proxy!Nobody}

LEMMA ForwardStep == QueueInv /\ ForwardTyped /\ [Proxy!Next]_(Proxy!vars) => ForwardTyped'
<1> SUFFICES ASSUME QueueInv, ForwardTyped, [Proxy!Next]_(Proxy!vars) PROVE ForwardTyped'
  OBVIOUS
<1>1. ASSUME NEW i \in Proxy!Ports, Proxy!Receive(i) PROVE ForwardTyped'
  <2>1. input[i] # <<>> /\ input[i] \in Seq(Datagrams)
    BY <1>1 DEF Proxy!Receive, QueueInv
  <2>2. Head(input[i]) \in Datagrams
    BY <2>1
  <2>3. Head(input[i]).from \in Proxy!Senders
    BY <2>2 DEF Datagrams
  <2>4. forwarded' \in {Proxy!Nobody, Head(input[i]).from}
    BY <1>1 DEF Proxy!Receive
  <2> QED
    BY <2>3, <2>4 DEF ForwardTyped
<1>2. ASSUME forwarded' = Proxy!Nobody PROVE ForwardTyped'
  BY <1>2 DEF ForwardTyped
<1>3. ASSUME Proxy!Loop PROVE forwarded' = Proxy!Nobody \/ \E i \in Proxy!Ports : Proxy!Receive(i)
  BY <1>3 DEF Proxy!Loop, Proxy!Open, Proxy!OpenFails, Proxy!Check, Proxy!Select,
    Proxy!Interrupted, Proxy!Skip, Proxy!ReceiveFails
<1>4. CASE Proxy!Tick \/ \E x \in Proxy!Senders : Proxy!Send(x) \/ Proxy!Go(x)
  BY <1>2, <1>4 DEF Proxy!Tick, Proxy!Send, Proxy!Go
<1>5. CASE UNCHANGED Proxy!vars
  BY <1>5 DEF Proxy!vars, ForwardTyped
<1> QED
  BY <1>1, <1>2, <1>3, <1>4, <1>5 DEF Proxy!Next

ProxyInv ==
  /\ PlaceTyped /\ SendersTyped /\ CountsTyped /\ Clock /\ Endpoints /\ Queues /\ QueueInv
  /\ ForwardTyped

LEMMA ProxyInit == Proxy!Init => ProxyInv
<1> SUFFICES ASSUME Proxy!Init PROVE ProxyInv
  OBVIOUS
<1> USE DEF Proxy!Init
<1>1. PlaceTyped
  BY DEF PlaceTyped, Proxy!At, Proxy!NotRefused
<1>2. SendersTyped
  BY DEF SendersTyped
<1>3. CountsTyped
  BY Bounds DEF CountsTyped
<1>4. Clock
  BY Bounds DEF Clock
<1>5. Endpoints
  BY DEF Endpoints, Proxy!NoConn
<1>6. Queues
  <2>1. \A i \in Proxy!Ports : input[i] = <<>>
    BY DEF Proxy!NoInput
  <2>2. Len(<<>>) = 0 /\ DOMAIN <<>> = {}
    OBVIOUS
  <2> QED
    BY <2>1, <2>2, Bounds DEF Queues
<1>7. ForwardTyped
  BY DEF ForwardTyped
<1> QED
  BY <1>1, <1>2, <1>3, <1>4, <1>5, <1>6, <1>7, QueueInit DEF ProxyInv

LEMMA ProxyTypeHolds == Proxy!Spec => [](Proxy!TypeOK /\ Proxy!QuietBound)
<1>1. ProxyInv /\ [Proxy!Next]_(Proxy!vars) => ProxyInv'
  BY PlaceStep, SendersStep, EndpointsStep, ClockStep, QueuesStep, QueueStep, ForwardStep
     DEF ProxyInv
<1>2. ProxyInv => Proxy!TypeOK
  BY DEF ProxyInv, PlaceTyped, SendersTyped, CountsTyped, Clock, Endpoints, Queues,
         ForwardTyped, SendersOf, Proxy!TypeOK
<1>3. ProxyInv => Proxy!QuietBound
  BY DEF ProxyInv, Clock, Proxy!QuietBound
<1> QED
  BY <1>1, <1>2, <1>3, ProxyInit, PTL DEF Proxy!Spec

(***************************************************************************)
(* The three components keep their types, for every size and bound; and an *)
(* endpoint of the proxy is never quiet for longer than two waits of       *)
(* select: while select waits, an endpoint's quiet is at most the 10 s it  *)
(* may have had before and the wait, and the wait is at most 10 s.         *)
(***************************************************************************)
THEOREM TypeTheorem == Spec => []TypeOK
  BY Components, PowerTypeHolds, SerialTypeHolds, ProxyTypeHolds, PTL DEF TypeOK
=============================================================================
