------------------------------ MODULE MCPorts ------------------------------
(***************************************************************************)
(* Finite instance of the components that have a port to the outside: the  *)
(* USB handle of the server's process (KsePower), its serial port          *)
(* (SerialPort), and the sockets of the UDP proxy (UdpProxy).  They share  *)
(* no state, so no interleaving of two of them adds anything to either:    *)
(* the initial state chooses one, the others stay as they began, and every *)
(* behaviour of each is a behaviour of this module.                        *)
(***************************************************************************)
EXTENDS Integers

CONSTANTS
  Workers, MaxKills, MaxExits, MaxFails, AnswersAgain,
  MaxInput, MsgLen, Room,
  Senders1, Senders2, SteadySenders, Leavers, Quiet, MaxQueue, MaxSignals

ASSUME MCPortsAssumption ==
  /\ {MaxKills, MaxExits, MaxFails, MaxInput, MaxSignals} \subseteq Nat
  /\ {MsgLen, Room, Quiet, MaxQueue} \subseteq Nat \ {0}
  /\ Senders1 \cap Senders2 = {} /\ SteadySenders \cap Leavers = {}
  /\ "nobody" \notin Senders1 \cup Senders2

VARIABLES
  part,  \* the component that takes steps
  main, wpc, handle, context, power, devOn, queue, kills, exits, fails, stray,
  phase, fd, flags, nonblock, hungup, arrived, consumed, rpc, revents, quiet,
  writer, left, outBuf, ret,
  pc, ready, conn, age, wait, input, refused, steady, spoke, gone, openFails,
  signals, forwarded

Power == INSTANCE KsePower
Serial == INSTANCE SerialPort WITH wpc <- writer
Proxy == INSTANCE UdpProxy WITH Regular <- {{}, SteadySenders}, MaxFails <- 1, fails <- openFails

powerVars == <<main, wpc, handle, context, power, devOn, queue, kills, exits, fails, stray>>
serialVars == <<phase, fd, flags, nonblock, hungup, arrived, consumed, rpc, revents, quiet,
                writer, left, outBuf, ret>>
proxyVars == <<pc, ready, conn, age, wait, input, refused, steady, spoke, gone, openFails,
               signals, forwarded>>
vars == <<part, powerVars, serialVars, proxyVars>>

Init == /\ part \in {"power", "serial", "proxy"}
        /\ Power!Init /\ Serial!Init /\ Proxy!Init
        /\ part # "proxy" => steady = {}

Moves(p, next) == part = p /\ next /\ UNCHANGED part

Next ==
  \/ Moves("power", Power!Next) /\ UNCHANGED <<serialVars, proxyVars>>
  \/ Moves("serial", Serial!Next) /\ UNCHANGED <<powerVars, proxyVars>>
  \/ Moves("proxy", Proxy!Next) /\ UNCHANGED <<powerVars, serialVars>>

Spec == Init /\ [][Next]_vars

\* The fairness of each component.
FairSpec ==
  /\ Spec
  /\ WF_powerVars(part = "power" /\ Power!PowerOn)
  /\ WF_powerVars(part = "power" /\ Power!Handler)
  /\ \A w \in Workers : WF_powerVars(part = "power" /\ Power!Worker(w))
  /\ WF_serialVars(part = "serial" /\ Serial!Reader)
  /\ SF_serialVars(part = "serial" /\ Serial!Poll)
  /\ WF_serialVars(part = "serial" /\ Serial!WriteEnds)
  /\ WF_serialVars(part = "serial" /\ Serial!Drain)
  /\ WF_proxyVars(part = "proxy" /\ Proxy!Loop)
  /\ WF_proxyVars(part = "proxy" /\ Proxy!Tick)
  /\ \A x \in Senders1 \cup Senders2 : WF_proxyVars(part = "proxy" /\ x \in steady /\ Proxy!Send(x))

-----------------------------------------------------------------------------

\* Each component keeps its types; so the proxy does its bound on quiet endpoints.
TypeOK == Power!TypeOK /\ Serial!TypeOK /\ Proxy!TypeOK /\ Proxy!QuietBound

(***************************************************************************)
(* Of the power (KsePower): handle, library and gusKsePower go together,   *)
(* and a device that is taken for powered is on; an operator who keeps     *)
(* replacing servers without power gets one with it; the handle is used    *)
(* after its end only in the course of an exit.                            *)
(***************************************************************************)
UsbConsistent == Power!UsbConsistent /\ Power!PoweredMeansOn
PoweredAgain == part = "power" => Power!PoweredAgain
StrayOnlyAtExit == Power!StrayOnlyAtExit

(***************************************************************************)
(* Of the serial port (SerialPort): the reader does not stop in its read;  *)
(* input is read, and the writer comes back.                               *)
(***************************************************************************)
ReaderNeverBlocks == Serial!ReaderNeverBlocks
PortMoves == Serial!InputConsumed /\ Serial!WriteReturns

(***************************************************************************)
(* What is not sent on is accounted for: the serial port cuts messages     *)
(* short only in the windows its reader opens, and the proxy (UdpProxy)    *)
(* drops no datagram while both its endpoints are known.                   *)
(***************************************************************************)
CutOnlyByReader == Serial!CutOnlyByReader /\ Proxy!NothingDropped

(***************************************************************************)
(* Of the proxy: senders that keep sending are connected in the end,       *)
(* whoever has gone before.                                                *)
(***************************************************************************)
SteadyConnected == Proxy!SteadyConnected
=============================================================================
