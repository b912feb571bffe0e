------------------------------ MODULE KsePower -----------------------------
(***************************************************************************)
(* Powering the device on and off (kse_ubuntu.c 721-967), over the life of *)
(* a server process.  DimServer::open powers on.  If that fails it throws, *)
(* the constructor catches the exception (dim_server.h 17-24), and main    *)
(* starts the relay threads all the same, on a device without power; they  *)
(* do not try again.  A SIGINT makes the handler close the channel, power  *)
(* off and exit, while the threads go on (server.cpp 5-20).  A process may *)
(* also be killed, at any point; who starts the next one is the operator   *)
(* (server.sh kills, resets the hub and starts once).                      *)
(*                                                                         *)
(* The device outlives the processes: whether it is on, and the answers it *)
(* has ready, which nothing takes away from it but a read.  A step is a    *)
(* transfer, or what comes between two.  External: the device and libusb,  *)
(* which closes what a process leaves open.                                *)
(***************************************************************************)
EXTENDS Integers, Sequences

CONSTANTS
  Workers,       \* relay threads that use the device
  MaxKills,      \* bound: processes killed
  MaxExits,      \* bound: SIGINTs
  MaxFails,      \* bound: transfers and openings that fail
  AnswersAgain   \* whether the device answers a second POWER ON as the first

VARIABLES
  main,     \* where the main thread or the signal handler is: "none" without a
            \* process, "run" and "unpowered" while the relay threads run
  wpc,      \* where each worker is: "idle", "send", "read"
  handle,   \* ghDev: "null", "open", "claimed", or "closed" and not yet NULL
  context,  \* libusb_init has been called, and not libusb_exit
  power,    \* gusKsePower
  devOn,    \* device: powered on
  queue,    \* device: answers it has ready
  kills, exits, fails,  \* how many so far
  stray     \* history: a transfer has been given no open handle

procVars == <<main, wpc>>
usbVars == <<handle, context, power>>
devVars == <<devOn, queue>>
countVars == <<kills, exits, fails>>
vars == <<procVars, usbVars, devVars, countVars, stray>>

\* What main does before and after the threads run, in this order.
Starting == {"init", "claim", "on send", "on read"}
Exiting == {"close send", "close read", "off send", "off read", "release", "clear", "exit"}
\* Answers: of POWER ON (31 bytes), of POWER OFF, of another command, and a
\* refusal (the last three may have 2).
AnswerKinds == {"on", "off", "data", "refused"}

UsbClosed == handle' = "null" /\ context' = FALSE /\ power' = FALSE

NoProcess == main' = "none" /\ wpc' = [w \in Workers |-> "idle"] /\ UsbClosed

Init ==
  /\ main = "none" /\ wpc = [w \in Workers |-> "idle"]
  /\ handle = "null" /\ context = FALSE /\ power = FALSE
  /\ devOn = FALSE /\ queue = <<>> /\ kills = 0 /\ exits = 0 /\ fails = 0 /\ stray = FALSE

-----------------------------------------------------------------------------
(* Transfers.                                                              *)

\* The device gets a command and has its answer ready.
DeviceGets(command) ==
  /\ devOn' = (IF command = "data" THEN devOn ELSE command = "on")
  /\ \E answer \in (IF command = "on" /\ devOn /\ ~AnswersAgain THEN {"refused"}
                    ELSE {command} \cup (IF command = "data" THEN {"refused"} ELSE {})) :
       queue' = Append(queue, answer)

Reads == queue # <<>> /\ queue' = Tail(queue) /\ UNCHANGED devOn
\* A transfer fails: what the device has ready stays.
TransferFails == fails < MaxFails /\ fails' = fails + 1 /\ UNCHANGED <<devVars, kills, exits>>
\* The device has nothing ready.
TimesOut == queue = <<>> /\ UNCHANGED <<devVars, countVars>>

-----------------------------------------------------------------------------
(* _ksePowerOn.                                                            *)

\* By hand, or by server.sh, which turns the device's USB port off and on.
Start ==
  /\ main = "none" /\ main' = "init"
  /\ UNCHANGED devVars \/ (devOn' = FALSE /\ queue' = <<>>)
  /\ UNCHANGED <<wpc, usbVars, countVars, stray>>

\* _ksePowerOn fails: _usbClose, _ksePowerOff (which finds the power off), and an
\* exception, which DimServer::DimServer catches; the threads are started.
StartsUnpowered == main' = "unpowered" /\ UsbClosed /\ UNCHANGED wpc

\* libusb_init, the search for the device or libusb_open fails.
OpenFails ==
  /\ main = "init" /\ fails < MaxFails /\ fails' = fails + 1
  /\ StartsUnpowered /\ UNCHANGED <<devVars, kills, exits, stray>>

Open ==
  /\ main = "init" /\ main' = "claim"
  /\ handle' = "open" /\ context' = TRUE
  /\ UNCHANGED <<wpc, power, devVars, countVars, stray>>

\* The kernel's driver cannot be detached, or the interface not claimed.
ClaimFails ==
  /\ main = "claim" /\ fails < MaxFails /\ fails' = fails + 1
  /\ StartsUnpowered /\ UNCHANGED <<devVars, kills, exits, stray>>

Claim ==
  /\ main = "claim" /\ main' = "on send" /\ handle' = "claimed"
  /\ UNCHANGED <<wpc, context, power, devVars, countVars, stray>>

PowerOnSend ==
  /\ main = "on send"
  /\ \/ DeviceGets("on") /\ main' = "on read" /\ UNCHANGED <<wpc, usbVars, countVars>>
     \/ TransferFails /\ StartsUnpowered
  /\ UNCHANGED stray

\* Mutant: the status is left out of the length that is expected.
PowerOnAnswerShort(answer) == answer = "off"

\* Success and a length of 31.
PowerOnAnswer(answer) == answer = "on"

\* Powered on, bind and listen; what their failure closes is like a command of a
\* thread, and the process goes on with the device on.
PowerOnRead ==
  /\ main = "on read"
  /\ \/ /\ Reads
        /\ IF PowerOnAnswer(Head(queue))
           THEN main' = "run" /\ power' = TRUE /\ UNCHANGED <<wpc, handle, context>>
           ELSE StartsUnpowered
        /\ UNCHANGED countVars
     \/ (TransferFails \/ TimesOut) /\ StartsUnpowered
  /\ UNCHANGED stray

-----------------------------------------------------------------------------
(* The relay threads.                                                      *)

Running == main \in {"run", "unpowered"} \cup Exiting

\* A command passes its check of gusKsePower, and _kseTransceive that of ghDev.
Command(w) ==
  /\ Running /\ wpc[w] = "idle" /\ power /\ handle # "null"
  /\ wpc' = [wpc EXCEPT ![w] = "send"]
  /\ UNCHANGED <<main, usbVars, devVars, countVars, stray>>

\* The transfer is given a handle that is closed or NULL: undefined, here the
\* process ends.
Stray(w) ==
  /\ wpc[w] # "idle" /\ handle # "claimed"
  /\ stray' = TRUE /\ NoProcess
  /\ UNCHANGED <<devVars, countVars>>

\* Mutant: after a failed transfer the device is closed, and the command sent
\* again.
CommandFailsCloses(w) ==
  /\ wpc[w] # "idle" /\ handle = "claimed"
  /\ TransferFails \/ (wpc[w] = "read" /\ TimesOut)
  /\ wpc' = [wpc EXCEPT ![w] = "send"]
  /\ handle' = "null" /\ context' = FALSE /\ power' = FALSE
  /\ UNCHANGED <<main, stray>>

CommandFails(w) ==
  /\ wpc[w] # "idle" /\ handle = "claimed"
  /\ TransferFails \/ (wpc[w] = "read" /\ TimesOut)
  /\ wpc' = [wpc EXCEPT ![w] = "idle"]
  /\ UNCHANGED <<main, usbVars, stray>>

CommandSend(w) ==
  /\ wpc[w] = "send" /\ handle = "claimed" /\ DeviceGets("data")
  /\ wpc' = [wpc EXCEPT ![w] = "read"]
  /\ UNCHANGED <<main, usbVars, countVars, stray>>

CommandRead(w) ==
  /\ wpc[w] = "read" /\ handle = "claimed" /\ Reads
  /\ wpc' = [wpc EXCEPT ![w] = "idle"]
  /\ UNCHANGED <<main, usbVars, countVars, stray>>

-----------------------------------------------------------------------------
(* The handler of SIGINT: DimSocket::close, power_off and exit.            *)

\* Without power neither sends anything.
Signal ==
  /\ \/ main = "run" /\ main' = "close send"
     \/ main = "unpowered" /\ main' = "exit"
  /\ exits < MaxExits /\ exits' = exits + 1
  /\ UNCHANGED <<wpc, usbVars, devVars, kills, fails, stray>>

\* tls_close, whose result is not looked at.
CloseSend ==
  /\ main = "close send"
  /\ \/ DeviceGets("data") /\ main' = "close read" /\ UNCHANGED countVars
     \/ TransferFails /\ main' = "off send"
  /\ UNCHANGED <<wpc, usbVars, stray>>

CloseRead ==
  /\ main = "close read" /\ main' = "off send"
  /\ (Reads /\ UNCHANGED countVars) \/ TransferFails \/ TimesOut
  /\ UNCHANGED <<wpc, usbVars, stray>>

\* _ksePowerOff ends in _usbClose whatever becomes of its command.
PowerOffSend ==
  /\ main = "off send"
  /\ \/ DeviceGets("off") /\ main' = "off read" /\ UNCHANGED countVars
     \/ TransferFails /\ main' = "release"
  /\ UNCHANGED <<wpc, usbVars, stray>>

PowerOffRead ==
  /\ main = "off read" /\ main' = "release"
  /\ (Reads /\ UNCHANGED countVars) \/ TransferFails \/ TimesOut
  /\ UNCHANGED <<wpc, usbVars, stray>>

\* _usbClose: libusb is done with the handle before the two are cleared.
Release ==
  /\ main = "release" /\ main' = "clear"
  /\ handle' = "closed" /\ context' = FALSE
  /\ UNCHANGED <<wpc, power, devVars, countVars, stray>>

\* Mutant: gusKsePower is left on.
ClearHandleOnly ==
  /\ main = "clear" /\ main' = "exit" /\ handle' = "null"
  /\ UNCHANGED <<wpc, context, power, devVars, countVars, stray>>

Clear ==
  /\ main = "clear" /\ main' = "exit" /\ handle' = "null" /\ power' = FALSE
  /\ UNCHANGED <<wpc, context, devVars, countVars, stray>>

Exit == main = "exit" /\ NoProcess /\ UNCHANGED <<devVars, countVars, stray>>

\* The operator replaces a server without power, as often as he likes.
Replace == main = "unpowered" /\ NoProcess /\ UNCHANGED <<devVars, countVars, stray>>

Kill ==
  /\ main # "none" /\ kills < MaxKills /\ kills' = kills + 1
  /\ NoProcess /\ UNCHANGED <<devVars, exits, fails, stray>>

-----------------------------------------------------------------------------

PowerOn == OpenFails \/ Open \/ ClaimFails \/ Claim \/ PowerOnSend \/ PowerOnRead
Handler == CloseSend \/ CloseRead \/ PowerOffSend \/ PowerOffRead \/ Release \/ Clear \/ Exit
Worker(w) == Command(w) \/ Stray(w) \/ CommandFails(w) \/ CommandSend(w) \/ CommandRead(w)
Next == Start \/ PowerOn \/ Signal \/ Handler \/ Replace \/ Kill
          \/ \E w \in Workers : Worker(w)

Spec == Init /\ [][Next]_vars

\* Every thread that can go on does, and transfers have a timeout.  Nothing of the
\* code makes the operator start or replace a server.
FairSpec == Spec /\ WF_vars(PowerOn) /\ WF_vars(Handler)
                 /\ \A w \in Workers : WF_vars(Worker(w))

-----------------------------------------------------------------------------

TypeOK ==
  /\ main \in {"none", "run", "unpowered"} \cup Starting \cup Exiting
  /\ wpc \in [Workers -> {"idle", "send", "read"}]
  /\ handle \in {"null", "open", "claimed", "closed"} /\ context \in BOOLEAN
  /\ power \in BOOLEAN /\ ((power \/ \E w \in Workers : wpc[w] # "idle") => Running)
  /\ devOn \in BOOLEAN /\ queue \in Seq(AnswerKinds)
  /\ kills \in 0 .. MaxKills /\ exits \in 0 .. MaxExits /\ fails \in 0 .. MaxFails /\ stray \in BOOLEAN

(***************************************************************************)
(* gusKsePower, ghDev and libusb go together: powered on means an open and *)
(* claimed handle, but while _usbClose runs; no way out of power-on or     *)
(* power-off leaves one of them behind, and threads that have been started *)
(* without power have no handle.                                           *)
(***************************************************************************)
UsbConsistent ==
  /\ power <=> handle = "closed" \/ (handle = "claimed" /\ main \notin Starting)
  /\ (handle \in {"open", "claimed"}) <=> context
  /\ main \in {"none", "init", "unpowered", "exit"} => handle = "null"

(***************************************************************************)
(* While the relay threads run and gusKsePower says that the device is on, *)
(* it is, although the answer that made the library say so may have been   *)
(* an earlier process's.                                                   *)
(***************************************************************************)
PoweredMeansOn == power /\ main \in {"run", "unpowered"} => devOn

(***************************************************************************)
(* A thread uses the device without a handle only in the course of an exit *)
(* by SIGINT, which does not wait for the threads.                         *)
(***************************************************************************)
StrayOnlyAtExit == [][stray' # stray => main \in {"clear", "exit"}]_vars

(***************************************************************************)
(* A server that failed to power on does not try again.  But if the device *)
(* answers a second POWER ON (AnswersAgain), an operator who never leaves  *)
(* off starting and replacing gets one that is powered, without a reset of *)
(* the hub, too: every start that takes a late answer for its own fails    *)
(* and leaves its own for the next.                                        *)
(***************************************************************************)
LeftToOperator == main \in {"none", "unpowered"}
PoweredAgain == []<>~LeftToOperator => []<>(main = "run")
=============================================================================
