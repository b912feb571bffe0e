------------------------------ MODULE UdpProxy -----------------------------
(***************************************************************************)
(* udpproxy.c: datagrams between two ports.  On each port the sender of    *)
(* the first datagram becomes the port's endpoint (connect), and what one  *)
(* endpoint sends goes to the other.  When either has been quiet for 10 s, *)
(* or anything fails, both sockets are closed and opened again.            *)
(*                                                                         *)
(* Time goes by while select waits; a tick is a part of the 10 s, which    *)
(* are Quiet ticks.  External: the kernel, which queues what any sender    *)
(* sends to a socket that is not connected, only the endpoint's datagrams  *)
(* to one that is, and reports with the next call on a connected socket    *)
(* that the endpoint's port is closed; and the senders.                    *)
(***************************************************************************)
EXTENDS Integers, Sequences

CONSTANTS
  Senders1, Senders2,  \* who sends to each port
  Regular,     \* sets of senders, one of which sends in every tick
  Leavers,     \* senders that may go for good; none of them is regular
  Quiet,       \* the 10 seconds, in ticks
  MaxQueue,    \* bound: datagrams in a socket's queue
  MaxFails,    \* bound: openings that fail
  MaxSignals   \* bound: signals that interrupt select

Senders == Senders1 \cup Senders2
Ports == 1 .. 2
PortOf(x) == IF x \in Senders1 THEN 1 ELSE 2
OtherPort(i) == 3 - i
Nobody == "nobody"

VARIABLES
  pc,        \* "open", "check", "select", "serve" with a port, or "exit"
  ready,     \* the fds select has returned
  conn,      \* the endpoint of each port (have_conn1, have_conn2)
  age,       \* ticks since last_pkt1, last_pkt2
  wait,      \* ticks select has waited
  input,     \* kernel: the queue of each socket
  refused,   \* kernel: an endpoint's port has been found closed
  steady,    \* the senders that send in every tick
  spoke,     \* senders that have sent in the present tick
  gone,      \* senders that have gone
  fails, signals,  \* openings that have failed, signals that have come
  forwarded  \* history: the last step sent a datagram of this sender on

loopVars == <<ready, conn, age, wait>>
kernelVars == <<input, refused>>
senderVars == <<steady, spoke, gone>>
countVars == <<fails, signals>>
vars == <<pc, loopVars, kernelVars, senderVars, countVars, forwarded>>

NoConn == [i \in Ports |-> Nobody]
NoInput == [i \in Ports |-> <<>>]
NotRefused == [i \in Ports |-> FALSE]

Init ==
  /\ pc = [at |-> "open", port |-> 0] /\ ready = {} /\ conn = NoConn
  /\ age = [i \in Ports |-> 0] /\ wait = 0
  /\ input = NoInput /\ refused = NotRefused
  /\ steady \in Regular /\ spoke = {} /\ gone = {} /\ fails = 0 /\ signals = 0 /\ forwarded = Nobody

At(place) == [at |-> place, port |-> 0]
Serve(i) == [at |-> "serve", port |-> i]

Readable == {i \in Ports : input[i] # <<>> \/ refused[i]}

-----------------------------------------------------------------------------

\* Mutant: only the connections are forgotten, the sockets live on.
BreakConnected ==
  /\ pc' = At("check") /\ conn' = NoConn /\ refused' = NotRefused
  /\ age' = [i \in Ports |-> 0] /\ ready' = {} /\ wait' = 0
  /\ UNCHANGED input

\* main_loop returns: both sockets are closed.
Break ==
  /\ pc' = At("open") /\ conn' = NoConn /\ input' = NoInput /\ refused' = NotRefused
  /\ age' = [i \in Ports |-> 0] /\ ready' = {} /\ wait' = 0

Open ==
  /\ pc = At("open") /\ pc' = At("check")
  /\ UNCHANGED <<loopVars, kernelVars, senderVars, countVars>> /\ forwarded' = Nobody

\* No socket, or a port that another program has: the process ends.
OpenFails ==
  /\ pc = At("open") /\ fails < MaxFails /\ fails' = fails + 1
  /\ pc' = At("exit")
  /\ UNCHANGED <<loopVars, kernelVars, senderVars, signals>> /\ forwarded' = Nobody

\* Mutant: one endpoint that speaks is enough.
SilentBoth(i) ==
  \A j \in Ports : conn[j] # Nobody /\ age[j] > Quiet

\* Whether port i's endpoint has been quiet for too long.
Silent(i) == conn[i] # Nobody /\ age[i] > Quiet

Check ==
  /\ pc = At("check")
  /\ IF \E i \in Ports : Silent(i) THEN Break
     ELSE pc' = At("select") /\ wait' = 0 /\ UNCHANGED <<ready, conn, age, kernelVars>>
  /\ UNCHANGED <<senderVars, countVars>> /\ forwarded' = Nobody

\* select returns with input, or at the end of the wait.
Select ==
  /\ pc = At("select")
  /\ \/ /\ Readable # {} /\ ready' = Readable /\ pc' = Serve(1)
        /\ UNCHANGED <<conn, age, wait, kernelVars>>
     \/ Readable = {} /\ wait = Quiet /\ Break
  /\ UNCHANGED <<senderVars, countVars>> /\ forwarded' = Nobody

\* EINTR: the loop goes on, and the wait begins again.
Interrupted ==
  /\ pc = At("select") /\ signals < MaxSignals /\ signals' = signals + 1
  /\ pc' = At("check")
  /\ UNCHANGED <<loopVars, kernelVars, senderVars, fails>> /\ forwarded' = Nobody

\* Where the loop goes after port i.
AfterPort(i) == pc' = (IF i = 1 THEN Serve(2) ELSE At("check"))

\* FD_ISSET is false.
Skip(i) ==
  /\ pc = Serve(i) /\ i \notin ready
  /\ AfterPort(i)
  /\ UNCHANGED <<loopVars, kernelVars, senderVars, countVars>> /\ forwarded' = Nobody

\* recvfrom brings an error or a datagram without data.
ReceiveFails(i) ==
  /\ pc = Serve(i) /\ i \in ready
  /\ refused[i] \/ (input[i] # <<>> /\ Head(input[i]).empty)
  /\ Break
  /\ UNCHANGED <<senderVars, countVars>> /\ forwarded' = Nobody

\* The sender of a port's first datagram becomes its endpoint.
Connected(i) == IF conn[i] = Nobody THEN Head(input[i]).from ELSE conn[i]

\* Mutant: nothing is sent to an endpoint that has been quiet for too long.
ForwardsTo(j) == conn[j] # Nobody /\ ~Silent(j)

\* Whether what the other port receives is sent to port j's endpoint.
Forwards(j) == conn[j] # Nobody

Receive(i) ==
  /\ pc = Serve(i) /\ i \in ready /\ ~refused[i]
  /\ input[i] # <<>> /\ ~Head(input[i]).empty
  /\ LET j == OtherPort(i) IN
       IF refused[j] THEN Break /\ forwarded' = Nobody
       ELSE /\ conn' = [conn EXCEPT ![i] = Connected(i)]
            /\ age' = [age EXCEPT ![i] = 0]
            /\ input' = [input EXCEPT ![i] = Tail(@)]
            /\ forwarded' = (IF Forwards(j) THEN Head(input[i]).from ELSE Nobody)
            /\ refused' \in {refused, [refused EXCEPT ![j] = Forwards(j) /\ conn[j] \in gone]}
            /\ AfterPort(i) /\ UNCHANGED <<ready, wait>>
  /\ UNCHANGED <<senderVars, countVars>>

-----------------------------------------------------------------------------
(* Senders, the kernel and time.                                           *)

\* A datagram comes to an open socket of its port that is not connected to
\* another sender, and whose queue is not full; else it is lost.
Send(x) ==
  /\ x \notin spoke \cup gone /\ spoke' = spoke \cup {x}
  /\ \E empty \in (IF x \in steady THEN {FALSE} ELSE BOOLEAN) :
       LET i == PortOf(x) IN
         input' = IF pc.at \notin {"open", "exit"} /\ conn[i] \in {Nobody, x}
                     /\ Len(input[i]) < MaxQueue
                  THEN [input EXCEPT ![i] = Append(@, [from |-> x, empty |-> empty])]
                  ELSE input
  /\ forwarded' = Nobody
  /\ UNCHANGED <<pc, loopVars, refused, steady, gone, countVars>>

Go(x) ==
  /\ x \in Leavers \ gone /\ gone' = gone \cup {x}
  /\ forwarded' = Nobody
  /\ UNCHANGED <<pc, loopVars, kernelVars, steady, spoke, countVars>>

\* The other steps take no time.
Tick ==
  /\ \/ pc = At("exit")
     \/ pc = At("select") /\ Readable = {} /\ wait < Quiet
  /\ steady \subseteq spoke /\ spoke' = {}
  /\ IF pc = At("exit") THEN UNCHANGED <<age, wait>>
     ELSE wait' = wait + 1 /\ age' = [i \in Ports |-> IF conn[i] = Nobody THEN 0 ELSE age[i] + 1]
  /\ forwarded' = Nobody
  /\ UNCHANGED <<pc, ready, conn, kernelVars, steady, gone, countVars>>

-----------------------------------------------------------------------------

Loop ==
  \/ Open \/ OpenFails \/ Check \/ Select \/ Interrupted
  \/ \E i \in Ports : Skip(i) \/ ReceiveFails(i) \/ Receive(i)

Next == Loop \/ Tick \/ \E x \in Senders : Send(x) \/ Go(x)

Spec == Init /\ [][Next]_vars

\* The proxy is scheduled, time goes by, and the steady senders send.
FairSpec ==
  /\ Spec /\ WF_vars(Loop) /\ WF_vars(Tick)
  /\ \A x \in Senders : WF_vars(x \in steady /\ Send(x))

-----------------------------------------------------------------------------

TypeOK ==
  /\ pc \in {At("open"), At("check"), At("select"), At("exit")} \cup {Serve(i) : i \in Ports}
  /\ ready \subseteq Ports /\ wait \in 0 .. Quiet /\ age \in [Ports -> Nat]
  /\ \A i \in Ports : /\ conn[i] \in {x \in Senders : PortOf(x) = i} \cup {Nobody}
                      /\ \A k \in DOMAIN input[i] : PortOf(input[i][k].from) = i
                      /\ Len(input[i]) <= MaxQueue
  /\ refused \in [Ports -> BOOLEAN] /\ steady \in Regular /\ spoke \subseteq Senders /\ gone \subseteq Leavers
  /\ fails \in 0 .. MaxFails /\ signals \in 0 .. MaxSignals
  /\ forwarded \in Senders \cup {Nobody}

(***************************************************************************)
(* The quiet of an endpoint is noticed within 20 s, not 10: at 10 s sharp  *)
(* it is not long enough, and select waits another 10 s.                   *)
(***************************************************************************)
QuietBound == \A i \in Ports : age[i] <= 2 * Quiet

(***************************************************************************)
(* A datagram that is received while both ports have their endpoint is     *)
(* sent on, or the session ends with it.                                   *)
(***************************************************************************)
NothingDropped ==
  [][\A i \in Ports :
       conn[1] # Nobody /\ conn[2] # Nobody /\ Len(input'[i]) < Len(input[i])
         => forwarded' # Nobody \/ pc'.at = "open"]_vars

(***************************************************************************)
(* An endpoint that has gone, whether the kernel reports it or not, gives  *)
(* its port to a sender that still sends, and the steady senders of the    *)
(* two ports are connected with each other, unless the process ends.       *)
(***************************************************************************)
SteadyConnected ==
  \A x \in Senders1, y \in Senders2 :
    gone = Leavers /\ steady = {x, y} ~> (conn[1] = x /\ conn[2] = y) \/ pc = At("exit")
=============================================================================
