----------------------------- MODULE TlsChannel -----------------------------
(***************************************************************************)
(* What the kse library promises the two programs of one direction of a    *)
(* TLS channel: records come in the order they were sent, without a gap    *)
(* and without a repetition, until the channel breaks; a broken channel    *)
(* delivers nothing until a new connection replaces it.  Records are the   *)
(* numbers 1, 2, ... of their sending.                                     *)
(***************************************************************************)
EXTENDS Naturals

VARIABLES
  put,     \* records the peer has sent on the present connection
  got,     \* the last record handed to the program
  whole    \* the channel still delivers

channelVars == <<put, got, whole>>

ChannelInit == put = 0 /\ got = 0 /\ whole = FALSE

Put == put' = put + 1 /\ UNCHANGED <<got, whole>>

Deliver ==
  /\ whole /\ got < put
  /\ got' = got + 1
  /\ UNCHANGED <<put, whole>>

Break == whole' = FALSE /\ UNCHANGED <<put, got>>

Renew == put' = 0 /\ got' = 0 /\ whole' \in BOOLEAN

ChannelNext == Put \/ Deliver \/ Break \/ Renew

ChannelSpec == ChannelInit /\ [][ChannelNext]_channelVars
=============================================================================
