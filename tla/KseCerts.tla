----------------------------- MODULE KseCerts ------------------------------
(***************************************************************************)
(* The commands of the kse library for certificates and their keys         *)
(* (kse_ubuntu.c 2313-2873) and for the info file (969-1054).  A step is   *)
(* one command (KseStore).                                                 *)
(*                                                                         *)
(* An index holds a private key, a public key and a certificate.  A        *)
(* certificate names the index of the authority that has signed it, and    *)
(* the device takes a public key from it when it can verify it; that the   *)
(* device does as kse_ubuntu.c 2696-2698 say is assumed.  The info file is *)
(* cut into regions at the offsets and ends the reads and writes use.      *)
(***************************************************************************)
EXTENDS KseStore, FiniteSetsExt

CONSTANTS
  Values,     \* bound: contents of keys, certificates and file regions
  Indices,    \* bound: usCertIndex, some of them too large
  Arrays,     \* bound: *pusSize, the caller's array for a field
  Cuts        \* bound: offsets in the info file, some of them beyond its end

MAX_CERT_KEY_COUNT == 96
MAX_IO_DATA_SIZE == 2944
MAX_INFO_FILE_SIZE == 8192

Valid == Indices \cap 0 .. MAX_CERT_KEY_COUNT - 1
\* The region that begins at a cut ends at the next.
Regions == {c \in Cuts : c < MAX_INFO_FILE_SIZE}
EndOf(c) == Min({d \in Cuts : d > c})

Pri(i) == <<"PRI", i>>
Pub(i) == <<"PUB", i>>
Cert(i) == <<"CERT", i>>
Info(c) == <<"INFO", c>>
Slots == {"PRI", "PUB", "CERT"} \X Valid \cup {Info(c) : c \in Regions}

Init == InitWith([s \in Slots |-> Empty])

\* What the slots (those that exist) are to hold, v, with n bytes.
All(slots, n, v) == [s \in slots \cap Slots |-> Content(n, v)]
\* What the device says of slots.
Said(slots) == [s \in slots \cap Slots |-> store[s]]

\* The types of key a command takes, and others.
Internal == {"INT_DEV_ECDSA", "INT_DEV_ECDH", "INT_DEV_ECC"}
External == {"EXT_DEV_ECDSA", "EXT_DEV_ECDH", "EXT_DEV_ECC"}
KeyTypes == Internal \cup External \cup {"EXT_CA_ECDSA"}

InRange(i) == i < MAX_CERT_KEY_COUNT

-----------------------------------------------------------------------------
(* Keys and certificates.                                                  *)

\* _certGenerateKeypair
GenerateKeypair ==
  \E type \in KeyTypes, i \in Indices :
    LET new == Over(All({Pri(i)}, 32, "GENERATED"), All({Pub(i)}, 64, "GENERATED"))
    IN  Store(type \in Internal /\ InRange(i), 5, new, new)

\* _certPutPriKey
PutPriKey ==
  \E type \in KeyTypes, i \in Indices, v \in Values :
    LET new == All({Pri(i)}, 32, v)
    IN  Store(type \in External /\ InRange(i), 37, new, new)

\* _certPutPubKey
PutPubKey ==
  \E type \in KeyTypes, i \in Indices, v \in Values :
    LET new == All({Pub(i)}, 64, v)
    IN  Store(type \in External \cup {"EXT_CA_ECDSA"} /\ InRange(i), 69, new, new)

\* _certPutCert
PutCert ==
  \E i \in Indices, v \in Values :
    LET new == All({Cert(i)}, 500, v) IN Store(InRange(i), 504, new, new)

\* _certPutCertPubKey: the certificate and the key in it.
PutCertPubKey ==
  \E i, ca \in Indices, v \in Values :
    LET new == Over(All({Cert(i)}, 500, v), All({Pub(i)}, 64, v))
    IN  Store(InRange(i) /\ InRange(ca), 506, new, new)

\* The SELECT_ options.
Erased(opt, i) ==
  CASE opt = "SELECT_CERT" -> {Cert(i)}
    [] opt = "SELECT_PUB_KEY" -> {Pub(i)}
    [] opt = "SELECT_PRI_KEY" -> {Pri(i)}
    [] opt = "SELECT_ALL" -> {Cert(i), Pub(i), Pri(i)}
    [] OTHER -> {}

\* _certEraseCertKey
EraseCertKey ==
  \E opt \in {"SELECT_CERT", "SELECT_PUB_KEY", "SELECT_PRI_KEY", "SELECT_ALL", "0"}, i \in Indices :
    LET new == [s \in Erased(opt, i) \cap Slots |-> Empty]
    IN  Store(opt # "0" /\ InRange(i), 5, new, new)

-----------------------------------------------------------------------------

\* A command that returns n bytes about one slot of an index: its state too,
\* if the slot may be empty, else it is refused.
GetSlot(kind, n, evenEmpty) ==
  \E i \in Indices :
    LET slots == {<<kind, i>>} \cap Slots
    IN  FetchExactly(InRange(i), 4, n,
                     {Answer(n, Said(slots)) : s \in {t \in slots : evenEmpty \/ store[t] # Empty}},
                     slots)

\* _certGetPriKey, _certGetPubKey: the state of the key, and the key.
GetPriKey == GetSlot("PRI", 33, TRUE)
GetPubKey == GetSlot("PUB", 65, TRUE)
\* _certGetCert
GetCert == GetSlot("CERT", 500, FALSE)

\* _certGetPriKeyState, _certGetPubKeyCsr and _certGetCertField: something
\* about a slot and not what is in it.
GetPriKeyState ==
  \E i \in Indices : FetchExactly(InRange(i), 4, 1, {Answer(1, NoData)}, {})
GetPubKeyCsr ==
  \E i \in Indices : FetchExactly(InRange(i), 4, 500, {Answer(500, NoData)}, {})
GetCertField ==
  \E field \in {"CERT_SN", "CERT_BC", "beyond CERT_BC"}, i \in Indices, array \in Arrays :
    Fetch(field # "beyond CERT_BC" /\ InRange(i), 5, Nat \ {0, 1},
          {Answer(n, NoData) : n \in {0, 16, 64}}, array, {})

-----------------------------------------------------------------------------
(* The info file.                                                          *)

InFile(offset, size) == size <= MAX_IO_DATA_SIZE /\ offset + size <= MAX_INFO_FILE_SIZE

\* The regions from offset to offset + size.
Covered(offset, size) == {Info(c) : c \in {r \in Regions : offset <= r /\ EndOf(r) <= offset + size}}

\* _kseReadInfoFile
ReadInfoFile ==
  \E offset \in Cuts : \E size \in {c - offset : c \in {d \in Cuts : d >= offset}} :
    FetchExactly(InFile(offset, size), 6, size,
                 {Answer(size, Said(Covered(offset, size)))}, Covered(offset, size))

\* Mutant: the offset and the size are swapped (the two commands take them in
\* different orders).
WriteInfoFileSwapped ==
  \E offset \in Cuts, v \in Values : \E size \in {c - offset : c \in {d \in Cuts : d >= offset}} :
    Store(InFile(offset, size), size + 6,
          All(Covered(size, offset), 0, v), All(Covered(offset, size), 0, v))

\* _kseWriteInfoFile
WriteInfoFile ==
  \E offset \in Cuts, v \in Values : \E size \in {c - offset : c \in {d \in Cuts : d >= offset}} :
    LET new == All(Covered(offset, size), 0, v)
    IN  Store(InFile(offset, size), size + 6, new, new)

-----------------------------------------------------------------------------

Next == \/ GenerateKeypair \/ PutPriKey \/ PutPubKey \/ PutCert \/ PutCertPubKey
        \/ EraseCertKey \/ GetPriKey \/ GetPubKey \/ GetCert
        \/ GetPriKeyState \/ GetPubKeyCsr \/ GetCertField
        \/ ReadInfoFile \/ WriteInfoFile

Spec == Init /\ [][Next]_vars

-----------------------------------------------------------------------------

\* Keys and certificates in the device have their sizes.
TypeOK ==
  /\ ExchangeTypeOK /\ DOMAIN told = Slots
  /\ \A s \in Slots :
       \/ store[s] = Empty
       \/ /\ store[s].value \in Values \cup {"GENERATED"}
          /\ store[s].size = (CASE s[1] = "PRI" -> 32 [] s[1] = "PUB" -> 64
                               [] s[1] = "CERT" -> 500 [] OTHER -> 0)
=============================================================================
