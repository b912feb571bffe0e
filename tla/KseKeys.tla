------------------------------ MODULE KseKeys ------------------------------
(***************************************************************************)
(* The KCMVP key commands of the kse library (kse_ubuntu.c 1075-1374,      *)
(* 2239-2309): generate, put, get and erase a key in the device's          *)
(* nonvolatile memory, random numbers, key exchange and the state of the   *)
(* device's library.  A step is one command (KseStore).                    *)
(*                                                                         *)
(* A key is its size and its value, one of a small set; GENERATED is the   *)
(* value of a key the device makes, and SizeIgnored that of an HMAC key it *)
(* makes.                                                                  *)
(***************************************************************************)
EXTENDS KseStore, FiniteSetsExt

CONSTANTS
  KeyTypes,  \* bound: the types of key in use
  Values,    \* bound: the values of keys
  Indices,   \* bound: usKeyIndex, some of them too large
  HmacSizes, \* bound: sizes of HMAC keys, some of them too large
  Rooms      \* bound: *pusKeySize, the caller's array

MAX_KCMVP_KEY_COUNT == 8
Cipher == {"AES128", "AES192", "AES256", "ARIA128", "ARIA192", "ARIA256"}
Pairs == {"ECDSA_KEYPAIR", "ECDH_KEYPAIR"}
Private == {"ECDSA_PRI_KEY", "ECDH_PRI_KEY"}
Public == {"ECDSA_PUB_KEY", "ECDH_PUB_KEY"}

\* Sizes the documentation and the checks of PutKey and GetKey give.
SizesOf(type) ==
  CASE type \in {"AES128", "ARIA128"} -> {16}
    [] type \in {"AES192", "ARIA192"} -> {24}
    [] type \in {"AES256", "ARIA256"} \cup Private -> {32}
    [] type \in Public -> {64}
    [] type = "HMAC" -> HmacSizes \cap 0 .. 255
    [] OTHER -> {}

Generated == "GENERATED"

Slots == (KeyTypes \ Pairs) \X (Indices \cap 0 .. MAX_KCMVP_KEY_COUNT - 1)
SizesPut == UNION {SizesOf(t) : t \in KeyTypes} \cup HmacSizes

\* The slots a type stands for: a pair is a private and a public key.
SlotsOf(type, i) ==
  {s \in Slots : s[2] = i /\ s[1] \in (CASE type = "ECDSA_KEYPAIR" -> {"ECDSA_PRI_KEY", "ECDSA_PUB_KEY"}
                                         [] type = "ECDH_KEYPAIR" -> {"ECDH_PRI_KEY", "ECDH_PUB_KEY"}
                                         [] OTHER -> {type})}

Init == InitWith([s \in Slots |-> Empty])

-----------------------------------------------------------------------------

\* _kcmvpGenerateKey.  The host asks for an HMAC key of n bytes; the two bytes
\* of the size are filled with usKeyIndex, and the device makes one of i bytes.
GenerateKey ==
  \E type \in KeyTypes, i \in Indices, n \in HmacSizes :
    LET Made(hmacSize) == [s \in SlotsOf(type, i) |->
                             IF type = "HMAC" THEN Content(hmacSize, SizeIgnored)
                             ELSE Content(Min(SizesOf(s[1])), Generated)]
    IN  Store(/\ type \in Cipher \cup {"HMAC"} \cup Pairs
              /\ i < MAX_KCMVP_KEY_COUNT
              /\ type = "HMAC" => n <= 255,
              IF type = "HMAC" THEN 7 ELSE 5, Made(i), Made(n))

\* _kcmvpPutKey
PutKey ==
  \E type \in KeyTypes, i \in Indices, n \in SizesPut, v \in Values :
    LET new == [s \in SlotsOf(type, i) |-> Content(n, v)]
    IN  Store(/\ type \notin Pairs
              /\ i < MAX_KCMVP_KEY_COUNT
              /\ n \in SizesOf(type),
              n + (IF type = "HMAC" THEN 7 ELSE 5), new, new)

\* _kcmvpEraseKey
EraseKey ==
  \E type \in KeyTypes, i \in Indices :
    LET new == [s \in SlotsOf(type, i) |-> Empty]
    IN  Store(type \notin Pairs /\ i < MAX_KCMVP_KEY_COUNT, 5, new, new)

-----------------------------------------------------------------------------

\* The lengths of answer GetKey accepts.  The last of its conditions has != for
\* ==, so the length of an HMAC key is not limited to 255.
GetKeyLens(type) ==
  IF type = "HMAC" THEN Nat ELSE {n + 2 : n \in SizesOf(type)} \cap 2 .. 257

\* _kcmvpGetKey.  An array of size 0 also stands for none (NULL_PTR).
GetKey ==
  \E type \in KeyTypes, i \in Indices, array \in Rooms :
    Fetch(type \notin Pairs /\ i < MAX_KCMVP_KEY_COUNT, 5, GetKeyLens(type),
          {Answer(store[s].size, [t \in {s} |-> store[t]]) :
             s \in {t \in SlotsOf(type, i) : store[t] # Empty}},
          array, SlotsOf(type, i))

\* _kcmvpDrbg, _kcmvpEcdhExchKey and _kcmvpGetClibState return data that is
\* in no slot.
Drbg ==
  \E n \in {0, 1, 256, 257} :
    FetchExactly(n # 0 /\ n <= 256, 4, n, {Answer(n, NoData)}, {})
EcdhExchKey ==
  \E i \in Indices : FetchExactly(i < MAX_KCMVP_KEY_COUNT, 68, 64, {Answer(64, NoData)}, {})
GetClibState == FetchExactly(TRUE, 2, 20, {Answer(20, NoData)}, {})

-----------------------------------------------------------------------------

Next == \/ GenerateKey \/ PutKey \/ EraseKey \/ GetKey
        \/ Drbg \/ EcdhExchKey \/ GetClibState

Spec == Init /\ [][Next]_vars

-----------------------------------------------------------------------------

\* Keys in the device are of their type's size (an HMAC key that it made
\* itself: of the size that was sent).
TypeOK ==
  /\ ExchangeTypeOK /\ DOMAIN told = Slots
  /\ \A s \in Slots : \/ store[s] = Empty
                       \/ store[s].size \in SizesOf(s[1])
                       \/ (s[1] = "HMAC" /\ store[s] = Content(s[2], SizeIgnored))
=============================================================================
