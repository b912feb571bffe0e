------------------------------- MODULE MCKse -------------------------------
(***************************************************************************)
(* Finite instance of the commands of the kse library: the device's memory *)
(* of keys (KseKeys), of certificates, and of the info file (KseCerts with *)
(* two sets of constants), ciphers (KseCiphers) and hashes (KseHash).      *)
(*                                                                         *)
(* The initial state chooses one of the five; it takes all the steps, and  *)
(* what is not its own stays as it began.  So every behaviour of each is a *)
(* behaviour of this module, and none mixes two: an answer that is late    *)
(* for a command of another group is not covered.                          *)
(***************************************************************************)
EXTENDS Integers

CONSTANTS
  MayFail,  \* one transfer of the run may fail
  KeyKinds, KeyValues, KeyIndices, HmacSizes, Rooms,  \* KseKeys
  CertValues, CertIndices, CertArrays, CertCuts,      \* KseCerts: certificates
  FileValues, FileIndices, FileArrays, FileCuts,      \* and the info file
  MAX_IO, MaxSize, MaxCalls, Base, Counters,          \* KseCiphers
  HASH_IO, HashSize, HashCalls, HashKeys              \* KseHash

\* A full chunk and a full part do not fit one report.
ASSUME MCKseAssumption ==
  /\ MayFail \in BOOLEAN
  /\ {MaxSize, MaxCalls, HashSize, HashCalls} \subseteq Nat
  /\ MAX_IO \in Nat /\ MAX_IO > 2 /\ HASH_IO \in Nat /\ HASH_IO > 2
  /\ Base \in Nat \ {0} /\ Counters \subseteq 0 .. Base * Base - 1
  /\ KeyIndices \cup CertIndices \cup FileIndices \cup CertCuts \cup FileCuts
       \cup HmacSizes \cup Rooms \cup CertArrays \cup FileArrays \cup HashKeys \subseteq Nat

VARIABLES
  part,                       \* the group of commands
  power, ret, late, failed,   \* KseExchange
  store, told, last,          \* KseStore
  \* KseCiphers
  pc, call, job, output, done, iv, behind,
  \* KseHash
  hashPc, hashCall, hashJob, pos, digest, dev, hashBehind

KeyStore == INSTANCE KseKeys WITH
  KeyTypes <- KeyKinds, Values <- KeyValues, Indices <- KeyIndices
CertStore == INSTANCE KseCerts WITH
  Values <- CertValues, Indices <- CertIndices, Arrays <- CertArrays, Cuts <- CertCuts
InfoFile == INSTANCE KseCerts WITH
  Values <- FileValues, Indices <- FileIndices, Arrays <- FileArrays, Cuts <- FileCuts
Ciphers == INSTANCE KseCiphers
Hash == INSTANCE KseHash WITH
  MAX_IO <- HASH_IO, MaxSize <- HashSize, MaxCalls <- HashCalls, Keys <- HashKeys,
  pc <- hashPc, call <- hashCall, job <- hashJob, output <- digest, behind <- hashBehind

exchangeVars == <<power, ret, late, failed>>
storeVars == <<store, told, last>>
cipherVars == <<pc, call, job, output, done, iv, behind>>
hashVars == <<hashPc, hashCall, hashJob, pos, digest, dev, hashBehind>>
vars == <<part, exchangeVars, storeVars, cipherVars, hashVars>>

Init ==
  /\ Ciphers!Init /\ Hash!Init
  /\ \/ part \in {"keys", "ciphers", "hash"} /\ KeyStore!Init
     \/ part = "certs" /\ CertStore!Init
     \/ part = "file" /\ InfoFile!Init

Next ==
  /\ UNCHANGED part
  /\ \/ part = "keys" /\ KeyStore!Next /\ UNCHANGED <<cipherVars, hashVars>>
     \/ part = "certs" /\ CertStore!Next /\ UNCHANGED <<cipherVars, hashVars>>
     \/ part = "file" /\ InfoFile!Next /\ UNCHANGED <<cipherVars, hashVars>>
     \/ part = "ciphers" /\ Ciphers!Next /\ UNCHANGED <<storeVars, hashVars>>
     \/ part = "hash" /\ Hash!Next /\ UNCHANGED <<storeVars, cipherVars>>

Spec == Init /\ [][Next]_vars

-----------------------------------------------------------------------------

TypeOK ==
  /\ part \in {"keys", "ciphers", "hash"} => KeyStore!TypeOK
  /\ part = "certs" => CertStore!TypeOK
  /\ part = "file" => InfoFile!TypeOK
  /\ Ciphers!TypeOK /\ Hash!TypeOK

(***************************************************************************)
(* Sizes are right on both sides (KseStore): what is stored has the size   *)
(* of its type, and no answer, however late and of whatever length, is     *)
(* copied beyond the caller's array.                                       *)
(***************************************************************************)
SizesRight == TypeOK /\ KeyStore!NoOverrun

(***************************************************************************)
(* What the host knows (KseStore): until a transfer fails it is right      *)
(* about all slots it has been told of, but for the size of a generated    *)
(* HMAC key.  After that the success of a command that writes is still     *)
(* true if it has more than one block or leaves no report unread.          *)
(***************************************************************************)
KnownIsStored == KeyStore!KnownIsStored /\ KeyStore!SuccessIsTrue

(***************************************************************************)
(* What the documentation says of the size of a generated HMAC key         *)
(* (KseStore).                                                             *)
(***************************************************************************)
GeneratedSize == KeyStore!GeneratedSize

(***************************************************************************)
(* Ciphers (KseCiphers): chunks give what the whole message would give,    *)
(* at every point of a call that takes no late answer, and success means   *)
(* that all of it is done.                                                 *)
(***************************************************************************)
PrefixExact == Ciphers!PrefixExact /\ (part = "ciphers" => Ciphers!SuccessIsWhole)

(***************************************************************************)
(* Hashes (KseHash): a result is of the whole message and the right key,   *)
(* but for a one-step call that takes a late answer, and a computation in  *)
(* several steps is this call's.                                           *)
(***************************************************************************)
ResultOfMessage == part = "hash" => Hash!ResultOfMessage /\ Hash!ComputationIsOwn

(***************************************************************************)
(* After a failed transfer a late answer is taken for a command's own only *)
(* where that and its command are short: in the last chunk of a cipher     *)
(* (KseCiphers), never in a hash of several steps (KseHash).               *)
(***************************************************************************)
LateOnlyShort == Ciphers!MixedOnlyAtEnd /\ Hash!SeveralStepsOwn
=============================================================================
