---------------------------------- MODULE Kms ----------------------------------
(***************************************************************************)
(* The two key management clients the Go backend can start with            *)
(* (internal/dcs/kms): Vault Transit, and the local mock that only encodes.*)
(* Both write ciphertexts with the same prefix, so nothing in a table says *)
(* which of them wrote a value; a ciphertext is its author and its text.   *)
(***************************************************************************)
CONSTANTS
  Idents,       \* external identifiers as they are typed
  Norm,         \* identifier -> identifier: trimmed and in upper case
  Garbage,      \* what a ciphertext decodes to that the client did not write
  PepperAt,     \* path in Vault KV -> pepper
  LocalPepper   \* the static pepper of the mock

ASSUME KmsAssumption ==
  /\ Norm \in [Idents -> Idents]
  /\ \A i \in Idents : Norm[Norm[i]] = Norm[i]
  /\ Garbage \notin Idents
  /\ \A path \in DOMAIN PepperAt : PepperAt[path] # LocalPepper

Clients == {"vault", "local"}

Peppers == {PepperAt[path] : path \in DOMAIN PepperAt} \cup {LocalPepper}

Ciphertext == [by : Clients, text : Idents]

Encrypted(client, text) == [by |-> client, text |-> text]

\* Vault refuses what its key did not encrypt; the mock decodes anything.
Decrypts(client, ct) == client = "local" \/ ct.by = "vault"

Plaintext(client, ct) == IF ct.by = client THEN ct.text ELSE Garbage

\* (A slip: the digest is that of the identifier as typed.)
LookupVerbatim(pepper, ident) == [pepper |-> pepper, ident |-> ident]

\* (A slip: the digest is not keyed.)
LookupUnkeyed(pepper, ident) == [pepper |-> LocalPepper, ident |-> Norm[ident]]

\* ComputeHMACLookup of the normalised identifier, taken to be injective.
Lookup(pepper, ident) == [pepper |-> pepper, ident |-> Norm[ident]]

Lookups == [pepper : Peppers, ident : Idents]
=============================================================================
