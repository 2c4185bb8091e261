-------------------------------- MODULE DcsPep --------------------------------
(***************************************************************************)
(* The policy enforcement points of the Go backend: what a caller is shown *)
(* of each field of a film, a spectator or a hall once a decision has been *)
(* taken.  A field value is abstracted to the form in which it leaves the  *)
(* backend:                                                                *)
(*   "clear"   the plaintext            "masked"  a masked plaintext       *)
(*   "cipher"  the stored ciphertext    "null"    nothing                  *)
(***************************************************************************)
EXTENDS DcsPolicy

Forms == {"clear", "masked", "cipher", "null"}

NothingShown == [f \in {} |-> "null"]

FieldsOf(type) ==
  CASE type = "film"      -> {"time_elapsed"}
    [] type = "spectator" -> {"name", "age", "external_id"}
    [] type = "hall"      -> {"owner_user_id", "current_film_id"}

\* The action a decision holds for a field, "none" when it holds none.
ActionIn(d, f) == IF f \in DOMAIN d.fields THEN d.fields[f] ELSE "none"

\* (A slip: a field without an action is denied, as it is for spectators.)
FilmFormDenies(d, dcs, f) ==
  CASE ~d.allow                                               -> "null"
    [] d.allow /\ ~dcs                                        -> "cipher"
    [] d.allow /\ dcs /\ ActionIn(d, f) = "decrypt"            -> "clear"
    [] d.allow /\ dcs /\ ActionIn(d, f) = "mask_after_decrypt" -> "masked"
    [] d.allow /\ dcs /\ ActionIn(d, f) = "allow"              -> "cipher"
    [] OTHER                                                  -> "null"

\* FilmApplier.Apply and the payload EnforceFilmRead keeps of it.  The
\* applier reads the DCS mode again: dcs is what it reads.
FilmForm(d, dcs, f) ==
  CASE ~d.allow                                               -> "null"
    [] d.allow /\ ~dcs                                        -> "cipher"
    [] d.allow /\ dcs /\ ActionIn(d, f) = "decrypt"            -> "clear"
    [] d.allow /\ dcs /\ ActionIn(d, f) = "mask_after_decrypt" -> "masked"
    [] d.allow /\ dcs /\ ActionIn(d, f) = "deny"               -> "null"
    [] OTHER                                                  -> "cipher"

\* (A slip: the plaintext is decrypted and the mask forgotten.)
SpectatorFormUnmasked(d, f) ==
  IF d.allow /\ ActionIn(d, f) \in {"decrypt", "mask_after_decrypt"} THEN "clear" ELSE "null"

\* SpectatorApplier.Apply: a field without a usable action is denied.
SpectatorForm(d, f) ==
  CASE d.allow /\ ActionIn(d, f) = "decrypt"            -> "clear"
    [] d.allow /\ ActionIn(d, f) = "mask_after_decrypt" -> "masked"
    [] OTHER                                            -> "null"

\* EnforceHallRead: neither the verdict nor a deny is looked at.
HallForm(d, f) ==
  IF ActionIn(d, f) = "mask_after_decrypt" THEN "masked" ELSE "clear"

Enforce(type, d, dcs) ==
  [f \in FieldsOf(type) |->
     CASE type = "film"      -> FilmForm(d, dcs, f)
       [] type = "spectator" -> SpectatorForm(d, f)
       [] type = "hall"      -> HallForm(d, f)]

\* The creations encrypt what they were given, whatever the mode.
EncryptingActions == {"film.create", "spectator.create"}

ReadActionNames == {"film.read", "spectator.read", "hall.read"}

\* Enforcement calls the KMS, and fails when the KMS does.
NeedsKms(action, type, d, dcs) ==
  \/ action \in EncryptingActions /\ d.allow
  \/ /\ action \in {"film.read", "spectator.read"}
     /\ \E f \in FieldsOf(type) : Enforce(type, d, dcs)[f] \in {"clear", "masked"}

\* The answers a caller can get: what it is shown of each field for a read,
\* the verdict for anything else, an error when the KMS fails.
Answers(action, type, d, dcs) ==
  {IF action \in ReadActionNames
   THEN [outcome |-> "shown", shown |-> Enforce(type, d, dcs)]
   ELSE [outcome |-> IF d.allow THEN "permitted" ELSE "forbidden", shown |-> NothingShown]}
  \cup {a \in {[outcome |-> "error", shown |-> NothingShown]} :
          NeedsKms(action, type, d, dcs)}
=============================================================================
