------------------------------ MODULE DcsDefaults ------------------------------
(***************************************************************************)
(* The DCS configuration that config.Defaults returns                      *)
(* (internal/dcs/config/config.go), as values for the constants of         *)
(* DcsPolicy.                                                              *)
(***************************************************************************)
LOCAL INSTANCE Sequences
LOCAL INSTANCE TLC

MCReadActions      == {"film.read", "hall.read", "spectator.read"}
MCWriteActions     == {"film.create", "hall.create", "spectator.create",
                       "film.update_time", "search.spectator"}
MCBootstrapActions == {"bootstrap"}
MCAuditActions     == {"audit.read", "perf.read"}
MCClasses          == {"PUBLIC", "INTERNAL", "SENSITIVE", "PII"}
MCHardeningFields  == {"name", "external_id"}

ByClass(public, internal, sensitive, pii) ==
  ("PUBLIC" :> public) @@ ("INTERNAL" :> internal) @@
  ("SENSITIVE" :> sensitive) @@ ("PII" :> pii)

MCRoleMatrix ==
  ("admin"     :> ByClass("allow", "allow", "decrypt", "decrypt")) @@
  ("agent"     :> ByClass("allow", "allow", "decrypt", "mask_after_decrypt")) @@
  ("developer" :> ByClass("allow", "mask_after_decrypt", "mask_after_decrypt", "mask_after_decrypt"))

\* Requests may come with a role the configuration does not list.
MCLower == [r \in {"admin", "agent", "developer", "visitor"} |-> r]

User(role) == [tenant |-> "t1", user |-> "u-" \o role, role |-> role]
=============================================================================
