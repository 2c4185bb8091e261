------------------------------ MODULE DcsPolicy ------------------------------
(***************************************************************************)
(* The policy decision point of the Go backend (internal/dcs/pdp): which   *)
(* actions a role may perform and, for every classified field of the       *)
(* resource, what enforcement must do with it.  Everything here is a pure  *)
(* function of the policy input and of the PDP section of the DCS          *)
(* configuration, which is a constant of the module.                       *)
(*                                                                         *)
(* A map keyed by field names is a function whose domain is the set of the *)
(* fields present.  A decision's hash is a digest of the decision, so the  *)
(* decision stands for its own hash.                                       *)
(***************************************************************************)
CONSTANTS
  FieldNames,       \* names of classified fields
  Classes,          \* classification labels
  ReadActions, WriteActions, BootstrapActions, AuditActions,
  RoleMatrix,       \* role -> classification -> configured action string
  Lower,            \* strings.ToLower on the roles
  HardeningFields,  \* spectator fields an agent never sees in clear
  DefaultClass      \* classification of a field whose own is empty

FieldAction == {"allow", "decrypt", "mask_after_decrypt", "deny"}

\* All maps from some of the keys in S to values in T.
PartialMaps(S, T) == UNION {[D -> T] : D \in SUBSET S}

NoFields == [f \in {} |-> "deny"]

ClassMap  == PartialMaps(FieldNames, Classes)
ActionMap == PartialMaps(FieldNames, FieldAction)

-----------------------------------------------------------------------------
(* Who may do what.                                                        *)

\* The first action list of the configuration that contains the action.
ListOf(action) ==
  IF action \in ReadActions THEN "read"
  ELSE IF action \in WriteActions THEN "write"
  ELSE IF action \in BootstrapActions THEN "bootstrap"
  ELSE IF action \in AuditActions THEN "audit"
  ELSE "unknown"

\* The rule applied while DCS is off.
AllowWithoutDCS(action, role) ==
  \/ ListOf(action) \in {"read", "bootstrap"}
  \/ ListOf(action) = "write" /\ role \in {"agent", "admin"}
  \/ ListOf(action) = "audit" /\ role = "admin"

\* (A slip: writes are as free as reads.)
VerdictForgetsRole(action, role) ==
  IF ListOf(action) = "unknown"
  THEN [allow |-> FALSE, reason |-> "unknown_action"]
  ELSE [allow |-> TRUE, reason |-> "read_allowed"]

\* The rule applied while DCS is on, with the reason it reports.
Verdict(action, role) ==
  CASE ListOf(action) = "read"      -> [allow |-> TRUE, reason |-> "read_allowed"]
    [] ListOf(action) = "bootstrap" -> [allow |-> TRUE, reason |-> "bootstrap_allowed"]
    [] ListOf(action) = "write"     ->
         IF role = "agent" \/ role = "admin"
         THEN [allow |-> TRUE,  reason |-> "write_allowed"]
         ELSE [allow |-> FALSE, reason |-> "write_forbidden"]
    [] ListOf(action) = "audit"     ->
         IF role = "admin"
         THEN [allow |-> TRUE,  reason |-> "audit_allowed"]
         ELSE [allow |-> FALSE, reason |-> "audit_admin_only"]
    [] ListOf(action) = "unknown"   -> [allow |-> FALSE, reason |-> "unknown_action"]

-----------------------------------------------------------------------------
(* What happens to each field.                                             *)

\* An action string the code does not know means deny.
ParseFieldAction(s) == IF s \in FieldAction THEN s ELSE "deny"

\* Roles and classifications missing from the matrix mean deny.
ActionForClassification(role, class) ==
  LET row == Lower[role] IN
  IF row \in DOMAIN RoleMatrix /\ class \in DOMAIN RoleMatrix[row]
  THEN ParseFieldAction(RoleMatrix[row][class])
  ELSE "deny"

Hardened(in, f) ==
  in.type = "spectator" /\ in.principal.role = "agent" /\ f \in HardeningFields

FieldActionsFor(in) ==
  [f \in DOMAIN in.fields |->
     IF Hardened(in, f) THEN "mask_after_decrypt"
     ELSE ActionForClassification(
            in.principal.role,
            IF in.fields[f] = "" THEN DefaultClass ELSE in.fields[f])]

-----------------------------------------------------------------------------
(* Decisions.                                                              *)

Reasons ==
  {"read_allowed", "bootstrap_allowed", "write_allowed", "write_forbidden",
   "audit_allowed", "audit_admin_only", "unknown_action", "default_deny",
   "tenant_mismatch", "dcs_off"}

Decision == [allow : BOOLEAN, reason : Reasons, fields : ActionMap]

\* (A slip: a denial carries no map of field actions at all.)
BareDenial(reason) == [allow |-> FALSE, reason |-> reason]

Denial(reason) == [allow |-> FALSE, reason |-> reason, fields |-> NoFields]

\* Engine.decide: the full policy.
Decide(in) ==
  LET v == Verdict(in.action, in.principal.role) IN
  IF in.principal.tenant # in.tenant THEN Denial("tenant_mismatch")
  ELSE IF ~v.allow THEN Denial(v.reason)
  ELSE [allow |-> TRUE, reason |-> v.reason, fields |-> FieldActionsFor(in)]

\* What Engine.Evaluate computes on a cache miss, dcs being the mode it reads.
Evaluate(dcs, in) ==
  IF dcs THEN Decide(in)
  ELSE [allow  |-> AllowWithoutDCS(in.action, in.principal.role),
        reason |-> "dcs_off",
        fields |-> NoFields]

\* The decisions a policy input can receive in one mode or the other.
Decisions(in) == {Evaluate(dcs, in) : dcs \in BOOLEAN}

CacheableActions == {"film.read", "film.update_time", "film.create"}

\* (A slip: the signature of the classifications is left out.)
KeyWithoutFields(dcs, in) ==
  [dcs |-> dcs, action |-> in.action, principal |-> in.principal,
   type |-> in.type, fields |-> NoFields]

\* (A slip: whoever asks, the entry is shared with the administrator.)
KeyWithoutRole(dcs, in) ==
  [dcs |-> dcs, action |-> in.action,
   principal |-> [in.principal EXCEPT !.role = "admin", !.user = "u-admin"],
   type |-> in.type, fields |-> in.fields]

\* decisionCacheKey.  The digest is taken to be injective; owner and labels
\* are left out because no cacheable action carries any.
CacheKey(dcs, in) ==
  [dcs |-> dcs, action |-> in.action, principal |-> in.principal,
   type |-> in.type, fields |-> in.fields]

\* The policy input a cache key was made from, in the tenant of its principal.
InputOfKey(k) ==
  [action |-> k.action, principal |-> k.principal, tenant |-> k.principal.tenant,
   type |-> k.type, fields |-> k.fields]
=============================================================================
