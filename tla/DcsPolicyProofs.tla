---------------------------- MODULE DcsPolicyProofs ----------------------------
(***************************************************************************)
(* Facts about the policy and about enforcement that hold for every        *)
(* configuration of the PDP.                                               *)
(***************************************************************************)
EXTENDS DcsPep, TLAPS

-----------------------------------------------------------------------------
(* The verdict.                                                            *)

\* Every action is in one list or in none.
LEMMA ListOfRange ==
  ASSUME NEW action
  PROVE  ListOf(action) \in {"read", "write", "bootstrap", "audit", "unknown"}
BY DEF ListOf

\* The two authorisation rules of the engine, written apart in decide and in
\* allowWithoutDCS, agree whatever the action lists of the configuration are.
THEOREM VerdictAgreement ==
  ASSUME NEW action, NEW role
  PROVE  /\ Verdict(action, role).allow = AllowWithoutDCS(action, role)
         /\ Verdict(action, role).reason \in Reasons
<1>1. CASE ListOf(action) = "read"
  <2>1. Verdict(action, role) = [allow |-> TRUE, reason |-> "read_allowed"]
    BY <1>1 DEF Verdict
  <2>2. AllowWithoutDCS(action, role) = TRUE
    BY <1>1 DEF AllowWithoutDCS
  <2> QED
    BY <2>1, <2>2 DEF Reasons
<1>2. CASE ListOf(action) = "bootstrap"
  <2>1. Verdict(action, role) = [allow |-> TRUE, reason |-> "bootstrap_allowed"]
    BY <1>2 DEF Verdict
  <2>2. AllowWithoutDCS(action, role) = TRUE
    BY <1>2 DEF AllowWithoutDCS
  <2> QED
    BY <2>1, <2>2 DEF Reasons
<1>3. CASE ListOf(action) = "write"
  <2>1. CASE role \in {"agent", "admin"}
    <3>1. Verdict(action, role) = [allow |-> TRUE, reason |-> "write_allowed"]
      BY <1>3, <2>1 DEF Verdict
    <3>2. AllowWithoutDCS(action, role) = TRUE
      BY <1>3, <2>1 DEF AllowWithoutDCS
    <3> QED
      BY <3>1, <3>2 DEF Reasons
  <2>2. CASE role \notin {"agent", "admin"}
    <3>1. Verdict(action, role) = [allow |-> FALSE, reason |-> "write_forbidden"]
      BY <1>3, <2>2 DEF Verdict
    <3>2. AllowWithoutDCS(action, role) = FALSE
      BY <1>3, <2>2 DEF AllowWithoutDCS
    <3>3. Verdict(action, role).allow = FALSE
      BY <3>1
    <3>4. Verdict(action, role).allow = AllowWithoutDCS(action, role)
      BY <3>2, <3>3, Zenon
    <3>5. Verdict(action, role).reason \in Reasons
      BY <3>1 DEF Reasons
    <3> QED
      BY <3>4, <3>5
  <2> QED
    BY <2>1, <2>2
<1>4. CASE ListOf(action) = "audit"
  <2>1. CASE role = "admin"
    <3>1. Verdict(action, role) = [allow |-> TRUE, reason |-> "audit_allowed"]
      BY <1>4, <2>1 DEF Verdict
    <3>2. AllowWithoutDCS(action, role) = TRUE
      BY <1>4, <2>1 DEF AllowWithoutDCS
    <3> QED
      BY <3>1, <3>2 DEF Reasons
  <2>2. CASE role # "admin"
    <3>1. Verdict(action, role) = [allow |-> FALSE, reason |-> "audit_admin_only"]
      BY <1>4, <2>2 DEF Verdict
    <3>2. AllowWithoutDCS(action, role) = FALSE
      BY <1>4, <2>2 DEF AllowWithoutDCS
    <3>3. Verdict(action, role).allow = FALSE
      BY <3>1
    <3>4. Verdict(action, role).allow = AllowWithoutDCS(action, role)
      BY <3>2, <3>3, Zenon
    <3>5. Verdict(action, role).reason \in Reasons
      BY <3>1 DEF Reasons
    <3> QED
      BY <3>4, <3>5
  <2> QED
    BY <2>1, <2>2
<1>5. CASE ListOf(action) = "unknown"
  <2>1. Verdict(action, role) = [allow |-> FALSE, reason |-> "unknown_action"]
    BY <1>5 DEF Verdict
  <2>2. AllowWithoutDCS(action, role) = FALSE
    BY <1>5 DEF AllowWithoutDCS
  <2>3. Verdict(action, role).allow = FALSE
    BY <2>1
  <2>4. Verdict(action, role).allow = AllowWithoutDCS(action, role)
    BY <2>2, <2>3, Zenon
  <2>5. Verdict(action, role).reason \in Reasons
    BY <2>1 DEF Reasons
  <2> QED
    BY <2>4, <2>5
<1> QED
  BY <1>1, <1>2, <1>3, <1>4, <1>5, ListOfRange

\* Switching DCS changes nobody's right to act, for a resource in the tenant
\* of the principal.
THEOREM ModeNeverChangesAllow ==
  ASSUME NEW in, NEW dcs \in BOOLEAN, in.principal.tenant = in.tenant
  PROVE  Evaluate(dcs, in).allow = AllowWithoutDCS(in.action, in.principal.role)
<1>1. Verdict(in.action, in.principal.role).allow
        = AllowWithoutDCS(in.action, in.principal.role)
  BY VerdictAgreement
<1>2. AllowWithoutDCS(in.action, in.principal.role) \in BOOLEAN
  BY DEF AllowWithoutDCS
<1>3. Decide(in).allow = AllowWithoutDCS(in.action, in.principal.role)
  BY <1>1, <1>2 DEF Decide, Denial
<1> QED
  BY <1>3 DEF Evaluate

-----------------------------------------------------------------------------
(* The type of a decision.                                                 *)

\* A map on some of the field names is a partial map.
LEMMA PartialMapIntro ==
  ASSUME NEW S, NEW T, NEW D \in SUBSET S, NEW m \in [D -> T]
  PROVE  m \in PartialMaps(S, T)
BY DEF PartialMaps

LEMMA PartialMapElim ==
  ASSUME NEW S, NEW T, NEW m \in PartialMaps(S, T)
  PROVE  /\ DOMAIN m \in SUBSET S
         /\ m \in [DOMAIN m -> T]
BY DEF PartialMaps

LEMMA NoFieldsIsMap ==
  ASSUME NEW S, NEW T
  PROVE  NoFields \in PartialMaps(S, T)
<1>1. NoFields \in [{} -> T]
  BY DEF NoFields
<1> QED
  BY <1>1, PartialMapIntro

\* Whatever strings the matrix holds, a field gets one of the four actions.
LEMMA FieldActionsType ==
  ASSUME NEW in, in.fields \in ClassMap
  PROVE  FieldActionsFor(in) \in ActionMap
<1> DEFINE D == DOMAIN in.fields
           class(f) == IF in.fields[f] = "" THEN DefaultClass ELSE in.fields[f]
<1>1. D \in SUBSET FieldNames
  BY PartialMapElim DEF ClassMap
<1>2. ASSUME NEW f \in D
      PROVE  ActionForClassification(in.principal.role, class(f)) \in FieldAction
  BY DEF ActionForClassification, ParseFieldAction, FieldAction
<1>3. FieldActionsFor(in) \in [D -> FieldAction]
  BY <1>2 DEF FieldActionsFor, FieldAction
<1> QED
  BY <1>1, <1>3, PartialMapIntro DEF ActionMap

\* Both modes produce decisions of the declared shape.
LEMMA EvaluateType ==
  ASSUME NEW in, in.fields \in ClassMap, NEW dcs \in BOOLEAN
  PROVE  Evaluate(dcs, in) \in Decision
<1>1. NoFields \in ActionMap
  BY NoFieldsIsMap DEF ActionMap
<1>2. ASSUME NEW reason \in Reasons
      PROVE  Denial(reason) \in Decision
  BY <1>1, <1>2 DEF Denial, Decision
<1>3. Decide(in) \in Decision
  <2> DEFINE v == Verdict(in.action, in.principal.role)
  <2>1. v.reason \in Reasons
    BY VerdictAgreement
  <2>2. CASE in.principal.tenant # in.tenant
    BY <2>2, <1>2 DEF Decide, Reasons
  <2>3. CASE in.principal.tenant = in.tenant /\ ~v.allow
    <3>1. Decide(in) = Denial(v.reason)
      BY <2>3 DEF Decide
    <3> QED
      BY <3>1, <2>1, <1>2
  <2>4. CASE in.principal.tenant = in.tenant /\ v.allow
    <3>1. Decide(in) = [allow |-> TRUE, reason |-> v.reason, fields |-> FieldActionsFor(in)]
      BY <2>4 DEF Decide
    <3>2. FieldActionsFor(in) \in ActionMap
      BY FieldActionsType
    <3> QED
      BY <3>1, <3>2, <2>1 DEF Decision
  <2> QED
    BY <2>2, <2>3, <2>4
<1>4. CASE dcs
  BY <1>3, <1>4 DEF Evaluate
<1>5. CASE ~dcs
  <2>1. AllowWithoutDCS(in.action, in.principal.role) \in BOOLEAN
    BY DEF AllowWithoutDCS
  <2>2. "dcs_off" \in Reasons
    BY DEF Reasons
  <2>3. Evaluate(dcs, in) = [allow  |-> AllowWithoutDCS(in.action, in.principal.role),
                             reason |-> "dcs_off", fields |-> NoFields]
    BY <1>5 DEF Evaluate
  <2> QED
    BY <2>1, <2>2, <2>3, <1>1 DEF Decision
<1> QED
  BY <1>4, <1>5

-----------------------------------------------------------------------------
(* Enforcement.                                                            *)

LEMMA FormsType ==
  ASSUME NEW d, NEW dcs \in BOOLEAN, NEW f
  PROVE  /\ FilmForm(d, dcs, f) \in Forms
         /\ SpectatorForm(d, f) \in Forms
         /\ HallForm(d, f) \in Forms
BY DEF FilmForm, SpectatorForm, HallForm, Forms

\* An encrypted field is shown in clear only under an allowing decision that
\* says decrypt for that very field, and a film's only if DCS is still on.
THEOREM ClearNeedsDecrypt ==
  ASSUME NEW d, NEW dcs \in BOOLEAN, NEW type \in {"film", "spectator"},
         NEW f \in FieldsOf(type), Enforce(type, d, dcs)[f] = "clear"
  PROVE  /\ d.allow
         /\ f \in DOMAIN d.fields
         /\ d.fields[f] = "decrypt"
         /\ type = "film" => dcs
<1>1. CASE type = "film"
  BY <1>1 DEF Enforce, FilmForm, ActionIn
<1>2. CASE type = "spectator"
  BY <1>2 DEF Enforce, SpectatorForm, ActionIn
<1> QED
  BY <1>1, <1>2
=============================================================================
