----------------------------- MODULE MCAdminApi -----------------------------
(***************************************************************************)
(* A small instance of AdminApi with the default policy: an administrator  *)
(* and an agent in one tenant, a token of the administrator from an        *)
(* earlier process, and rows of this backend, of another one and of        *)
(* another tenant.                                                         *)
(***************************************************************************)
EXTENDS AdminApi, DcsDefaults, TLC

CONSTANT s0

Symmetry == Permutations(Calls)

MCFieldNames == {"time_elapsed"}

MCUsers      == {<<"t1", "u-admin">>, <<"t1", "u-agent">>}
MCStartRoles == <<"t1", "u-admin">> :> "admin" @@ <<"t1", "u-agent">> :> "agent"
MCRoles      == {"admin", "agent"}

MCSeedTokens ==
  {[tenant |-> "t1", user |-> "u-admin", role |-> "admin", expires |-> 2, read |-> 0, made |-> 0]}

Row(tenant, ts, source) ==
  [call |-> s0, tenant |-> tenant, ts |-> ts, source |-> source, dcs |-> TRUE, level |-> 1]

MCSeedPerf ==
  {Row("t1", 0, "go"), Row("t1", 0, "unknown"), Row("t2", 0, "go")}

Asking(route, auth, who, ok) ==
  [route |-> route, auth |-> auth, who |-> who, ok |-> ok, limit |-> 1, source |-> "default",
   mode |-> Keep, level |-> Keep]

Elsewhere == [tenant |-> "t2", user |-> "u-admin", role |-> "admin"]
NoTenant  == [tenant |-> "", user |-> "u-agent", role |-> ""]

MCRequests ==
  {Asking("login", "none", NoTenant, TRUE),
   Asking("login", "none", User("admin"), FALSE),
   [Asking("patchSettings", "bearer", Elsewhere, TRUE) EXCEPT !.mode = FALSE, !.level = 0],
   Asking("patchSettings", "bearer", Elsewhere, FALSE),
   Asking("patchSettings", "other", Elsewhere, TRUE),
   Asking("getSettings", "bearer", Elsewhere, TRUE),
   Asking("audit", "bearer", Elsewhere, TRUE),
   Asking("perf", "bearer", Elsewhere, TRUE),
   [Asking("summary", "bearer", Elsewhere, TRUE) EXCEPT !.level = All],
   [Asking("summary", "bearer", Elsewhere, TRUE) EXCEPT !.level = Current, !.source = "unknown"],
   Asking("work", "bearer", Elsewhere, TRUE),
   Asking("work", "forged", Elsewhere, TRUE),
   Asking("work", "other", Elsewhere, TRUE)}
=============================================================================
