------------------------ MODULE MCSpectatorWorkflow ------------------------
(***************************************************************************)
(* A small instance of SpectatorWorkflow with the default configuration:   *)
(* two tenants that each have a hall h2, one spectator in PostgreSQL that  *)
(* Vault encrypted, identifiers "a" and "A" that are normalised alike.     *)
(***************************************************************************)
EXTENDS SpectatorWorkflow, DcsDefaults, TLC

CONSTANTS h1, h2, p0

Symmetry == Permutations(Calls)

MCFieldNames == {"name", "age", "external_id"}
MCSpectatorMap == "name" :> "PII" @@ "age" :> "SENSITIVE" @@ "external_id" :> "PII"

MCIdents   == {"a", "A"}
MCNorm     == "a" :> "A" @@ "A" :> "A"
MCPepperAt == "secret/dcs" :> "vault-pepper"

MCTenants    == {"t1", "t2"}
MCHalls      == Calls \cup {h1, h2}
MCIds        == Calls \cup {p0}
MCSeedHalls  == {<<"t1", h1>>, <<"t1", h2>>, <<"t2", h2>>}
MCMemoryHall == <<"t1", h1>>
MCSeedPeople ==
  <<"t2", p0>> :> [hall |-> h2, ct |-> Encrypted("vault", "a"),
                   lookup |-> Lookup("vault-pepper", "a")]

Asks(op, principal, hall, ident) ==
  [op |-> op, principal |-> principal, hall |-> hall, ident |-> ident, complete |-> TRUE]

Elsewhere == [tenant |-> "t2", user |-> "u-agent", role |-> "agent"]

MCRequests ==
  {Asks("create", User("agent"), h1, "a"),
   Asks("create", User("admin"), h1, "A"),
   Asks("create", Elsewhere, h1, "a"),
   Asks("create", User("developer"), h1, "a"),
   Asks("search", User("agent"), NoHall, "A"),
   Asks("search", User("developer"), NoHall, "A"),
   Asks("search", Elsewhere, NoHall, "A"),
   Asks("hallCreate", User("agent"), NoHall, NoIdent),
   Asks("hallCreate", User("developer"), NoHall, NoIdent),
   Asks("hallList", User("developer"), NoHall, NoIdent),
   [Asks("create", User("admin"), NoHall, "A") EXCEPT !.complete = FALSE]}
=============================================================================
