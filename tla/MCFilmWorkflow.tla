---------------------------- MODULE MCFilmWorkflow ----------------------------
(***************************************************************************)
(* A small instance of FilmWorkflow, with the default configuration: two   *)
(* tenants that each have a film "f1", writers and readers of the first.   *)
(***************************************************************************)
EXTENDS FilmWorkflow, DcsDefaults, TLC

Symmetry == Permutations(Calls)

MCFieldNames == {"time_elapsed"}
MCTenants    == {"t1", "t2"}
MCIds        == {"f1", "f2"}
MCTimes      == {10, 20, 30}
MCSeed       == <<"t1", "f1">> :> 10 @@ <<"t2", "f1">> :> 10
MCFilmMaps   == {"time_elapsed" :> "SENSITIVE"}

Asks(op, principal, id, time) ==
  [op |-> op, principal |-> principal, id |-> id, time |-> time]

\* The film "f2" is there only once it has been created.
MCRequests ==
  {Asks("create", User("agent"), NoId, 20),
   Asks("create", User("developer"), NoId, 30),
   Asks("list", User("developer"), NoId, 10),
   Asks("update", User("agent"), "f1", 20),
   Asks("update", User("admin"), "f2", 30),
   Asks("update", User("developer"), "f1", 30)}
=============================================================================
