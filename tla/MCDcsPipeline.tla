----------------------------- MODULE MCDcsPipeline -----------------------------
(***************************************************************************)
(* Small instances of DcsPipeline, with the default configuration.  The    *)
(* built-in classifications are those of bootstrap/http.go.                *)
(***************************************************************************)
EXTENDS DcsPipeline, DcsDefaults, TLC

Kind(action, type, principal) ==
  [action |-> action, type |-> type, principal |-> principal]

Symmetry == Permutations(Slots)

-----------------------------------------------------------------------------
(* Films alone, the actions whose decisions are cached: two readers whom the *)
(* policy shows different things; readers and writers.                     *)

FilmFields == {"time_elapsed"}
FilmKinds  == {Kind("film.read", "film", User("admin")),
               Kind("film.read", "film", User("developer"))}
FilmTypes  == {"film"}
FilmStored == "film" :> {"time_elapsed" :> "PUBLIC"}
FilmStatic == "film" :> ("time_elapsed" :> "SENSITIVE")

\* The journal has no classified fields, and its decisions are not cached.
WorkKinds  == FilmKinds \cup {Kind("film.update_time", "film", User("developer")),
                             Kind("film.create", "film", User("agent")),
                             Kind("audit.read", "audit", User("admin")),
                             Kind("audit.read", "audit", User("agent"))}
WorkTypes  == FilmTypes \cup {"audit"}
WorkStored == FilmStored @@ ("audit" :> {NoFields})
WorkStatic == FilmStatic @@ ("audit" :> NoFields)

-----------------------------------------------------------------------------
(* Every type of resource; spectators may be classified in two ways.       *)

AllFields == {"time_elapsed", "name", "age", "external_id",
              "owner_user_id", "current_film_id"}
AllTypes  == {"film", "spectator", "hall"}
AllKinds  == {Kind("film.read", "film", User("admin")),
              Kind("film.create", "film", User("admin")),
              Kind("spectator.read", "spectator", User("agent")),
              Kind("hall.read", "hall", User("developer"))}
AllStatic ==
  FilmStatic @@
  ("spectator" :> ("name" :> "PII" @@ "age" :> "SENSITIVE" @@ "external_id" :> "PII")) @@
  ("hall" :> ("owner_user_id" :> "INTERNAL" @@ "current_film_id" :> "INTERNAL"))
AllStored ==
  [t \in AllTypes |->
     IF t = "spectator"
     THEN {AllStatic[t], "name" :> "SENSITIVE" @@ "external_id" :> "SENSITIVE"}
     ELSE {AllStatic[t]}]

\* A visitor comes with a role outside the matrix (X-Role header).
HallKinds  == {Kind("hall.read", "hall", User("visitor")), Kind("hall.read", "hall", User("developer"))}
HallTypes  == {"hall"}
HallStored == [t \in HallTypes |-> {AllStatic[t]}]
HallStatic == [t \in HallTypes |-> AllStatic[t]]
=============================================================================
