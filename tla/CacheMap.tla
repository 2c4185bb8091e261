------------------------------- MODULE CacheMap -------------------------------
(***************************************************************************)
(* The map inside cache.TTL (internal/dcs/cache/ttl.go) and what its       *)
(* operations do to it.  A map is a function whose domain is the set of    *)
(* keys present.                                                           *)
(***************************************************************************)
EXTENDS Integers, FiniteSets

EmptyMap == [k \in {} |-> {}]

Without(m, k) == [x \in DOMAIN m \ {k} |-> m[x]]

With(m, k, v) == [x \in DOMAIN m \cup {k} |-> IF x = k THEN v ELSE m[x]]

\* (A slip: one entry too many.)
MakeRoomLate(m, limit) ==
  IF Cardinality(DOMAIN m) > limit /\ DOMAIN m # {}
  THEN {Without(m, k) : k \in DOMAIN m}
  ELSE {m}

\* Making room: a map at its limit loses one entry, whichever the iteration
\* over it meets first, even when the key to be stored is already present.
MakeRoom(m, limit) ==
  IF Cardinality(DOMAIN m) >= limit /\ DOMAIN m # {}
  THEN {Without(m, k) : k \in DOMAIN m}
  ELSE {m}

\* (A slip: a key that is present keeps its old value.)
StoredKeepsOld(m, limit, k, v) ==
  {IF k \in DOMAIN n THEN n ELSE With(n, k, v) : n \in MakeRoom(m, limit)}

\* The maps that storing v under k can leave.
Stored(m, limit, k, v) == {With(n, k, v) : n \in MakeRoom(m, limit)}
=============================================================================
