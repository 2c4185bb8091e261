---------------------------- MODULE CacheMapProofs ----------------------------
(***************************************************************************)
(* What storing in, and removing from, the map of a cache leaves in it.    *)
(***************************************************************************)
EXTENDS CacheMap, FiniteSetTheorems, TLAPS

\* Removing a key leaves the other entries as they were.
LEMMA WithoutSpec ==
  ASSUME NEW m, NEW k
  PROVE  /\ DOMAIN Without(m, k) = DOMAIN m \ {k}
         /\ \A x \in DOMAIN Without(m, k) : Without(m, k)[x] = m[x]
BY DEF Without

LEMMA WithSpec ==
  ASSUME NEW m, NEW k, NEW v
  PROVE  /\ DOMAIN With(m, k, v) = DOMAIN m \cup {k}
         /\ With(m, k, v)[k] = v
         /\ \A x \in DOMAIN m \ {k} : With(m, k, v)[x] = m[x]
BY DEF With

LEMMA EmptySpec == DOMAIN EmptyMap = {}
BY DEF EmptyMap

\* Storing adds one entry and otherwise only loses entries.
LEMMA StoredSpec ==
  ASSUME NEW m, NEW limit, NEW k, NEW v, NEW n \in Stored(m, limit, k, v)
  PROVE  /\ k \in DOMAIN n
         /\ n[k] = v
         /\ \A x \in DOMAIN n \ {k} : x \in DOMAIN m /\ n[x] = m[x]
<1>1. PICK r \in MakeRoom(m, limit) : n = With(r, k, v)
  BY DEF Stored
<1>2. DOMAIN r \subseteq DOMAIN m /\ \A x \in DOMAIN r : r[x] = m[x]
  <2>1. CASE r = m
    BY <2>1
  <2>2. ASSUME NEW y, r = Without(m, y)
        PROVE  DOMAIN r \subseteq DOMAIN m /\ \A x \in DOMAIN r : r[x] = m[x]
    BY <2>2, WithoutSpec
  <2> QED
    BY <1>1, <2>1, <2>2 DEF MakeRoom
<1>3. /\ DOMAIN n = DOMAIN r \cup {k}
      /\ n[k] = v
      /\ \A x \in DOMAIN r \ {k} : n[x] = r[x]
  BY <1>1 DEF With
<1>4. ASSUME NEW x \in DOMAIN n \ {k}
      PROVE  x \in DOMAIN m /\ n[x] = m[x]
  <2>1. x \in DOMAIN r \ {k}
    BY <1>3, <1>4
  <2> QED
    BY <1>2, <1>3, <2>1, Zenon
<1> QED
  BY <1>3, <1>4, Zenon
=============================================================================
