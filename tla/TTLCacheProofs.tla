---------------------------- MODULE TTLCacheProofs ----------------------------
(***************************************************************************)
(* The bound of cache.TTL and what its hits return, for every set of keys, *)
(* every limit, every time to live and every clock.                        *)
(***************************************************************************)
EXTENDS TTLCache, CacheMapProofs

LEMMA LimitsType == limit \in Nat /\ limit >= 1 /\ ttl \in Nat /\ ttl >= 1
BY CacheAssumption DEF limit, ttl

-----------------------------------------------------------------------------
(* The number of entries.                                                  *)

\* Making room leaves a map of the same entries, with a place free.
LEMMA MakeRoomBound ==
  ASSUME NEW m, NEW max \in Nat, max >= 1, IsFiniteSet(DOMAIN m),
         Cardinality(DOMAIN m) <= max, NEW n \in MakeRoom(m, max)
  PROVE  /\ IsFiniteSet(DOMAIN n)
         /\ Cardinality(DOMAIN n) + 1 <= max
<1>0. Cardinality(DOMAIN m) \in Nat
  BY FS_CardinalityType
<1>1. CASE Cardinality(DOMAIN m) >= max /\ DOMAIN m # {}
  <2>1. PICK k \in DOMAIN m : n = Without(m, k)
    BY <1>1 DEF MakeRoom
  <2>2. DOMAIN n = DOMAIN m \ {k}
    BY <2>1, WithoutSpec
  <2>3. /\ IsFiniteSet(DOMAIN m \ {k})
        /\ Cardinality(DOMAIN m \ {k}) = Cardinality(DOMAIN m) - 1
    BY <2>1, FS_RemoveElement
  <2> QED
    BY <1>0, <2>2, <2>3
<1>2. CASE ~(Cardinality(DOMAIN m) >= max /\ DOMAIN m # {})
  <2>1. n = m
    BY <1>2 DEF MakeRoom
  <2>2. Cardinality(DOMAIN m) < max
    <3>1. CASE DOMAIN m = {}
      <4>1. Cardinality(DOMAIN m) = 0
        BY <3>1, FS_EmptySet
      <4> QED
        BY <4>1
    <3>2. CASE DOMAIN m # {}
      BY <1>0, <1>2, <3>2
    <3> QED
      BY <3>1, <3>2
  <2> QED
    BY <1>0, <2>1, <2>2
<1> QED
  BY <1>1, <1>2

\* Storing keeps a map within its limit.
LEMMA StoredBound ==
  ASSUME NEW m, NEW max \in Nat, max >= 1, IsFiniteSet(DOMAIN m),
         Cardinality(DOMAIN m) <= max, NEW k, NEW v, NEW n \in Stored(m, max, k, v)
  PROVE  IsFiniteSet(DOMAIN n) /\ Cardinality(DOMAIN n) <= max
<1>1. PICK r \in MakeRoom(m, max) : n = With(r, k, v)
  BY DEF Stored
<1>2. IsFiniteSet(DOMAIN r) /\ Cardinality(DOMAIN r) + 1 <= max
  BY MakeRoomBound
<1>3. Cardinality(DOMAIN r) \in Nat
  BY <1>2, FS_CardinalityType
<1>4. DOMAIN n = DOMAIN r \cup {k}
  BY <1>1, WithSpec
<1>5. /\ IsFiniteSet(DOMAIN r \cup {k})
      /\ Cardinality(DOMAIN r \cup {k}) =
           IF k \in DOMAIN r THEN Cardinality(DOMAIN r) ELSE Cardinality(DOMAIN r) + 1
  BY <1>2, FS_AddElement
<1>6. Cardinality(DOMAIN r \cup {k}) \in Nat
  BY <1>5, FS_CardinalityType
<1> QED
  BY <1>2, <1>3, <1>4, <1>5, <1>6

-----------------------------------------------------------------------------
(* The invariant.                                                          *)

Bounded == IsFiniteSet(DOMAIN store) /\ WithinLimit

Inv == TypeOK /\ Bounded /\ StoreMirrorsWrites /\ HitIsLastWrite

LEMMA InitInv == Init => Inv
<1> SUFFICES ASSUME Init PROVE Inv
  OBVIOUS
<1>1. IsFiniteSet({}) /\ Cardinality({}) = 0
  BY FS_EmptySet
<1>2. Bounded
  BY <1>1, EmptySpec, LimitsType DEF Init, Bounded, WithinLimit
<1> QED
  BY <1>2, EmptySpec DEF Init, Inv, TypeOK, StoreMirrorsWrites, HitIsLastWrite, NoAnswer

LEMMA GetInv ==
  ASSUME Inv, NEW k \in Keys, Get(k)
  PROVE  Inv'
<1>1. CASE k \in DOMAIN store /\ ~Expired(k)
  <2>1. store' = store /\ written' = written /\ now' = now
    BY <1>1 DEF Get
  <2>2. answer' = [key |-> k, value |-> store[k].value]
    BY <1>1 DEF Get
  <2>3. /\ store[k] \in [value : Values, expiresAt : Int]
        /\ k \in DOMAIN written /\ written[k].value = store[k].value
        /\ store[k].expiresAt = written[k].at + ttl
        /\ now <= store[k].expiresAt
    BY <1>1 DEF Inv, TypeOK, StoreMirrorsWrites, Expired
  <2>4. HitIsLastWrite'
    BY <2>1, <2>2, <2>3 DEF HitIsLastWrite, ttl
  <2> QED
    BY <2>1, <2>2, <2>3, <2>4
    DEF Inv, TypeOK, Bounded, WithinLimit, StoreMirrorsWrites, ttl, limit
<1>2. CASE ~(k \in DOMAIN store /\ ~Expired(k))
  <2>1. /\ store' = Without(store, k) /\ written' = written /\ now' = now
        /\ answer' = [key |-> k, value |-> Nothing]
    BY <1>2 DEF Get
  <2>2. /\ DOMAIN store' = DOMAIN store \ {k}
        /\ \A x \in DOMAIN store' : store'[x] = store[x]
    BY <2>1, WithoutSpec
  <2>3. Bounded'
    <3>1. DOMAIN store' \in SUBSET DOMAIN store
      BY <2>2
    <3>2. IsFiniteSet(DOMAIN store') /\ Cardinality(DOMAIN store') <= Cardinality(DOMAIN store)
      BY <3>1, FS_Subset DEF Inv, Bounded
    <3>3. Cardinality(DOMAIN store') \in Nat /\ Cardinality(DOMAIN store) \in Nat
      BY <3>2, FS_CardinalityType DEF Inv, Bounded
    <3> QED
      BY <3>2, <3>3, LimitsType DEF Inv, Bounded, WithinLimit, limit
  <2> QED
    BY <2>1, <2>2, <2>3 DEF Inv, TypeOK, StoreMirrorsWrites, HitIsLastWrite, ttl
<1> QED
  BY <1>1, <1>2

LEMMA SetInv ==
  ASSUME Inv, NEW k \in Keys, NEW v \in Values, Set(k, v)
  PROVE  Inv'
<1> DEFINE e == [value |-> v, expiresAt |-> now + ttl]
           w == [value |-> v, at |-> now]
<1>0. now \in Nat
  BY DEF Inv, TypeOK
<1>1. /\ store' \in Stored(store, limit, k, e)
      /\ written' = With(written, k, w)
      /\ answer' = NoAnswer /\ now' = now
  BY DEF Set
<1>2. /\ k \in DOMAIN store' /\ store'[k] = e
      /\ \A x \in DOMAIN store' \ {k} : x \in DOMAIN store /\ store'[x] = store[x]
  BY <1>1, StoredSpec
<1>3. /\ DOMAIN written' = DOMAIN written \cup {k}
      /\ written'[k] = w
      /\ \A x \in DOMAIN written \ {k} : written'[x] = written[x]
  BY <1>1 DEF With
<1>4. TypeOK'
  <2>1. e \in [value : Values, expiresAt : Int] /\ w \in [value : Values, at : Nat]
    BY <1>0, LimitsType
  <2>2. \A x \in DOMAIN store' : x \in Keys /\ store'[x] \in [value : Values, expiresAt : Int]
    BY <1>2, <2>1 DEF Inv, TypeOK
  <2>3. \A x \in DOMAIN written' : x \in Keys /\ written'[x] \in [value : Values, at : Nat]
    BY <1>3, <2>1 DEF Inv, TypeOK
  <2> QED
    BY <1>0, <1>1, <2>2, <2>3 DEF TypeOK, NoAnswer
<1>5. Bounded'
  <2>1. IsFiniteSet(DOMAIN store') /\ Cardinality(DOMAIN store') <= limit
    BY <1>1, StoredBound, LimitsType DEF Inv, Bounded, WithinLimit
  <2> QED
    BY <2>1 DEF Bounded, WithinLimit, limit
<1>6. StoreMirrorsWrites'
  <2>1. ASSUME NEW x \in DOMAIN store'
        PROVE  /\ x \in DOMAIN written'
               /\ store'[x].value = written'[x].value
               /\ store'[x].expiresAt = written'[x].at + ttl
    <3>1. CASE x = k
      BY <1>2, <1>3, <3>1
    <3>2. CASE x # k
      BY <1>2, <1>3, <3>2 DEF Inv, StoreMirrorsWrites
    <3> QED
      BY <3>1, <3>2
  <2> QED
    BY <2>1 DEF StoreMirrorsWrites, ttl
<1> QED
  BY <1>1, <1>4, <1>5, <1>6 DEF Inv, HitIsLastWrite, NoAnswer

LEMMA NextInv == Inv /\ [Next]_vars => Inv'
<1> SUFFICES ASSUME Inv, [Next]_vars PROVE Inv'
  OBVIOUS
<1>1. ASSUME NEW k \in Keys, Get(k) PROVE Inv'
  BY <1>1, GetInv
<1>2. ASSUME NEW k \in Keys, NEW v \in Values, Set(k, v) PROVE Inv'
  BY <1>2, SetInv
<1>3. CASE Clear
  <2>1. IsFiniteSet({}) /\ Cardinality({}) = 0
    BY FS_EmptySet
  <2>2. Bounded'
    BY <1>3, <2>1, EmptySpec, LimitsType DEF Clear, Bounded, WithinLimit, limit
  <2> QED
    BY <1>3, <2>2, EmptySpec
    DEF Clear, Inv, TypeOK, StoreMirrorsWrites, HitIsLastWrite, NoAnswer
<1>4. CASE Tick
  BY <1>4
  DEF Tick, Inv, TypeOK, Bounded, WithinLimit, StoreMirrorsWrites, HitIsLastWrite, NoAnswer,
      ttl, limit
<1>5. CASE UNCHANGED vars
  BY <1>5
  DEF vars, Inv, TypeOK, Bounded, WithinLimit, StoreMirrorsWrites, HitIsLastWrite, ttl, limit
<1> QED
  BY <1>1, <1>2, <1>3, <1>4, <1>5 DEF Next

LEMMA InvHolds == Spec => []Inv
BY InitInv, NextInv, PTL DEF Spec

\* Type correctness of the cache.
THEOREM TypeCorrect == Spec => []TypeOK
<1>1. Inv => TypeOK
  BY DEF Inv
<1> QED
  BY <1>1, InvHolds, PTL

\* The cache never outgrows its limit, although room is made before the key is
\* known to be new (ttl.go:57-66).
THEOREM LimitKept == Spec => []WithinLimit
<1>1. Inv => WithinLimit
  BY DEF Inv, Bounded
<1> QED
  BY <1>1, InvHolds, PTL

\* A hit returns the value last set, and not too long ago (ttl.go:34-48).
THEOREM HitsAreFresh == Spec => []HitIsLastWrite
<1>1. Inv => HitIsLastWrite
  BY DEF Inv
<1> QED
  BY <1>1, InvHolds, PTL

-----------------------------------------------------------------------------
(* The cache implements a map that forgets.                                *)

LEMMA RefineInit == Init => Lossy!Init
<1> SUFFICES ASSUME Init PROVE Lossy!Init
  OBVIOUS
<1>1. Live = EmptyMap
  BY EmptySpec DEF Init, Live, EmptyMap
<1>2. LastWritten = EmptyMap
  BY EmptySpec DEF Init, LastWritten, EmptyMap
<1> QED
  BY <1>1, <1>2 DEF Lossy!Init, Lossy!EmptyMap, EmptyMap

\* What is live in a cache of which some entries were lost is still there.
LEMMA RefineForget ==
  ASSUME DOMAIN store' \subseteq DOMAIN store,
         \A x \in DOMAIN store' : store'[x] = store[x],
         now \in Nat, now' \in Nat, now <= now',
         \A x \in DOMAIN store : store[x].expiresAt \in Int,
         written' = written
  PROVE  Lossy!Forget
<1>1. \A x \in DOMAIN Live' : x \in DOMAIN Live
  BY DEF Live, Expired
<1>2. \A x \in DOMAIN Live' : Live'[x] = Live[x]
  BY <1>1 DEF Live, Expired
<1>3. LastWritten' = LastWritten
  BY DEF LastWritten
<1> QED
  BY <1>1, <1>2, <1>3 DEF Lossy!Forget, Lossy!Keeps

LEMMA RefineSet ==
  ASSUME Inv, NEW k \in Keys, NEW v \in Values, Set(k, v)
  PROVE  Lossy!Store(k, v)
<1> DEFINE e == [value |-> v, expiresAt |-> now + ttl]
           w == [value |-> v, at |-> now]
<1>0. now \in Nat
  BY DEF Inv, TypeOK
<1>1. /\ store' \in Stored(store, limit, k, e)
      /\ written' = With(written, k, w) /\ now' = now
  BY DEF Set
<1>2. /\ k \in DOMAIN store' /\ store'[k] = e
      /\ \A x \in DOMAIN store' \ {k} : x \in DOMAIN store /\ store'[x] = store[x]
  BY <1>1, StoredSpec
<1>3. LastWritten' = With(LastWritten, k, v)
  BY <1>1 DEF LastWritten, With
<1>4. k \in DOMAIN Live' /\ Live'[k] = v
  BY <1>0, <1>1, <1>2, LimitsType DEF Live, Expired
<1>5. \A x \in DOMAIN Live' \ {k} : x \in DOMAIN Live /\ Live'[x] = Live[x]
  BY <1>1, <1>2 DEF Live, Expired
<1>6. Lossy!Keeps(Without(Live', k), Live)
  BY <1>5 DEF Lossy!Keeps, Without
<1> QED
  BY <1>3, <1>4, <1>6 DEF Lossy!Store, Lossy!With, Lossy!Without, With, Without

LEMMA RefineNext == Inv /\ [Next]_vars => [Lossy!Next]_<<Live, LastWritten>>
<1> SUFFICES ASSUME Inv, [Next]_vars PROVE [Lossy!Next]_<<Live, LastWritten>>
  OBVIOUS
<1>0. now \in Nat /\ \A x \in DOMAIN store : store[x].expiresAt \in Int
  BY DEF Inv, TypeOK
<1>1. ASSUME NEW k \in Keys, Get(k) PROVE Lossy!Next
  <2>1. /\ DOMAIN store' \subseteq DOMAIN store
        /\ \A x \in DOMAIN store' : store'[x] = store[x]
    BY <1>1 DEF Get, Without
  <2>2. now' = now /\ written' = written
    BY <1>1 DEF Get
  <2>3. Lossy!Forget
    BY <1>0, <2>1, <2>2, RefineForget
  <2> QED
    BY <2>3 DEF Lossy!Next
<1>2. ASSUME NEW k \in Keys, NEW v \in Values, Set(k, v) PROVE Lossy!Next
  BY <1>2, RefineSet DEF Lossy!Next
<1>3. CASE Clear
  <2>1. Live' = EmptyMap /\ LastWritten' = EmptyMap
    BY <1>3, EmptySpec DEF Clear, Live, LastWritten, EmptyMap
  <2> QED
    BY <2>1 DEF Lossy!Next, Lossy!Empty, Lossy!EmptyMap, EmptyMap
<1>4. CASE Tick
  <2>1. store' = store /\ written' = written /\ now' \in Nat /\ now <= now'
    BY <1>0, <1>4 DEF Tick
  <2>2. Lossy!Forget
    BY <1>0, <2>1, RefineForget
  <2> QED
    BY <2>2 DEF Lossy!Next
<1>5. CASE UNCHANGED vars
  BY <1>5 DEF vars, Live, LastWritten, Expired
<1> QED
  BY <1>1, <1>2, <1>3, <1>4, <1>5 DEF Next

\* Expiry, eviction and the clock only ever forget: TTLCache implements LossyMap.
THEOREM CacheIsLossyMap == Spec => ImplementsLossyMap
BY InvHolds, RefineInit, RefineNext, PTL DEF Spec, ImplementsLossyMap, Lossy!Spec
=============================================================================
