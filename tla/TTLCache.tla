------------------------------- MODULE TTLCache -------------------------------
(***************************************************************************)
(* cache.TTL, the bounded map with expiry behind the four caches of the    *)
(* Go backend.  Every operation holds the mutex from its first statement   *)
(* to its last, so each one is a single action; the clock moves between    *)
(* operations.                                                             *)
(*                                                                         *)
(* Besides the map the module keeps what a client could remember: for each *)
(* key the value last set and when (written), and the last answer of Get.  *)
(***************************************************************************)
EXTENDS CacheMap

CONSTANTS
  Keys, Values,
  MaxEntries,   \* NewTTL's first argument
  DefaultTTL,   \* NewTTL's second argument
  Horizon,      \* the clock stops here (bound of the model)
  Nothing       \* no value

ASSUME CacheAssumption ==
  /\ IsFiniteSet(Keys)
  /\ MaxEntries \in Int /\ DefaultTTL \in Int /\ Horizon \in Nat
  /\ Nothing \notin Values

VARIABLES
  store,     \* key -> [value, expiresAt]
  now,       \* the clock
  written,   \* key -> [value, at] of the last Set since the last Clear
  answer     \* the last Get: the key asked for and the value returned

vars == <<store, now, written, answer>>

\* NewTTL corrects its arguments.
limit == IF MaxEntries < 1 THEN 1 ELSE MaxEntries
ttl   == IF DefaultTTL <= 0 THEN 1 ELSE DefaultTTL

NoAnswer == [key |-> Nothing, value |-> Nothing]

-----------------------------------------------------------------------------

Init ==
  /\ store = EmptyMap
  /\ now = 0
  /\ written = EmptyMap
  /\ answer = NoAnswer

\* (A slip: the expiry is never looked at.)
NeverExpired(k) == FALSE

Expired(k) == now > store[k].expiresAt

\* (A slip: a miss leaves an empty entry behind.)
GetInserts(k) ==
  /\ IF k \in DOMAIN store /\ ~Expired(k)
     THEN /\ answer' = [key |-> k, value |-> store[k].value]
          /\ UNCHANGED store
     ELSE /\ answer' = [key |-> k, value |-> Nothing]
          /\ store' = With(store, k, [value |-> Nothing, expiresAt |-> now])
  /\ UNCHANGED <<now, written>>

Get(k) ==
  /\ IF k \in DOMAIN store /\ ~Expired(k)
     THEN /\ answer' = [key |-> k, value |-> store[k].value]
          /\ UNCHANGED store
     ELSE /\ answer' = [key |-> k, value |-> Nothing]
          /\ store' = Without(store, k)
  /\ UNCHANGED <<now, written>>

Set(k, v) ==
  /\ store' \in Stored(store, limit, k, [value |-> v, expiresAt |-> now + ttl])
  /\ written' = With(written, k, [value |-> v, at |-> now])
  /\ answer' = NoAnswer
  /\ UNCHANGED now

Clear ==
  /\ store' = EmptyMap
  /\ written' = EmptyMap
  /\ answer' = NoAnswer
  /\ UNCHANGED now

Tick ==
  /\ now < Horizon
  /\ now' = now + 1
  /\ answer' = NoAnswer
  /\ UNCHANGED <<store, written>>

Next ==
  \/ \E k \in Keys : Get(k)
  \/ \E k \in Keys, v \in Values : Set(k, v)
  \/ Clear
  \/ Tick

Spec == Init /\ [][Next]_vars

-----------------------------------------------------------------------------
(* Properties.                                                             *)

\* Every variable holds a value of its kind.
TypeOK ==
  /\ DOMAIN store \subseteq Keys
  /\ \A k \in DOMAIN store : store[k] \in [value : Values, expiresAt : Int]
  /\ now \in Nat
  /\ DOMAIN written \subseteq Keys
  /\ \A k \in DOMAIN written : written[k] \in [value : Values, at : Nat]
  /\ answer \in [key : Keys \cup {Nothing}, value : Values \cup {Nothing}]

\* The cache never holds more entries than its limit, although Set makes
\* room before it knows whether the key is new (ttl.go:57-66).
WithinLimit == Cardinality(DOMAIN store) <= limit

\* A hit returns the value last set under that key, set since the last Clear
\* and no longer ago than the time to live: evictions and expiries in any
\* order only ever turn hits into misses.
HitIsLastWrite ==
  answer.value # Nothing =>
    /\ answer.key \in DOMAIN written
    /\ written[answer.key].value = answer.value
    /\ now <= written[answer.key].at + ttl

\* What is stored is what was written: the fact behind HitIsLastWrite.
StoreMirrorsWrites ==
  \A k \in DOMAIN store :
    /\ k \in DOMAIN written
    /\ store[k].value = written[k].value
    /\ store[k].expiresAt = written[k].at + ttl

\* The live content of the cache, seen as a map that forgets.
Live == [k \in {x \in DOMAIN store : ~Expired(x)} |-> store[k].value]

\* The value last written under each key.
LastWritten == [k \in DOMAIN written |-> written[k].value]

Lossy == INSTANCE LossyMap WITH content <- Live, last <- LastWritten

\* The cache implements a map that may forget entries at any time.
ImplementsLossyMap == Lossy!Spec
=============================================================================
