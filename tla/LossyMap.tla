------------------------------- MODULE LossyMap -------------------------------
(***************************************************************************)
(* What the other components may rely on in a cache: a map that may forget *)
(* any of its entries at any time, but in which an entry that is present   *)
(* holds the value last stored under its key.                              *)
(***************************************************************************)
EXTENDS CacheMap

CONSTANTS Keys, Values

VARIABLES
  content,  \* the entries a reader can find
  last      \* the value last stored under each key since it was last emptied

Init == content = EmptyMap /\ last = EmptyMap

\* n keeps some of the entries of m, unchanged.
Keeps(n, m) == DOMAIN n \subseteq DOMAIN m /\ \A k \in DOMAIN n : n[k] = m[k]

Forget == Keeps(content', content) /\ UNCHANGED last

Empty == content' = EmptyMap /\ last' = EmptyMap

Store(k, v) ==
  /\ last' = With(last, k, v)
  /\ k \in DOMAIN content' /\ content'[k] = v
  /\ Keeps(Without(content', k), content)

Next == Forget \/ Empty \/ \E k \in Keys, v \in Values : Store(k, v)

Spec == Init /\ [][Next]_<<content, last>>
=============================================================================
