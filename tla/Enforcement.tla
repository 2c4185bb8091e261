------------------------------ MODULE Enforcement ------------------------------
(***************************************************************************)
(* What the DCS enforcer promises its callers while an operator switches   *)
(* DCS on and off, caches being none of their business: every call gets    *)
(* one answer, and the answer is one that a single DCS mode gives, a mode  *)
(* in force at some moment between the call and the answer.                *)
(***************************************************************************)
CONSTANTS
  Callers,         \* concurrent requests
  Kinds,           \* what can be asked: action, resource type, principal
  Permitted(_, _), \* the answers a mode allows for a kind
  NoKind, NoAnswer

VARIABLES
  mode,    \* the mode in force
  phase,   \* caller -> "idle", "waiting" or "answered"
  asked,   \* caller -> the kind it asked for
  seen,    \* caller -> the modes in force since it called
  answer   \* caller -> the answer it got

vars == <<mode, phase, asked, seen, answer>>

Init ==
  /\ mode \in BOOLEAN
  /\ phase = [c \in Callers |-> "idle"]
  /\ asked = [c \in Callers |-> NoKind]
  /\ seen = [c \in Callers |-> {}]
  /\ answer = [c \in Callers |-> NoAnswer]

Call(c, k) ==
  /\ phase[c] # "waiting"
  /\ phase' = [phase EXCEPT ![c] = "waiting"]
  /\ asked' = [asked EXCEPT ![c] = k]
  /\ seen' = [seen EXCEPT ![c] = {mode}]
  /\ answer' = [answer EXCEPT ![c] = NoAnswer]
  /\ UNCHANGED mode

Answer(c) ==
  /\ phase[c] = "waiting"
  /\ phase' = [phase EXCEPT ![c] = "answered"]
  /\ \E m \in seen[c] : \E a \in Permitted(asked[c], m) :
       answer' = [answer EXCEPT ![c] = a]
  /\ UNCHANGED <<mode, asked, seen>>

Switch ==
  /\ mode' \in BOOLEAN
  /\ seen' = [c \in Callers |-> IF phase[c] = "waiting"
                                THEN seen[c] \cup {mode'} ELSE seen[c]]
  /\ UNCHANGED <<phase, asked, answer>>

Next ==
  \/ \E c \in Callers : Answer(c) \/ \E k \in Kinds : Call(c, k)
  \/ Switch

Fairness == \A c \in Callers : WF_vars(Answer(c))

Spec == Init /\ [][Next]_vars

FairSpec == Spec /\ Fairness
=============================================================================
