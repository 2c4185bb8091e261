------------------------------ MODULE FilmLedger ------------------------------
(***************************************************************************)
(* What the film service promises its callers, whatever fails between the  *)
(* database, Vault and the journal: a call changes at most one film, once, *)
(* and only if the policy lets it; an acknowledged change took place; a    *)
(* refused one never does; and the films an answer speaks of are those of  *)
(* one moment of the call.  An error promises nothing about the change.    *)
(***************************************************************************)
CONSTANTS
  Calls,         \* calls, each made once
  Requests,      \* [op, principal, id, time]
  NoRequest,
  Ids,           \* film identifiers
  Allowed(_),    \* what the policy lets a request do
  Seed           \* the films there are at the start: <<tenant, id>> -> time

VARIABLES
  films,    \* <<tenant, id>> -> time
  asked,    \* call -> its request
  changed,  \* the calls that have changed a film
  view,     \* call -> the films it works from, [id, time]
  answer    \* call -> [outcome, rows]

vars == <<films, asked, changed, view, answer>>

Unanswered == [outcome |-> "none", rows |-> {}]

Init ==
  /\ films = Seed
  /\ asked = [c \in Calls |-> NoRequest]
  /\ changed = {}
  /\ view = [c \in Calls |-> {}]
  /\ answer = [c \in Calls |-> Unanswered]

Running(c) == asked[c] # NoRequest /\ answer[c] = Unanswered

Ask(c, rq) ==
  /\ asked[c] = NoRequest
  /\ asked' = [asked EXCEPT ![c] = rq]
  /\ UNCHANGED <<films, changed, view, answer>>

\* A list takes its view of the tenant's films.
Look(c) ==
  /\ Running(c) /\ asked[c].op = "list"
  /\ view' = [view EXCEPT ![c] =
                {[id |-> k[2], time |-> films[k]] :
                   k \in {x \in DOMAIN films : x[1] = asked[c].principal.tenant}}]
  /\ UNCHANGED <<films, asked, changed, answer>>

\* A creation or an update takes place, in the tenant of its principal.
Change(c) ==
  LET rq == asked[c] IN
  /\ Running(c) /\ rq.op \in {"create", "update"}
  /\ c \notin changed /\ Allowed(rq)
  /\ \E id \in Ids :
       LET key == <<rq.principal.tenant, id>> IN
       /\ IF rq.op = "create" THEN key \notin DOMAIN films
                              ELSE key \in DOMAIN films /\ id = rq.id
       /\ films' = [k \in DOMAIN films \cup {key} |->
                      IF k = key THEN rq.time ELSE films[k]]
       /\ view' = [view EXCEPT ![c] = {[id |-> id, time |-> rq.time]}]
  /\ changed' = changed \cup {c}
  /\ UNCHANGED <<asked, answer>>

Reply(c) ==
  /\ Running(c)
  /\ \/ /\ asked[c].op = "list" \/ (Allowed(asked[c]) /\ c \in changed)
        /\ answer' = [answer EXCEPT ![c] = [outcome |-> "ok", rows |-> view[c]]]
     \/ /\ asked[c].op # "list" /\ ~Allowed(asked[c]) /\ c \notin changed
        /\ answer' = [answer EXCEPT ![c] = [outcome |-> "forbidden", rows |-> {}]]
     \/ \E outcome \in {"error", "notfound"} :
          /\ outcome = "notfound" => asked[c].op = "update"
          /\ answer' = [answer EXCEPT ![c] = [outcome |-> outcome, rows |-> {}]]
  /\ UNCHANGED <<films, asked, changed, view>>

\* The server stops: whoever waits is never answered.
Crash ==
  /\ answer' = [c \in Calls |->
                  IF Running(c) THEN [outcome |-> "lost", rows |-> {}] ELSE answer[c]]
  /\ UNCHANGED <<films, asked, changed, view>>

Next ==
  \/ \E c \in Calls : Look(c) \/ Change(c) \/ Reply(c) \/ \E rq \in Requests : Ask(c, rq)
  \/ Crash

Spec == Init /\ [][Next]_vars
=============================================================================
