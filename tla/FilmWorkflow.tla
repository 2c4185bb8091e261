----------------------------- MODULE FilmWorkflow -----------------------------
(***************************************************************************)
(* FilmService (internal/service/film_workflow.go) over PostgreSQL: Create,*)
(* List and UpdateTime as sequences of calls to the enforcer, the database,*)
(* the journal and the performance log, each of which may fail, with other *)
(* calls in between and a server that may stop at any point.  Nothing      *)
(* undoes what an earlier step has done.                                   *)
(*                                                                         *)
(* The enforcer is what DcsPipeline shows it to be: whatever the mode, the *)
(* caches and the switches, a decision is one of Decisions on the input of *)
(* the request, and the mode the film applier reads is either.             *)
(***************************************************************************)
EXTENDS DcsPep

CONSTANTS
  Calls,       \* calls, each made once: the request identifiers
  Requests,    \* [op, principal, id, time]
  NoRequest,
  Tenants,
  Ids, NoId,   \* film identifiers; the one a creation or a list names
  Times,       \* running times: a ciphertext stands for the time it holds
  Seed,        \* films at the start
  FilmMaps     \* classifications the resource "film" may have

Principals == [tenant : Tenants, user : STRING, role : STRING]

Ops == {"create", "list", "update"}

ActionOf == [create |-> "film.create", list |-> "film.read", update |-> "film.update_time"]

ASSUME WorkflowAssumption ==
  /\ Requests \subseteq [op : Ops, principal : Principals, id : Ids \cup {NoId}, time : Times]
  /\ NoRequest \notin Requests
  /\ NoId \notin Ids
  /\ \A rq \in Requests : rq.op = "update" <=> rq.id # NoId
  /\ Seed \in PartialMaps(Tenants \X Ids, Times)
  /\ FilmMaps \subseteq ClassMap

VARIABLES
  films,   \* table films: <<tenant, id>> -> time, the primary key and the ciphertext
  call,    \* call -> the local variables of its goroutine
  audit,   \* table audit_logs
  perf     \* table perf_logs: the calls it has a row for

vars == <<films, call, audit, perf>>

Idle == [pc |-> "idle", request |-> NoRequest, id |-> NoId, rows |-> {}, shown |-> {},
         reply |-> "none", wrote |-> FALSE, unlogged |-> FALSE]

PCs == {"idle", "authorize", "encrypt", "write", "written", "query", "read",
        "audit", "perf", "denyPerf", "denyAudit", "done"}
Replies == {"none", "ok", "forbidden", "notfound", "error", "lost"}

Row   == [id : Ids, time : Times]
Shown == [id : Ids, time : Times, form : Forms]

Call == [pc : PCs, request : Requests \cup {NoRequest}, id : Ids \cup {NoId},
         rows : SUBSET Row, shown : SUBSET Shown, reply : Replies,
         wrote : BOOLEAN, unlogged : BOOLEAN]

Entry == [call : Calls, outcome : {"allow", "deny"}, id : Ids \cup {NoId},
          touched : SUBSET Forms]

Running(c) == call[c].pc \notin {"idle", "done"}

Init ==
  /\ films = Seed
  /\ call = [c \in Calls |-> Idle]
  /\ audit = {}
  /\ perf = {}

-----------------------------------------------------------------------------
(* The enforcer.                                                           *)

FilmInput(p, action, m) ==
  [action |-> action, principal |-> p, tenant |-> p.tenant, type |-> "film", fields |-> m]

DecisionsFor(p, action) ==
  UNION {Decisions(FilmInput(p, action, m)) : m \in FilmMaps \cup {NoFields}}

\* EnforceFilmRead: the forms in which a film may be shown to a principal.
ReadForms(p) ==
  {FilmForm(d, dcs, "time_elapsed") : d \in DecisionsFor(p, "film.read"), dcs \in BOOLEAN}

NeedsVault == {"clear", "masked"}

-----------------------------------------------------------------------------
(* Steps of a call.  One that ends it keeps what is known of it.            *)

At(c, pc) == call[c].pc = pc

Becomes(c, r) == call' = [call EXCEPT ![c] = r]

Goes(c, pc) == Becomes(c, [call[c] EXCEPT !.pc = pc])

Ends(c, reply) ==
  Becomes(c, [call[c] EXCEPT !.pc = "done", !.reply = reply, !.shown = {}])

Begin(c, rq) ==
  /\ At(c, "idle")
  /\ Becomes(c, [Idle EXCEPT !.pc = IF rq.op = "list" THEN "query" ELSE "authorize",
                             !.request = rq, !.id = rq.id])
  /\ UNCHANGED <<films, audit, perf>>

\* The verdict.  A refused creation is logged in both logs, a refused update
\* in the journal only.
Authorize(c) ==
  LET rq == call[c].request IN
  /\ At(c, "authorize")
  /\ \E d \in DecisionsFor(rq.principal, ActionOf[rq.op]) :
       \/ /\ d.allow
          /\ Goes(c, "encrypt")
       \/ /\ ~d.allow
          /\ Becomes(c, [call[c] EXCEPT
                           !.pc = IF rq.op = "create" THEN "denyPerf" ELSE "denyAudit",
                           !.reply = "forbidden"])
  /\ UNCHANGED <<films, audit, perf>>

\* Vault encrypts the time, or fails: a creation still writes a perf row.
Encrypt(c) ==
  /\ At(c, "encrypt")
  /\ \/ Goes(c, "write")
     \/ IF call[c].request.op = "create"
        THEN Becomes(c, [call[c] EXCEPT !.pc = "denyPerf", !.reply = "error"])
        ELSE Ends(c, "error")
  /\ UNCHANGED <<films, audit, perf>>

-----------------------------------------------------------------------------
(* The table of films.                                                     *)

\* (A slip: the tenant is left out of the WHERE clause.)
FilmsNamedAnywhere(rq) ==
  {k \in DOMAIN films : k[2] = rq.id}

\* UPDATE films ... WHERE tenant_id = $2 AND id = $3
FilmsNamed(rq) ==
  {k \in DOMAIN films : k = <<rq.principal.tenant, rq.id>>}

\* (A slip: the identifier is left empty.)
FreshKeysEmpty(rq) ==
  {k \in {<<rq.principal.tenant, NoId>>} : k \notin DOMAIN films}

\* INSERT with gen_random_uuid(), under the primary key.
FreshKeys(rq) ==
  {k \in {<<rq.principal.tenant, id>> : id \in Ids} : k \notin DOMAIN films}

\* The statement commits; RETURNING gives the row as it leaves it.
Write(c) ==
  LET rq == call[c].request IN
  /\ At(c, "write")
  /\ \E k \in IF rq.op = "create" THEN FreshKeys(rq) ELSE FilmsNamed(rq) :
       /\ films' = [x \in DOMAIN films \cup {k} |-> IF x = k THEN rq.time ELSE films[x]]
       /\ Becomes(c, [call[c] EXCEPT !.pc = "written", !.id = k[2], !.wrote = TRUE,
                                     !.rows = {[id |-> k[2], time |-> rq.time]}])
  /\ UNCHANGED <<audit, perf>>

\* (A slip: the error of the statement is not looked at, and no row is shown.)
WriteFailsUnseen(c) ==
  /\ call[c].pc \in {"write", "written"}
  /\ Goes(c, "audit")
  /\ UNCHANGED <<films, audit, perf>>

\* An error before the commit, or after it and before the row came back.
\* UpdateTime takes every error for a missing film.
WriteFails(c) ==
  /\ call[c].pc \in {"write", "written"}
  /\ Ends(c, IF call[c].request.op = "create" THEN "error" ELSE "notfound")
  /\ UNCHANGED <<films, audit, perf>>

WriteReturns(c) ==
  /\ At(c, "written")
  /\ Goes(c, "read")
  /\ UNCHANGED <<films, audit, perf>>

\* SELECT ... WHERE tenant_id = $1
Query(c) ==
  LET mine == {k \in DOMAIN films : k[1] = call[c].request.principal.tenant} IN
  /\ At(c, "query")
  /\ \/ Becomes(c, [call[c] EXCEPT !.pc = IF mine = {} THEN "audit" ELSE "read",
                                   !.rows = {[id |-> k[2], time |-> films[k]] : k \in mine}])
     \/ Ends(c, "error")
  /\ UNCHANGED <<films, audit, perf>>

-----------------------------------------------------------------------------
(* The answer: rows are decided one at a time, and one failure fails all.  *)

SameRow(s, row) == s.id = row.id /\ s.time = row.time

Unread(r) == {row \in r.rows : \A s \in r.shown : ~SameRow(s, row)}

ReadRow(c) ==
  LET r == call[c] IN
  /\ At(c, "read")
  /\ \E row \in Unread(r), form \in ReadForms(r.request.principal) :
       Becomes(c, [r EXCEPT
                     !.shown = @ \cup {[id |-> row.id, time |-> row.time, form |-> form]},
                     !.pc = IF Unread(r) = {row} THEN "audit" ELSE "read"])
  /\ UNCHANGED <<films, audit, perf>>

\* (A slip: the caller is given what was read so far.)
ReadFailsPartly(c) ==
  /\ At(c, "read")
  /\ ReadForms(call[c].request.principal) \cap NeedsVault # {}
  /\ Goes(c, "audit")
  /\ UNCHANGED <<films, audit, perf>>

ReadFails(c) ==
  /\ At(c, "read")
  /\ ReadForms(call[c].request.principal) \cap NeedsVault # {}
  /\ Ends(c, "error")
  /\ UNCHANGED <<films, audit, perf>>

-----------------------------------------------------------------------------
(* The logs.  Errors are ignored: a failed write leaves no row.            *)

\* The fields a listing or a creation reports as decrypted, masked or denied;
\* an update reports none.
Touched(r) ==
  IF r.request.op = "update" THEN {} ELSE {s.form : s \in r.shown} \ {"cipher"}

Journal(c, outcome, touched, pc) ==
  \/ /\ audit' = audit \cup {[call |-> c, outcome |-> outcome, id |-> call[c].id,
                              touched |-> touched]}
     /\ Goes(c, pc)
  \/ /\ Becomes(c, [call[c] EXCEPT !.pc = pc, !.unlogged = TRUE])
     /\ UNCHANGED audit

Audit(c) ==
  /\ At(c, "audit")
  /\ Journal(c, "allow", Touched(call[c]), "perf")
  /\ UNCHANGED <<films, perf>>

DenyAudit(c) ==
  /\ At(c, "denyAudit")
  /\ Journal(c, "deny", {}, "done")
  /\ UNCHANGED <<films, perf>>

Perf(c) ==
  /\ At(c, "perf")
  /\ Becomes(c, [call[c] EXCEPT !.pc = "done", !.reply = "ok"])
  /\ perf' \in {perf, perf \cup {c}}
  /\ UNCHANGED <<films, audit>>

\* (A slip: only an error that carries a decision is taken for a refusal.)
DenyPerfOnly(c) ==
  /\ At(c, "denyPerf")
  /\ Goes(c, "done")
  /\ perf' \in {perf, perf \cup {c}}
  /\ UNCHANGED <<films, audit>>

DenyPerf(c) ==
  /\ At(c, "denyPerf")
  /\ Goes(c, IF call[c].reply = "forbidden" THEN "denyAudit" ELSE "done")
  /\ perf' \in {perf, perf \cup {c}}
  /\ UNCHANGED <<films, audit>>

-----------------------------------------------------------------------------

\* The process ends and starts anew: the tables stay, the goroutines do not.
Crash ==
  /\ call' = [c \in Calls |->
                IF Running(c)
                THEN [call[c] EXCEPT !.pc = "done", !.reply = "lost", !.shown = {}]
                ELSE call[c]]
  /\ UNCHANGED <<films, audit, perf>>

Step(c) ==
  \/ Authorize(c) \/ Encrypt(c)
  \/ Write(c) \/ WriteFails(c) \/ WriteReturns(c) \/ Query(c)
  \/ ReadRow(c) \/ ReadFails(c)
  \/ Audit(c) \/ DenyAudit(c) \/ Perf(c) \/ DenyPerf(c)

Next ==
  \/ \E c \in Calls : Step(c) \/ \E rq \in Requests : Begin(c, rq)
  \/ Crash

Spec == Init /\ [][Next]_vars

-----------------------------------------------------------------------------
(* Properties.                                                             *)

TypeOK ==
  /\ films \in PartialMaps(Tenants \X Ids, Times)
  /\ call \in [Calls -> Call]
  /\ audit \subseteq Entry
  /\ perf \subseteq Calls

\* What the policy lets a request do, in any mode.
Allowed(rq) == Verdict(ActionOf[rq.op], rq.principal.role).allow

Changes(r) == r.request.op \in {"create", "update"}

\* The journal tells the truth: a change it says was allowed was, and is in the
\* table or was overwritten since; one it says was denied was not made, and
\* never will be.  (A list is never denied as a whole.)
AuditTruthful ==
  \A e \in audit :
    LET r == call[e.call] IN
    /\ e.outcome = "allow" /\ Changes(r) => Allowed(r.request) /\ r.wrote /\ e.id = r.id
    /\ e.outcome = "deny" => Changes(r) /\ ~Allowed(r.request) /\ ~r.wrote

\* Every call that is answered with a film or a refusal is in the journal,
\* unless writing the journal failed; the journal of a creation or a list says
\* in which forms the time left.
AnswersJournalled ==
  \A c \in Calls :
    LET r == call[c] IN
    At(c, "done") /\ r.reply \in {"ok", "forbidden"} /\ ~r.unlogged =>
      \E e \in audit :
        /\ e.call = c
        /\ e.outcome = IF r.reply = "ok" THEN "allow" ELSE "deny"
        /\ r.request.op # "update" => {s.form : s \in r.shown} \ {"cipher"} = e.touched

\* A film holds what it held at the start or what an authorised call of its
\* own tenant wrote.
FilmsAuthorised ==
  \A k \in DOMAIN films :
    \/ k \in DOMAIN Seed /\ films[k] = Seed[k]
    \/ \E c \in Calls :
         LET r == call[c] IN
         /\ r.wrote /\ Allowed(r.request)
         /\ k = <<r.request.principal.tenant, r.id>>
         /\ films[k] = r.request.time

\* The forms of a shown row matter to the policy, not to the ledger.
RowsShown(r) == {[id |-> s.id, time |-> s.time] : s \in r.shown}

Ledger == INSTANCE FilmLedger WITH
  asked   <- [c \in Calls |-> call[c].request],
  changed <- {c \in Calls : call[c].wrote},
  view    <- [c \in Calls |-> call[c].rows],
  answer  <- [c \in Calls |->
                IF At(c, "done")
                THEN [outcome |-> call[c].reply, rows |-> RowsShown(call[c])]
                ELSE [outcome |-> "none", rows |-> {}]]

\* The service keeps the promise of FilmLedger, whatever fails.
ImplementsLedger == Ledger!Spec

\* README.md:609, "Audit complet : Chaque décision loguée avec détails
\* (fields_decrypted/masked/denied)": when nothing failed, the journal says of
\* every answer in which forms it showed the time.
DisclosureJournalled ==
  \A c \in Calls :
    LET r == call[c] IN
    At(c, "done") /\ r.reply = "ok" /\ ~r.unlogged =>
      \E e \in audit :
        e.call = c /\ {s.form : s \in r.shown} \ {"cipher"} \subseteq e.touched
=============================================================================
