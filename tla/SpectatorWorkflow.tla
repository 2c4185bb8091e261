-------------------------- MODULE SpectatorWorkflow --------------------------
(***************************************************************************)
(* SpectatorService and HallService (internal/service), over whichever     *)
(* repositories and KMS client the process chose when it started           *)
(* (internal/bootstrap/http.go): a process that cannot reach PostgreSQL    *)
(* keeps its tables in memory, one that cannot use Vault encrypts with the *)
(* local mock.  Calls are sequences of steps; other calls, PATCHes of the  *)
(* settings, failures and restarts come in between.                        *)
(*                                                                         *)
(* The name, the age and the external identifier of a spectator are        *)
(* encrypted and decrypted one after the other by the same client: the     *)
(* ciphertext of the identifier stands for the three.  A call of the       *)
(* enforcer is one step in the mode then in force, as DcsPipelineProofs    *)
(* justifies: spectator decisions are never cached.                        *)
(***************************************************************************)
EXTENDS DcsPep, Kms, Naturals, FiniteSets

CONSTANTS
  Calls,            \* calls, each made once
  Requests,         \* [op, principal, hall, ident, complete]
  NoRequest,
  Tenants, Halls, NoHall,
  Ids, NoId,        \* spectator identifiers; a call is the identifier it draws
  NoIdent, NoPepper, NoProcess,
  SeedHalls,        \* halls in PostgreSQL at the start: <<tenant, hall>>
  MemoryHall,       \* the hall a process without a database starts with
  SeedPeople,       \* spectators in PostgreSQL at the start
  SpectatorMap,     \* classification of the resource "spectator"
  Levels,           \* cache levels an administrator may set
  StartMode, StartLevel,  \* DCS_MODE and CACHE_LEVEL
  ConfigPath,       \* VAULT_KV_PEPPER_PATH, used by creations
  MaxStarts         \* bound on the number of processes

\* defaultPepperPath: what a search uses, whatever the configuration.
SearchPath == "secret/dcs"

Ops == {"create", "search", "hallCreate", "hallList"}

\* The operations whose answers show spectators.
Spectating == {"create", "search"}

ActionOf == [create |-> "spectator.create", search |-> "search.spectator"]

Stores == {"postgres", "memory"}

Keys == Tenants \X Ids
Person == [hall : Halls, ct : Ciphertext, lookup : Lookups]
IsTable(f) == DOMAIN f \subseteq Keys /\ f \in [DOMAIN f -> Person]

\* The pepper under which a kind of client creates.
PepperOf(client) == IF client = "local" THEN LocalPepper ELSE PepperAt[ConfigPath]

Process == [client : Clients, store : Stores, start : 1..MaxStarts]

Principals == [tenant : Tenants, user : STRING, role : STRING]

ASSUME SpectatorAssumption ==
  /\ Requests \subseteq [op : Ops, principal : Principals, hall : Halls \cup {NoHall},
                         ident : Idents \cup {NoIdent},
                         complete : BOOLEAN]  \* the body has every field it must have
  /\ Calls \subseteq Ids /\ Calls \subseteq Halls
  /\ \A k \in DOMAIN SeedPeople : k[2] \notin Calls
  /\ \A h \in SeedHalls \cup {MemoryHall} : h[2] \notin Calls
  /\ NoRequest \notin Requests /\ NoHall \notin Halls /\ NoId \notin Keys
  /\ NoIdent \notin Idents \cup {Garbage} /\ NoPepper \notin Peppers /\ NoProcess \notin Process
  /\ \A rq \in Requests :
       /\ rq.op = "create" /\ rq.complete => rq.hall \in Halls
       /\ rq.op \in Spectating /\ rq.complete => rq.ident \in Idents
  /\ SeedHalls \subseteq Tenants \X Halls /\ MemoryHall \in Tenants \X Halls
  /\ IsTable(SeedPeople) /\ IsFiniteSet(DOMAIN SeedPeople)
  /\ SpectatorMap \in ClassMap
  /\ Levels \subseteq Nat /\ StartLevel \in Levels /\ StartMode \in BOOLEAN
  /\ {ConfigPath, SearchPath} \subseteq DOMAIN PepperAt
  /\ MaxStarts \in Nat \ {0}

\* The spectators at the start are what earlier processes created.
ASSUME SeedAssumption ==
  \A k \in DOMAIN SeedPeople :
    LET person == SeedPeople[k] IN
    /\ <<k[1], person.hall>> \in SeedHalls
    /\ person.lookup = Lookup(PepperOf(person.ct.by), person.ct.text)
    /\ \A j \in DOMAIN SeedPeople :
         j[1] = k[1] /\ SeedPeople[j].lookup = person.lookup => j = k

VARIABLES
  process,  \* what the running process was wired with
  mode, level,   \* runtime.Settings
  clearing, \* a PATCH has set them and not yet cleared the caches
  pepper,   \* cache.Manager.Pepper, one entry whatever the path
  plain,    \* cache.Manager.KMS: the ciphertexts it holds the plaintext of
  halls,    \* store -> its halls
  people,   \* store -> its spectators
  call, audit

env  == <<process, mode, level, clearing>>
caches == <<pepper, plain>>
tables == <<halls, people>>
vars == <<env, caches, tables, call, audit>>

Idle == [pc |-> "idle", request |-> NoRequest, pepper |-> NoPepper, id |-> NoId, rows |-> {},
         text |-> NoIdent, forms |-> NothingShown, shown |-> {}, reply |-> "none",
         unlogged |-> FALSE, seen |-> {}, before |-> {}, on |-> NoProcess]

PCs == {"idle", "hall", "authorize", "authorizeHall", "encrypt",
        "pepper", "readPepper", "storePepper",
        "insert", "query", "read", "decrypt", "transit", "storePlain", "mask",
        "hallInsert", "hallQuery", "hallRead", "audit", "denyAudit", "done"}
Replies == {"none", "ok", "invalid", "forbidden", "notfound", "error", "lost"}

SpectatorForms == {NothingShown} \cup [FieldsOf("spectator") -> Forms]
ShownPerson == [id : Keys, whole : BOOLEAN, forms : SpectatorForms,
                text : Idents \cup {NoIdent, Garbage}]
ShownHall == [hall : Halls, count : Nat]

Entry == [call : Calls, outcome : {"allow", "deny"}, id : Keys \cup {NoId},
          touched : SUBSET Forms]

\* Calls that may still read the mode.
Deciding(c) == call[c].seen # {} /\ call[c].pc \notin {"audit", "denyAudit", "done"}

\* What a start may come to: without a Vault that answers and is unsealed the
\* mock, without a database that answers tables in memory.
Wired(start) == {[client |-> k, store |-> s, start |-> start] : k \in Clients, s \in Stores}

Running(c) == call[c].pc \notin {"idle", "done"}

FreshCaches == pepper = NoPepper /\ plain = {}

Init ==
  /\ process \in Wired(1)
  /\ mode = StartMode /\ level = StartLevel /\ clearing = FALSE
  /\ FreshCaches
  /\ halls = [postgres |-> SeedHalls, memory |-> {MemoryHall}]
  /\ people = [postgres |-> SeedPeople, memory |-> <<>>]
  /\ call = [c \in Calls |-> Idle]
  /\ audit = {}

-----------------------------------------------------------------------------
(* Steps of a call.                                                        *)

At(c, pc) == call[c].pc = pc

Becomes(c, r) == call' = [call EXCEPT ![c] = r]

Goes(c, pc) == Becomes(c, [call[c] EXCEPT !.pc = pc])

\* The call comes to nothing: of what it did only the tables know.
Drop(r, pc, reply) == [Idle EXCEPT !.pc = pc, !.request = r.request, !.reply = reply]

Fails(c) == Becomes(c, Drop(call[c], "done", "error"))

-----------------------------------------------------------------------------
(* The process: settings, caches, restarts.                                *)

\* PATCH /admin/settings: Settings.Set, then ClearAll.  (The caches are cleared
\* one after the other, which forgetting an entry sooner or later amounts to;
\* concurrent PATCHes are DcsPipeline's concern.)
Patch ==
  /\ ~clearing
  /\ mode' \in BOOLEAN /\ level' \in Levels
  /\ clearing' = TRUE
  /\ call' = [c \in Calls |-> IF Deciding(c) THEN [call[c] EXCEPT !.seen = @ \cup {mode'}]
                                             ELSE call[c]]
  /\ UNCHANGED <<process, caches, tables, audit>>

ClearAll ==
  /\ clearing
  /\ clearing' = FALSE
  /\ plain' = {} /\ pepper' = NoPepper
  /\ UNCHANGED <<process, mode, level, tables, call, audit>>

\* An entry expires or is evicted (TTLCache: a map that may forget).
Forget ==
  /\ \/ pepper' = NoPepper /\ pepper # NoPepper /\ UNCHANGED plain
     \/ \E ct \in plain : plain' = plain \ {ct} /\ UNCHANGED pepper
  /\ UNCHANGED <<env, tables, call, audit>>

\* The process ends, and another starts with what it can reach.
Restart ==
  /\ process.start < MaxStarts
  /\ process' \in Wired(process.start + 1)
  /\ mode' = StartMode /\ level' = StartLevel /\ clearing' = FALSE
  /\ pepper' = NoPepper /\ plain' = {}
  /\ halls' = [halls EXCEPT !["memory"] = {MemoryHall}]
  /\ people' = [people EXCEPT !["memory"] = <<>>]
  /\ call' = [c \in Calls |-> IF Running(c) THEN Drop(call[c], "done", "lost")
                              ELSE call[c]]
  /\ UNCHANGED audit

-----------------------------------------------------------------------------
(* A call begins.                                                          *)

\* The spectators whose creation has been acknowledged.
Acknowledged == {x \in Calls : call[x].reply = "ok" /\ call[x].request.op = "create"}

\* The handler refuses a body or a query that lacks a field.
Enters(c, rq, op, pc) ==
  /\ At(c, "idle") /\ rq.op = op
  /\ \/ ~rq.complete /\ Becomes(c, [Idle EXCEPT !.pc = "done", !.request = rq, !.reply = "invalid"])
     \/ /\ rq.complete
        /\ Becomes(c, [Idle EXCEPT
             !.pc = pc, !.request = rq, !.on = process,
             !.seen = IF op \in Spectating THEN {mode} ELSE {},
             !.before = IF op \in {"search", "hallList"} THEN Acknowledged ELSE {}])
  /\ UNCHANGED <<env, caches, tables, audit>>

BeginCreate(c, rq)     == Enters(c, rq, "create", "hall")
BeginSearch(c, rq)     == Enters(c, rq, "search", "authorize")
BeginHallCreate(c, rq) == Enters(c, rq, "hallCreate", "authorizeHall")
BeginHallList(c, rq)   == Enters(c, rq, "hallList", "hallQuery")

\* (A slip: the tenant is left out of the WHERE clause.)
HallNamedAnywhere(rq) == \E t \in Tenants : <<t, rq.hall>> \in halls[process.store]

\* HallRepository.FindByID
HallNamed(rq) == <<rq.principal.tenant, rq.hall>> \in halls[process.store]

FindHall(c) ==
  /\ At(c, "hall")
  /\ \/ HallNamed(call[c].request) /\ Goes(c, "authorize")
     \/ ~HallNamed(call[c].request) /\ Becomes(c, Drop(call[c], "done", "notfound"))
     \/ process.store = "postgres" /\ Fails(c)
  /\ UNCHANGED <<env, caches, tables, audit>>

Decided(rq, action) ==
  Evaluate(mode, [action |-> action, principal |-> rq.principal, tenant |-> rq.principal.tenant,
                  type |-> "spectator", fields |-> SpectatorMap])

\* A refused creation or search is written to the journal.
Authorize(c) ==
  LET rq == call[c].request
      allowed == Decided(rq, ActionOf[rq.op]).allow IN
  /\ At(c, "authorize")
  /\ \/ allowed /\ Goes(c, IF rq.op = "create" THEN "encrypt" ELSE "pepper")
     \/ ~allowed /\ Becomes(c, Drop(call[c], "denyAudit", "forbidden"))
  /\ UNCHANGED <<env, caches, tables, audit>>

\* A refused hall is not.
AuthorizeHall(c) ==
  LET allowed == Decided(call[c].request, "hall.create").allow IN
  /\ At(c, "authorizeHall")
  /\ \/ allowed /\ Goes(c, "hallInsert")
     \/ ~allowed /\ Becomes(c, Drop(call[c], "done", "forbidden"))
  /\ UNCHANGED <<env, caches, tables, audit>>

\* The three fields are encrypted.
Encrypt(c) ==
  /\ At(c, "encrypt")
  /\ \/ Goes(c, "pepper")
     \/ process.client = "vault" /\ Fails(c)
  /\ UNCHANGED <<env, caches, tables, audit>>

-----------------------------------------------------------------------------
(* The pepper, and the digest it keys.                                     *)

PathOf(rq) == IF rq.op = "create" THEN ConfigPath ELSE SearchPath

HasPepper(c, p) ==
  Becomes(c, [call[c] EXCEPT !.pepper = p,
                !.pc = IF call[c].request.op = "create" THEN "insert" ELSE "query"])

GetPepper(c) ==
  /\ At(c, "pepper")
  /\ \/ process.client = "local" /\ HasPepper(c, LocalPepper)
     \/ /\ process.client = "vault"
        /\ IF level >= 1 /\ pepper # NoPepper THEN HasPepper(c, pepper)
                                              ELSE Goes(c, "readPepper")
  /\ UNCHANGED <<env, caches, tables, audit>>

ReadPepper(c) ==
  /\ At(c, "readPepper")
  /\ \/ LET p == PepperAt[PathOf(call[c].request)] IN
        IF level >= 1 THEN Becomes(c, [call[c] EXCEPT !.pepper = p, !.pc = "storePepper"])
                      ELSE HasPepper(c, p)
     \/ Fails(c)
  /\ UNCHANGED <<env, caches, tables, audit>>

StorePepper(c) ==
  /\ At(c, "storePepper")
  /\ pepper' = call[c].pepper
  /\ HasPepper(c, call[c].pepper)
  /\ UNCHANGED <<env, plain, tables, audit>>

-----------------------------------------------------------------------------
(* The tables.                                                             *)

\* (A slip: the hall is left out of the row.)
NewPersonUnseated(c) ==
  [hall |-> NoHall, ct |-> Encrypted(process.client, call[c].request.ident),
   lookup |-> Lookup(call[c].pepper, call[c].request.ident)]

NewPerson(c) ==
  LET rq == call[c].request IN
  [hall |-> rq.hall, ct |-> Encrypted(process.client, rq.ident),
   lookup |-> Lookup(call[c].pepper, rq.ident)]

\* The foreign key on halls and the unique index on (tenant, lookup).
Admitted(tenant, person) ==
  /\ <<tenant, person.hall>> \in halls["postgres"]
  /\ \A k \in DOMAIN people["postgres"] :
       k[1] = tenant => people["postgres"][k].lookup # person.lookup

\* The row goes in under a fresh UUID.
Inserts(c) ==
  LET key == <<call[c].request.principal.tenant, c>> IN
  people' = [people EXCEPT ![process.store] =
               [k \in DOMAIN @ \cup {key} |-> IF k = key THEN NewPerson(c) ELSE @[k]]]

Seated(c) ==
  Becomes(c, [call[c] EXCEPT !.pc = "read", !.pepper = NoPepper,
                             !.rows = {<<call[c].request.principal.tenant, c>>}])

\* PostgreSQL may refuse the row, or commit it and lose the connection.
Insert(c) ==
  /\ At(c, "insert") /\ process.store = "postgres"
  /\ \/ /\ Admitted(call[c].request.principal.tenant, NewPerson(c))
        /\ Inserts(c)
        /\ Seated(c) \/ Fails(c)
     \/ Fails(c) /\ UNCHANGED people
  /\ UNCHANGED <<env, caches, halls, audit>>

InsertInMemory(c) ==
  /\ At(c, "insert") /\ process.store = "memory"
  /\ Inserts(c) /\ Seated(c)
  /\ UNCHANGED <<env, caches, halls, audit>>

\* SELECT ... WHERE tenant_id = $1 AND external_id_lookup = $2
Matching(tenant, lookup) ==
  LET all == people[process.store] IN
  {k \in DOMAIN all : k[1] = tenant /\ all[k].lookup = lookup}

Query(c) ==
  LET rq == call[c].request
      found == Matching(rq.principal.tenant, Lookup(call[c].pepper, rq.ident)) IN
  /\ At(c, "query")
  /\ \/ Becomes(c, [call[c] EXCEPT !.pc = IF found = {} THEN "audit" ELSE "read",
                                   !.rows = found, !.pepper = NoPepper])
     \/ process.store = "postgres" /\ Fails(c)
  /\ UNCHANGED <<env, caches, tables, audit>>

HallInsert(c) ==
  /\ At(c, "hallInsert")
  /\ \/ /\ halls' = [halls EXCEPT ![process.store] =
                       @ \cup {<<call[c].request.principal.tenant, c>>}]
        /\ \/ Becomes(c, [call[c] EXCEPT !.pc = "done", !.reply = "ok",
                                          !.shown = {[hall |-> c, count |-> 0]}])
           \/ process.store = "postgres" /\ Fails(c)
     \/ process.store = "postgres" /\ Fails(c) /\ UNCHANGED halls
  /\ UNCHANGED <<env, caches, people, audit>>

\* ListByTenant
HallsOf(tenant) == {h \in Halls : <<tenant, h>> \in halls[process.store]}

HallQuery(c) ==
  LET mine == HallsOf(call[c].request.principal.tenant) IN
  /\ At(c, "hallQuery")
  /\ \/ IF mine = {} THEN Becomes(c, [call[c] EXCEPT !.pc = "done", !.reply = "ok"])
                     ELSE Becomes(c, [call[c] EXCEPT !.pc = "hallRead", !.rows = mine])
     \/ process.store = "postgres" /\ Fails(c)
  /\ UNCHANGED <<env, caches, tables, audit>>

\* (A slip: the tenant is left out of the WHERE clause.)
SpectatorsInAnywhere(tenant, h) ==
  {k \in DOMAIN people["postgres"] : people["postgres"][k].hall = h}

\* SELECT COUNT(*) FROM spectators WHERE tenant_id = $1 AND hall_id = $2
SpectatorsIn(tenant, h) ==
  {k \in DOMAIN people["postgres"] : k[1] = tenant /\ people["postgres"][k].hall = h}

\* In memory nothing ever counts the spectators.
Counts(tenant, h) ==
  IF process.store = "memory" THEN {0} ELSE {0, Cardinality(SpectatorsIn(tenant, h))}

\* One count per hall, each its own query, whose error is ignored.
HallRead(c) ==
  LET r == call[c]
      left == {h \in r.rows : \A s \in r.shown : s.hall # h} IN
  /\ At(c, "hallRead")
  /\ \E h \in left : \E n \in Counts(r.request.principal.tenant, h) :
       Becomes(c, [r EXCEPT !.shown = @ \cup {[hall |-> h, count |-> n]},
                            !.pc = IF left = {h} THEN "done" ELSE "hallRead",
                            !.reply = IF left = {h} THEN "ok" ELSE @])
  /\ UNCHANGED <<env, caches, tables, audit>>

-----------------------------------------------------------------------------
(* What is shown of a spectator: the fields as EnforceSpectatorRead decides *)
(* them, then the identifier as the mode says once more.                   *)

Read(c) ==
  LET r == call[c]
      d == Decided(r.request, "spectator.read")
      forms == [f \in FieldsOf("spectator") |-> SpectatorForm(d, f)]
      secret == \E f \in FieldsOf("spectator") : forms[f] \in {"clear", "masked"} IN
  /\ At(c, "read")
  /\ \E k \in {x \in r.rows : \A s \in r.shown : s.id # x} :
       Becomes(c, [r EXCEPT !.id = k, !.forms = forms,
                            !.pc = IF secret THEN "decrypt" ELSE "mask"])
  /\ UNCHANGED <<env, caches, tables, audit>>

Cipher(c) == people[process.store][call[c].id].ct

HasText(c, pc) ==
  Becomes(c, [call[c] EXCEPT !.text = Plaintext(process.client, Cipher(c)), !.pc = pc])

Decrypt(c) ==
  /\ At(c, "decrypt")
  /\ \/ process.client = "local" /\ HasText(c, "mask")
     \/ /\ process.client = "vault"
        /\ IF level >= 3 /\ Cipher(c) \in plain THEN HasText(c, "mask")
                                                ELSE Goes(c, "transit")
  /\ UNCHANGED <<env, caches, tables, audit>>

Transit(c) ==
  /\ At(c, "transit")
  /\ \/ Decrypts("vault", Cipher(c)) /\ HasText(c, IF level >= 3 THEN "storePlain" ELSE "mask")
     \/ Fails(c)
  /\ UNCHANGED <<env, caches, tables, audit>>

StorePlain(c) ==
  /\ At(c, "storePlain")
  /\ plain' = plain \cup {Cipher(c)}
  /\ Goes(c, "mask")
  /\ UNCHANGED <<env, pepper, tables, audit>>

\* (A slip: the role is what decides, whatever the mode.)
ShowsWholeToAdmins(rq) == rq.principal.role = "admin"

ShowsWhole(rq) == ~mode \/ rq.principal.role = "admin"

Mask(c) ==
  LET r == call[c]
      shown == r.shown \cup {[id |-> r.id, whole |-> ShowsWhole(r.request), forms |-> r.forms,
                              text |-> r.text]} IN
  /\ At(c, "mask")
  /\ Becomes(c, [r EXCEPT !.shown = shown, !.id = NoId, !.forms = NothingShown,
                          !.text = NoIdent,
                          !.pc = IF r.rows = {s.id : s \in shown} THEN "audit" ELSE "read"])
  /\ UNCHANGED <<env, caches, tables, audit>>

-----------------------------------------------------------------------------
(* The journal, which only a process with a database keeps, and whose      *)
(* errors are ignored.                                                     *)

FormsIn(forms) == {forms[f] : f \in DOMAIN forms}

\* (A slip: an operation that writes is taken to show nothing.)
TouchedNothing(r) == {}

\* A creation reports what was decrypted, masked or denied, a search nothing.
Touched(r) == IF r.request.op = "create" THEN UNION {FormsIn(s.forms) : s \in r.shown} ELSE {}

Journal(c, outcome, reply) ==
  LET r == call[c]
      entry == [call |-> c, outcome |-> outcome, touched |-> Touched(r),
                id |-> IF r.request.op = "create" /\ outcome = "allow"
                       THEN <<r.request.principal.tenant, c>> ELSE NoId]
      done == [r EXCEPT !.pc = "done", !.reply = reply, !.rows = {}] IN
  \/ process.store = "postgres" /\ audit' = audit \cup {entry} /\ Becomes(c, done)
  \/ Becomes(c, [done EXCEPT !.unlogged = TRUE]) /\ UNCHANGED audit

Audit(c) ==
  /\ At(c, "audit")
  /\ Journal(c, "allow", "ok")
  /\ UNCHANGED <<env, caches, tables>>

DenyAudit(c) ==
  /\ At(c, "denyAudit")
  /\ Journal(c, "deny", "forbidden")
  /\ UNCHANGED <<env, caches, tables>>

-----------------------------------------------------------------------------

Begin(c, rq) ==
  \/ BeginCreate(c, rq) \/ BeginSearch(c, rq)
  \/ BeginHallCreate(c, rq) \/ BeginHallList(c, rq)

Step(c) ==
  \/ FindHall(c) \/ Authorize(c) \/ AuthorizeHall(c) \/ Encrypt(c)
  \/ GetPepper(c) \/ ReadPepper(c) \/ StorePepper(c)
  \/ Insert(c) \/ InsertInMemory(c) \/ Query(c) \/ HallInsert(c) \/ HallQuery(c) \/ HallRead(c)
  \/ Read(c) \/ Decrypt(c) \/ Transit(c) \/ StorePlain(c) \/ Mask(c)
  \/ Audit(c) \/ DenyAudit(c)

Next ==
  \/ \E c \in Calls : Step(c) \/ \E rq \in Requests : Begin(c, rq)
  \/ Patch \/ ClearAll \/ Forget
  \/ Restart

Spec == Init /\ [][Next]_vars

-----------------------------------------------------------------------------
(* Properties.                                                             *)

Call == [pc : PCs, request : Requests \cup {NoRequest}, pepper : Peppers \cup {NoPepper},
         id : Keys \cup {NoId}, rows : (SUBSET Keys) \cup (SUBSET Halls),
         text : Idents \cup {NoIdent, Garbage}, forms : SpectatorForms,
         shown : (SUBSET ShownPerson) \cup (SUBSET ShownHall), reply : Replies,
         unlogged : BOOLEAN, seen : SUBSET BOOLEAN, before : SUBSET Calls,
         on : Process \cup {NoProcess}]

TypeOK ==
  /\ process \in Process
  /\ mode \in BOOLEAN /\ level \in Levels /\ clearing \in BOOLEAN
  /\ pepper \in Peppers \cup {NoPepper} /\ plain \subseteq Ciphertext
  /\ halls \in [Stores -> SUBSET (Tenants \X Halls)]
  /\ people = [s \in Stores |-> people[s]] /\ \A s \in Stores : IsTable(people[s])
  /\ call \in [Calls -> Call]
  /\ audit \subseteq Entry

Answered(c, op) == At(c, "done") /\ call[c].reply = "ok" /\ call[c].request.op = op

SameDirectory(p, q) ==
  /\ p.client = q.client /\ p.store = q.store
  /\ p.store = "memory" => p.start = q.start

\* A search finds every spectator of its tenant whose creation under that
\* identifier, however it was typed, had been acknowledged before the search
\* began, by a process with the same kind of client and the same tables,
\* across restarts and whatever the pepper cache held.
SearchComplete ==
  \A c \in Calls :
    Answered(c, "search") =>
      \A x \in call[c].before :
        LET r == call[c]
            w == call[x] IN
        /\ w.request.op = "create" /\ SameDirectory(w.on, r.on)
        /\ w.request.principal.tenant = r.request.principal.tenant
        /\ Norm[w.request.ident] = Norm[r.request.ident]
        => <<w.request.principal.tenant, x>> \in {s.id : s \in r.shown}

\* Whatever a search shows is a spectator of the caller's tenant with that
\* identifier, and what it decrypts is what was typed: a row another kind of
\* client wrote is never reached, so nothing is shown garbled.
AnswersTrue ==
  \A c \in Calls :
    Answered(c, "search") =>
      \A s \in call[c].shown :
        /\ s.id[1] = call[c].request.principal.tenant
        /\ s.text # NoIdent =>
             s.text \in Idents /\ Norm[s.text] = Norm[call[c].request.ident]

\* In PostgreSQL an identifier names one spectator of a tenant, under each kind
\* of client, however many creations overlap and however it was typed.
IdentifiersUnique ==
  LET table == people["postgres"] IN
  \A j, k \in DOMAIN table :
    j[1] = k[1] /\ table[j].ct.by = table[k].ct.by
    /\ Norm[table[j].ct.text] = Norm[table[k].ct.text] => j = k

\* Every spectator sits in a hall of its own tenant, also in memory, where
\* nothing but the check at the start of the creation sees to it.
HallsExist ==
  \A s \in Stores : \A k \in DOMAIN people[s] : <<k[1], people[s][k].hall>> \in halls[s]

\* What a mode shows of a spectator.
FormsOf(m, p) ==
  LET d == Evaluate(m, [action |-> "spectator.read", principal |-> p, tenant |-> p.tenant,
                        type |-> "spectator", fields |-> SpectatorMap])
  IN  [f \in FieldsOf("spectator") |-> SpectatorForm(d, f)]

\* When one mode was in force throughout a call, fields and identifier are those
\* of that mode, although the mode is read once for the fields and once more
\* for the identifier; otherwise each is that of one of the modes.
OneModeAnswers ==
  \A c \in Calls : \A op \in {"create", "search"} :
    Answered(c, op) =>
      \A s \in call[c].shown :
        LET p == call[c].request.principal IN
        /\ \E m \in call[c].seen : s.forms = FormsOf(m, p)
        /\ \E m \in call[c].seen : s.whole = (~m \/ p.role = "admin")

\* The journal of a process with a database, and what it leaves out.  Unless
\* writing it failed, every creation or search that is answered or refused is in
\* it with its outcome; the entry of a creation names the forms in which the
\* fields left, that of a search none, whatever it showed.  A creation the
\* journal allows is in the table; and the row of one it does not know belongs to
\* a call that still runs, was acknowledged while the journal failed, or ended in
\* an error or with its process: never to one that was refused.
JournalAgrees ==
  /\ \A c \in Calls :
       LET r == call[c] IN
       At(c, "done") /\ r.reply \in {"ok", "forbidden"} /\ ~r.unlogged
       /\ r.request.op \in Spectating =>
         \E e \in audit :
           /\ e.call = c /\ e.outcome = (IF r.reply = "ok" THEN "allow" ELSE "deny")
           /\ e.touched = IF r.request.op = "create"
                          THEN UNION {FormsIn(s.forms) : s \in r.shown} ELSE {}
  /\ \A e \in audit :
       e.id # NoId => e.outcome = "allow" /\ e.id \in DOMAIN people["postgres"]
  /\ \A k \in DOMAIN people["postgres"] :
       k[2] \in Calls /\ (\A e \in audit : e.id # k) =>
         LET r == call[k[2]] IN
         \/ Running(k[2])
         \/ r.reply \in {"error", "lost"}
         \/ r.reply = "ok" /\ r.unlogged

\* The number of spectators a list of halls shows is a number there was during
\* the call, or the zero that stands for a failed count.
CountsReal ==
  \A c \in Calls :
    Answered(c, "hallList") /\ call[c].on.store = "postgres" =>
      \A s \in call[c].shown :
        LET tenant == call[c].request.principal.tenant
            now == {k \in DOMAIN people["postgres"] :
                      k[1] = tenant /\ people["postgres"][k].hall = s.hall}
            known == {k \in now : k[2] \in Calls => k[2] \in call[c].before} IN
        s.count = 0 \/ s.count \in Cardinality(known)..Cardinality(now)
=============================================================================
