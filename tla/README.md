# Cinema DCS: a verification development of the Go backend

The repository is a proof of concept of data-centric security (DCS): a cinema
application whose sensitive columns are encrypted in the database, and whose
backend decides, per caller and per field, whether a value leaves in clear,
masked, encrypted or not at all. An operator can switch DCS on and off and
choose a cache level while the system serves requests. This directory holds
TLA+ models of the backend in Go (`backend-go/`), the TLC configurations that
check them, and TLAPS proofs about them.

Paths below are relative to `backend-go/internal/` unless they start with
`README.md`, `docs/` or `backend/`.

## 1. Inventory of the system

| Component | State | Operations | Talks to | What makes it correct |
|---|---|---|---|---|
| `dcs/cache/ttl.go` | map with expiry, bounded | `Get`, `Set`, `Clear` | its callers | bound kept; a hit is the last value set, and not too old |
| `dcs/cache/manager.go`, `dcs/runtime/settings.go` | four caches; mode and cache level | `LevelEnabled`, `ClearAll`, `Set`, `DcsEnabled` | all of DCS | a switch takes effect; nothing stale survives it for ever |
| PIP `dcs/pip` | none of its own | `Build`, `GetByResourceType` | classification cache, `field_classification` table | the classification used is one the resource has |
| PDP `dcs/pdp` | none of its own | `Evaluate` | PDP cache, settings | a decision is the policy's on the very input, even when cached |
| PEP and enforcer `dcs/pep`, `dcs/enforcer` | none of its own | `Evaluate*`, `Enforce*` | PIP, PDP, KMS | each field leaves in the form the decision says |
| KMS `dcs/kms` | KMS cache, pepper cache | `Encrypt`, `Decrypt`, `GetPepper`, lookup | Vault, or a local mock | what was encrypted can be decrypted; lookups find what was stored |
| Film workflow `service/film_workflow.go` | films table | `Create`, `List`, `UpdateTime` | enforcer, repository, audit, perf | a persisted write is answered and audited |
| Hall service `service/hall_service.go` | halls table | `Create`, `List` | enforcer, repository, perf | counts are of the tenant's own spectators |
| Spectator service `service/spectator_service.go` | spectators table | `Create`, `Search` | enforcer, repositories, audit, perf | a spectator is found by its external identifier |
| Audit and perf `service/audit_service.go`, `perf_service.go` | append-only tables | `WriteAudit`, `List`, summary | repositories | only an administrator reads them |
| Authentication `auth`, `service/auth_service.go`, `transport/http/middleware.go` | none (signed tokens) | login, validate | users table | a principal is the one who logged in |
| Settings handler `transport/http/security_handler.go` | none of its own | `PATCH /admin/settings` | settings, caches | see the caches |
| Servers and bootstrap `server`, `bootstrap`, `transport` | listeners, DB pool | start, shutdown | everything | requests end before their resources do |
| Python backend `backend/app` | same database, own settings and caches | the same workflows | Postgres, Vault | the two agree on the shared data |
| Frontend, gateway, infrastructure | none of interest here | presentation, proxying, provisioning | HTTP | not modelled |

How they interact: an HTTP handler takes the principal from a JWT or, without
one, from `X-` headers, and calls a service. The service calls the enforcer,
which runs PIP, PDP and PEP in sequence on the goroutine of the request. The
settings and each cache are guarded by a mutex of their own, held for a single
read or write: *no lock spans a request*. In one film read, the mode is read by
the PIP, twice by the PDP (for the key and for the decision) and by the film
applier, and the cache level three times. `PATCH /admin/settings` sets both
settings at once and then clears the four caches one after another.

What is hard: requests interleaved with one another and with a switch, at any of
these points; results stored in a cache after it was cleared; classifications
that change in the database while copies are cached; database or Vault calls
that fail half-way; entries that expire or are evicted at any time. The full
list, with the line where each bites, is under `hazards` in `PROJECT.json`.

## 2. Modules

| Module | What it is |
|---|---|
| `CacheMap` | the map inside a cache and what storing, removing and making room do to it |
| `LossyMap` | abstract: a map that may forget, but never invents |
| `TTLCache` | `cache.TTL` with its clock; implements `LossyMap` |
| `DcsPolicy` | the PDP as operators: action lists, matrix, hardening, `Decide`, `Evaluate`, `CacheKey` |
| `DcsPep` | the PEPs as operators: the form in which each field leaves, and the answers a caller can get |
| `Enforcement` | abstract: each call gets one answer, that of one mode in force during the call |
| `DcsPipeline` | requests through PIP, PDP and PEP, settings handlers, caches, classification table |
| `FilmLedger` | abstract: what the film service promises its callers, whatever fails |
| `FilmWorkflow` | creations, lists and updates of films as sequences of calls that may fail, and a server that may stop; implements `FilmLedger` |
| `Kms` | the two KMS clients as operators: ciphertexts, what each client makes of the other's, peppers, the keyed lookup |
| `SpectatorWorkflow` | spectators and halls: creations, searches and lists over either repository and either KMS client, with the pepper and level-3 caches, PATCHes and restarts |
| `AdminApi` | login, tokens and middlewares; the settings as administrators read and change them; the journal, the performance rows and their summary |
| `Lifecycle` | one process from `main` to its exit: both servers, the errgroup, signals, the shutdowns, the pool |
| `DcsDefaults` | the values `config.Defaults` returns, for the constants of `DcsPolicy` |
| `MCDcsPipeline`, `MCFilmWorkflow`, `MCSpectatorWorkflow`, `MCAdminApi` | small instances for TLC |
| `CacheMapProofs`, `TTLCacheProofs`, `DcsPolicyProofs`, `DcsPipelineProofs`, `FilmWorkflowProofs`, `SpectatorWorkflowProofs`, `AdminApiProofs`, `LifecycleProofs` | theorems and their proofs |

`SpectatorWorkflow`, `FilmWorkflow` and `DcsPipeline` extend `DcsPep`, which extends
`DcsPolicy`; `AdminApi` extends `DcsPolicy`. They are not composed into one state
machine: what a service needs of the enforcer is the decisions a request can
receive. For films, whose decisions may be cached, that is a decision in either
mode, which `DecisionFits` bounds in the pipeline; spectator and hall decisions are
never cached, so for them a call of the enforcer is one step in the mode then in
force, which `PipelineImplementsEnforcement` justifies. `Lifecycle` sees requests
only as holding a connection of the pool or not.

### TTLCache and LossyMap

`store` is the Go map, `now` the clock, and one action stands for each method
because each holds the mutex throughout. `Get` removes an entry that has expired
and only that one; `Set` makes room whenever the map is full, *even if the key is
already there*, and whichever key the iteration over a Go map meets first goes
(a set of possible maps). `written` and `answer` are history: the last value set
per key since `Clear`, and what the last `Get` returned. The refinement maps the
abstract content to the entries that have not expired: expiry, eviction and the
passing of time are all `Forget`.

### DcsPolicy and DcsPep

They are constant-level translations of `pdp/engine.go`, `pep/*.go` and the ends
of `enforcer/*.go`. A map keyed by field names is a function on the fields that
are present; values are abstracted to the form in which they leave, one of
`clear`, `masked`, `cipher`, `null`. The hash of a decision is a function of the
decision and is represented by it. SHA-256 of the cache key is taken to be
injective, so the key is the record it digests. `FilmForm` reads the mode again,
`SpectatorForm` never does, `HallForm` looks neither at the verdict nor at a
denial: as the code does. The film title is absent, because `EnforceFilmRead`
does not return what the applier did with it. That an agent or developer sees
only part of an identifier (`mask.go`) is the form `masked`.

### DcsPipeline

One record per request (`req[s]`) holds the local variables of the goroutine:
where it stands (`pc`), the kind of request, the classifications the PIP put on
the resource, whether the PDP cache is in use, the mode in the cache key, the
decision, and the answer. An action is what the code does up to and including
*one* access to shared state:

| Actions | Code |
|---|---|
| `Begin` | `Provider.Build`: the mode decides whether there are fields at all |
| `ClsLevel`, `ClsGet`, `ClsFetch`, `ClsLevel2`, `ClsPut` | `getClassificationMap`: level, cache, database or built-in map, level again, store |
| `PdpLevel`, `PdpKey`, `PdpGet`, `PdpDecide`, `PdpPut` | `Engine.Evaluate`: level, mode into the key, cache, mode into the decision, store |
| `EnforceStep` | the applier (with the mode read again) or the verdict, and the answer; the KMS may fail |
| `Patch`, `ClearCls`, `ClearPdp` | `handleAdminSettings`: `Settings.Set`, then `ClearAll` cache by cache |
| `ExpireCls`, `ExpirePdp` | an entry outlives its time to live |
| `Reclassify` | the rows of `field_classification` change (external) |

The caches are the maps of `CacheMap` with their real eviction rule; the clock is
abstracted to "an entry may expire at any time", justified by `TTLCache`, where
time only ever turns hits into misses. `seen` is the only history: the modes in
force since a request began.
Each read or creation is followed from the enforcer's entry to its return; the
services around the enforcer are not in this model, so a film creation appears as
two requests, `film.create` and `film.read`.

### FilmWorkflow and FilmLedger

One record per call (`call[c]`) holds the local variables of its goroutine; `films`,
`audit` and `perf` are the tables. An action is one call the service makes to
something outside itself, with its failure:

| Actions | Code |
|---|---|
| `Begin` | entry of `Create`, `List`, `UpdateTime` |
| `Authorize` | `EvaluateFilmCreate`, `EvaluateFilmUpdateTime` and the branches on the verdict |
| `Encrypt` | the encryption of the running time |
| `Write`, `WriteReturns`, `WriteFails` | the INSERT or UPDATE commits, its row comes back, or an error does |
| `Query` | the SELECT of a list |
| `ReadRow`, `ReadFails` | `EnforceFilmRead` on one row; one failure fails the call |
| `Audit`, `DenyAudit`, `Perf`, `DenyPerf` | the rows written in the two logs, whose errors are ignored |
| `Crash` | the process ends and starts anew: tables stay, calls do not |

The commit of a statement and the arrival of its row are two steps, because an
error in between is what makes an error ambiguous. The enforcer is abstracted to
`DecisionsFor`: a decision in either mode, on any classification a film may have, with
the mode of the applier chosen apart from it. This is more than the pipeline can
do, so the properties do not rest on when an administrator switches. A
ciphertext is represented by the time it holds. The repository is the one for
PostgreSQL, with its primary key on tenant and identifier and with
`gen_random_uuid`; a fresh identifier is one the table does not hold. `wrote` and
`unlogged` are history: that the statement of a call committed, and that its
journal row failed.

`FilmLedger` says in five actions what a caller may rely on. A call changes at most
one film, once, in its own tenant, and only if the policy lets it. `ok` means that the
change took place and that the rows shown are those of one moment; `forbidden`
that no change was or will be made; any other answer, or none, says nothing
about the change.

### SpectatorWorkflow and Kms

A ciphertext is its author and its text; nothing else in a column tells which client
wrote it, because both write the same prefix. Vault refuses what its key did not
encrypt (`Decrypts`), the mock decodes anything to something (`Garbage`). Name, age and
external identifier are encrypted and decrypted one after the other by the same
client, so the ciphertext of the identifier stands for the three. The digest of a
normalised identifier under a pepper is taken to be injective.

`process` is what `setupInfrastructure` and `setupServices` wired: PostgreSQL or
memory, Vault or the mock, whichever could be reached. `pepper` is the pepper cache,
with its single entry, `plain` the ciphertexts the level-3 cache holds the plaintext
of; a plaintext is a function of its ciphertext, so the key suffices. `Forget` drops
either at any time: expiry and eviction.

| Actions | Code |
|---|---|
| `BeginCreate`, `BeginSearch`, `BeginHallCreate`, `BeginHallList` | the handlers, with the refusal of a body that lacks a field |
| `FindHall`, `Authorize`, `Encrypt` | `SpectatorService.Create` up to the lookup: hall of the tenant, verdict, encryption |
| `GetPepper`, `ReadPepper`, `StorePepper` | `VaultTransit.GetPepper`: level and cache, Vault KV, level again and store; the static pepper of the mock |
| `Insert`, `InsertInMemory` | the INSERT with its foreign key and unique index, and the memory store that has neither |
| `Query` | the SELECT of a search by tenant and lookup |
| `Read`, `Decrypt`, `Transit`, `StorePlain` | `EnforceSpectatorRead` on one row, and `Decrypt` with its cache |
| `Mask` | the mode read once more for the identifier, and the row added to the answer |
| `Audit`, `DenyAudit` | the journal, which only a process with a database keeps and whose errors are ignored |
| `AuthorizeHall`, `HallInsert`, `HallQuery`, `HallRead` | `HallService.Create` and `List`, one count per hall, an error counting as 0 |
| `Patch`, `ClearAll` | `PATCH /admin/settings` |
| `Restart` | the process ends and another starts with what it can reach: PostgreSQL stays, memory does not |

`seen` (the modes in force since the call began), `before` (the creations acknowledged
by then), `on` (the process that serves it) and `unlogged` are history.

### AdminApi

A call is a login, one of the five routes for administrators, or *work*: any operation
on films, halls or spectators, of which only the rows it leaves in the two logs are
kept. `users` is the table, changed from outside (`ChangeRole`); `now` is the clock.

| Actions | Code |
|---|---|
| `Login`, `LookUp`, `Sign` | `handleLogin`, `AuthService.Login`, `GenerateToken`: read the user, compare, sign |
| `Guard` | `adminMiddleware`, `optionalJWTMiddleware`, `principalFromRequest` |
| `PatchSettings`, `ShowMode`, `ShowLevel` | `handleAdminSettings`: `Settings.Set`, and the answer, which reads mode and level again one at a time |
| `Work`, `Journal`, `FillMode`, `FillLevel`, `Measure` | the rows a service leaves, stamped before they are inserted, with the two settings read separately |
| `HandleAudit`, `HandlePerf`, `HandleSummary` | parameters and the question to the PDP |
| `ListAudit`, `ListPerf`, `Summary` | the queries: newest first up to a limit; grouped by mode and level |

### Lifecycle

`main`, `http` and `grpc` are the program counters of the goroutine of `main` and of the two
`Start` functions, `listener` and `served` the goroutines in `ListenAndServe` and `Serve`,
`group` the error the errgroup keeps. `New` may panic, because the log line slices the
first 20 bytes of `DATABASE_URL`. `ShutdownReturns` is either the drain or the timeout of
five seconds (`gaveUp`, history), and `Start` returns nil in both cases. `GrpcStopped`
waits for every call. `Close` starts the closing of the pool, `PoolCloses` ends it once every
connection is back, `Exit` cuts whatever still runs.

## 3. What is checked

| Run | Instance | Distinct states | What it shows |
|---|---|---|---|
| `ttl_cache` | 3 keys, 2 values, limit 2, TTL 2, clock to 5 | 57,000 | `WithinLimit`, `HitIsLastWrite`, refinement of `LossyMap` |
| `films` | 2 requests, 1 administrator, level 2, caches of one entry, a reader who may decrypt and one who may not | 1,461,000 | `CacheHoldsPolicy`, `DecisionFits`, `NoClearWithoutGrant` with the PDP cache on and evicting |
| `all_types` | 2 requests, 1 administrator, levels 0 and 1, films, spectators and halls | 773,000 | `NoClearWithoutGrant`; refinement of `Enforcement` |
| `progress` | 1 request at a time, levels 0 and 2, six kinds of request | 160,000 | `AllowIsPolicy`, `EveryRequestAnswered`, `EventuallyEnforced` |
| `film_workflow` | 3 calls out of six requests, 2 tenants, 2 identifiers | 339,000 | `AuditTruthful`, `AnswersJournalled`, `FilmsAuthorised`; refinement of `FilmLedger` |
| `spectators` | 2 calls out of eleven requests, 2 tenants, levels 0 and 3, 2 processes (`MaxStarts`) | 2,003,000 | `SearchComplete`, `AnswersTrue`, `IdentifiersUnique`, `HallsExist`, `OneModeAnswers`, `JournalAgrees`, `CountsReal` |
| `lifecycle` | 2 requests, 1 gRPC stream, three kinds of `DATABASE_URL` | 8,056 | `Undisturbed`, `ExitTruthful`, `ShutdownEnds` |
| `admin_api` | 2 calls out of thirteen requests, clock to 3 (`MaxTime`), tokens that live 2 (`TTL`), 1 change of the users (`MaxChanges`) | 919,000 | `LoggedIn`, `RoleWasHeld`, `BearerBinds`, `ListsNewest`, `SummaryCounts`, `SettingsByAdmins` |

Four runs are expected to fail; they are the findings of section 5.

Why the bounds suffice. In `ttl_cache`, three keys and a limit of two make
eviction and overwriting at the limit happen, and the clock passes two
lifetimes. In the pipeline a request interacts with others only through the
caches, and with the administrators through two settings: two requests show every
pairwise use of a cache entry (one stores, the other reads, in any order,
across any number of PATCHes, since handlers never run out), and one entry per
cache makes every store an eviction of somebody else's entry. One administrator
is enough because two overlapping PATCHes differ from two successive ones only
in the order of clears, and a clear is also a series of expiries, which the
model allows at any time. `all_types` keeps to levels below 2 because the
refinement of `Enforcement` is false above (section 5). `progress` has a single
slot, reused for ever, because nothing a request does waits for another; the
cache carries decisions from one request to the next.
The level-3 cache is not in the pipeline: it holds plaintext by ciphertext and
takes part in no decision.

In `film_workflow` calls meet only in the table of films, through single
statements, so two calls show every interference on a film and the third a list
or an update of what another call has just created: the film `f2` exists only then.
Both tenants have a film `f1`, so that a statement that forgot the tenant would
be seen. Any number of crashes may happen. Calls are interchangeable (symmetry).
`ImplementsLedger` and the invariants are proved for any number of calls (section 4).

In `spectators` a creation and a search, or two creations, are all that can meet on
one identifier; the table starts with a row in the other tenant under the same
identifier, so that a statement that forgot the tenant would be seen, and `a` and
`A` are one identifier typed twice. Two starts give every pair of wirings of the
process, also the ones that change client or table between a creation and
a search. Levels 0 and 3 switch both caches off and on. All are
proved for any number of calls, rows and starts.

In `lifecycle` one stream is enough to keep `GracefulStop` waiting, and two requests
let one be in time and one late. The safety properties are proved for any number.

In `admin_api` two calls are a login and the use of its token, a row and a reading
of it, or a PATCH and a summary; a token lives for two ticks out of three, so it is
used before, at and after its expiry, and a role is withdrawn before and after
the signature. A login with an empty field or a body that is not JSON (400) counts as one
with the wrong password: neither does anything. `TTL` is smaller than what the response announces (4), so that confusing
the two would be seen. Lists have a limit of 1 among rows of two sources, two tenants and
several instants; with two calls only one journal row of a tenant can exist when a list is
read, so it is the performance rows, some of which are there at the start, that reach the
limit and show the order. All properties are proved for any number of calls, users and rows, any
limit and any clock.

The runs of `Lifecycle`, `SpectatorWorkflow`, `AdminApi` and `FilmWorkflow` do not
check for deadlock: calls are made once each, the clock is bounded, and a process
ends.

The properties, in words:

* `CacheHoldsPolicy`, `DecisionFits`: an entry of the PDP cache is a decision on
  the input its key was made from, in one mode or the other; so a request is
  enforced under a decision on its own principal, action and classifications.
* `AllowIsPolicy`: who may act does not depend on the mode, the caches or the
  classifications. The code has two rule sets, and this is what makes switching
  DCS off safe for writes.
* `NoClearWithoutGrant`: an encrypted field is shown in clear only if DCS was on
  at some point of the request and the policy decrypts it for that role under a
  classification the resource may have.
* `ImplementsEnforcement`: with the PDP cache off, reading the mode up to four times
  is unobservable: the answer is that of a single mode in force meanwhile. The
  model found this less obvious than it looks: a decision taken with DCS off
  carries no field actions, and it is only because a film field without action
  leaves as ciphertext in both modes that a mixture cannot be told from a pure one.
* `AuditTruthful`: an entry that reports a change as allowed is about a change that
  was made, of the film it names; one that reports a denial is about a change that
  never happens, whatever fails afterwards.
* `AnswersJournalled`: conversely, whoever was shown a film or refused is in the
  journal, unless writing the journal itself failed; and for a creation or a list the
  entry names the forms in which the running time left.
* `FilmsAuthorised`: what a film holds was there at the start or was written by an
  allowed call of the film's own tenant, across crashes and overlapping updates.
* `ImplementsLedger`: the service keeps the promise of `FilmLedger`; in particular no
  answer shows another caller's value as its own, no partial list leaves, and an
  acknowledged change was made.
* `SearchComplete`: a search finds every spectator of its tenant whose creation under that
  identifier, however typed, had been acknowledged before it began, by a process with
  the same kind of client and the same table: whatever the pepper cache held, and
  across PATCHes and restarts.
* `AnswersTrue`: what a search shows is of the caller's tenant and has the identifier
  asked for; a row another kind of client wrote is never reached, so nothing is shown
  garbled, although the column keeps ciphertexts of both.
* `IdentifiersUnique`: one spectator per identifier and tenant in PostgreSQL, under each
  kind of client, however creations overlap.
* `HallsExist`: every spectator sits in a hall of its own tenant, in memory too, where
  only the lookup of the hall by tenant sees to it; no table loses a hall while it lives, so the
  lookup cannot go stale before the INSERT.
* `OneModeAnswers`: the fields are those of a mode in force during the call, and so is the
  masking of the identifier, which reads the mode again; after a switch the two may be of
  different modes, which nothing forbids.
* `JournalAgrees`: creations and searches that are answered or refused are in the journal, with
  their outcome, unless writing it failed. The entry of a creation names the forms that left; that of
  a search names none, whatever it showed, which is what the code does and not what the documents
  promise (section 5). A creation the journal allows is in the table; and a spectator in
  PostgreSQL that it does not name is of a call that still runs, that was acknowledged while
  the journal failed, or that ended in an error or with its process: never of one that was refused.
* `CountsReal`: a count of spectators in a list of halls is one there was during the call, or
  the zero of a failed query.
* `LoggedIn`: whoever changes the settings or reads logs holds a token of an administrator that a
  login with the right password returned; `X-` headers never make one.
* `RoleWasHeld`: the role a token acts under is one the table gave the user, read before the
  signature and less than `JWT_TTL_MINUTES` before its use, counted from the signature.
* `SettingsByAdmins`: every change of the settings is the PATCH of a caller whose token named an
  administrator and had not expired at the middleware, a role the table had given. This is about the
  step that sets them, also of calls that are never answered; the token may have expired, and the
  role been withdrawn, by the time the handler runs.
* `BearerBinds`: work that came with a bearer token is in the logs under that token's tenant, or
  not at all; it never falls back on the headers.
* `ListsNewest`, `SummaryCounts`: a list leaves a row out only if it is full of rows at least as
  recent; a summary accounts for every row there was and counts none twice; neither mixes
  tenants or sources.
* `Undisturbed`: a request meets a closed pool, or is cut by the exit, only if it outlived
  the five seconds, or its listener had failed.
* `ExitTruthful`: status 1 means that a server failed, status 0 that a signal came and every gRPC call
  has ended; the pool is closed by then. A server that fails after the signal may still end with
  status 0, and the panic of a short `DATABASE_URL` is neither.
* `ShutdownEnds`: a signal, or the failure of one server, ends the process, unless a client keeps
  a gRPC call open for ever.
* `EveryRequestAnswered`, `EventuallyEnforced`: requests end, and once DCS stays
  on no request is enforced under a decision taken with DCS off any more.

Fairness. `WF(Step(s))`: a goroutine is scheduled by the Go runtime, waits for no
other request, holds a mutex only for one map operation, and its calls to
Postgres and Vault end, if only in an error. `WF(ExpirePdp(key))`: every entry has
a time to live and the clock advances; an expired entry that is still in the map
is a miss. Nothing is assumed of administrators, of new requests or of the
database: a PATCH may stop between its clears, and no property needs it to go on.
In `Lifecycle`, weak fairness of the steps of `main` and of the two `Start` functions
(goroutines that only wait for what their guards name), of `ShutdownReturns` (the context of
`Shutdown` has a deadline) and of `QueryEnds` (the database ends its queries, if only
in an error, which closing the pool waits for). Nothing is assumed of clients, of signals
or of failures; that is why `ShutdownEnds` has its exception.

## 4. What is proved

The theorems hold for every value of the constants that satisfies the named
assumptions of the modules: any number of requests, administrators and calls,
any configuration of the policy, any classifications, any bound and time to live.

| Module | Theorems |
|---|---|
| `TTLCacheProofs` | `TypeCorrect`, `LimitKept`, `HitsAreFresh`, `CacheIsLossyMap`: `Spec => []P` for `TypeOK`, `WithinLimit`, `HitIsLastWrite`, and the refinement of `LossyMap` |
| `DcsPolicyProofs` | `VerdictAgreement`, `ModeNeverChangesAllow` (the two rule sets agree), `ClearNeedsDecrypt` (only an allowing decision that says decrypt lets a film or spectator field out in clear) |
| `DcsPipelineProofs` | `TypeCorrect`, `CacheCorrect`, `DecisionCorrect`, `AllowCorrect`, `ClearIsGranted`: `Spec => []P` for `TypeOK`, `CacheHoldsPolicy`, `DecisionFits`, `AllowIsPolicy`, `NoClearWithoutGrant`; `PipelineImplementsEnforcement`: the refinement of `Enforcement`, while nothing is cached by the PDP |
| `FilmWorkflowProofs` | `TypeCorrect`, `FilmsAreAuthorised`, `JournalIsTruthful`, `AnswersAreJournalled`, `WorkflowImplementsLedger` |
| `SpectatorWorkflowProofs` | `TypeCorrect`, `RowsHoused`, `ModesRespected`, `JournalTruthful`, `CountsAreReal`, and while one pepper is in use `OneRowPerIdentifier`, `SearchesTruthful`, `SearchesFind`: `Spec => []P` for `TypeOK`, `HallsExist`, `OneModeAnswers`, `JournalAgrees`, `CountsReal`, `IdentifiersUnique`, `AnswersTrue`, `SearchComplete` |
| `AdminApiProofs` | `TypeCorrect`, `LoginsComeFirst`, `BearersBind`, `ListsAreNewest`, `SummariesCount`, `OnlyAdministratorsPatch`, and while `OneLifetime` holds `RolesWereHeld`: `Spec => []P` for `TypeOK`, `LoggedIn`, `BearerBinds`, `ListsNewest`, `SummaryCounts`, `RoleWasHeld`, and the action property `SettingsByAdmins` |
| `LifecycleProofs` | `TypeCorrect`, `StopsUndisturbed`, `ExitsTruthfully`: `Spec => []P` for `TypeOK`, `Undisturbed`, `ExitTruthful` |

The assumptions say that kinds, classification maps, levels, requests and seeds are
of their types, that film actions are exactly those whose decisions may be
cached, that a read names one of the three types with classified fields, and that
an update names a film. `NothingCached`, a hypothesis of the refinement theorem
only, says that no request has both a cacheable action and a level that
turns the PDP cache on. It is needed: with the cache on, the refinement is false (section 5).
Of spectators, `SeedAssumption` says that the rows at the start are what earlier processes
created: in halls that exist, under genuine and distinct lookups. `OnePepper`, a
hypothesis of three theorems, says that the configured path of the pepper and the
constant one searches use hold the same pepper, as they do by default. It is needed:
with two peppers in Vault a creation is filed under one and looked for under the
other, or under whichever the only cache entry happens to hold.
Of the administrators' routes, `AdminApiAssumption` says that the policy grants the two
readings as audit actions only, that a PATCH the handler accepts sets a level the settings know
(`security_handler.go` refuses negative ones), and that rows of other processes are finitely many and name no call
of this one. `OneLifetime`, a hypothesis of `RolesWereHeld` only, says that a token
of an earlier process with the same secret was not given a longer life than `JWT_TTL_MINUTES` now is.
It is needed: `ValidateToken` looks at the expiry in the token, so shortening the configured life
does not shorten that of the tokens already out.

The arguments:

* **The cache.** `HitIsLastWrite` needs a mirror between `store` and `written`: every
  entry in the map holds the value last set, and the expiry that was computed for it.
  The bound needs, besides, that the domain is a finite set; `CacheMapProofs` says
  what storing and making room do to it.
* **The pipeline.** `CacheHoldsPolicy` is not inductive: what is stored was decided a
  step earlier. With the condition that a request past the PDP holds a decision on
  its own input (`DecisionFits`) it is. The inverse of the cache key, `InputOfKey`,
  carries the argument: the key determines the input, hence the decisions it may
  receive. `AllowIsPolicy` follows for the decision by `ModeNeverChangesAllow`, and
  for the answer because an answer is kept until the slot is reused.
  `NoClearWithoutGrant` needs that the classifications in use and in the cache are
  known ones, and that a decision with field actions, or a film applied with DCS
  on, means DCS was on at some point.
* **One mode per answer.** A request that by-passes the PDP cache has seen every mode
  it has used. Its fields, its decision and its enforcement may be of different modes;
  the lemma `MixedIsPermitted` shows case by case that the mixture is what one of
  those modes alone gives.
* **The workflow.** The invariant `Good` says, place by place, what a call has done by
  then and what it has seen. `Keeps` is what no step takes away: what a call wrote, and
  what the journal says of it once it is past. Every action is shown to be a move
  that establishes `Good` and respects `Keeps`; the theorems on films and journal follow
  from these two and from what the journal steps write, and the refinement maps `Write` to a change, `Query` to a look,
  the step that ends a call to a reply, and every other step to a stutter. The only
  fact about the policy it uses is that all decisions on a request have one verdict.

* **Spectators.** The invariant `Good` of a call is a conjunction of what its place implies:
  what was asked (`Placed`), which process serves it (`Bound`), the rows it has gathered
  (`Gathered`), that the hall of a creation is still there (`Housed`), that it has no row before its
  INSERT and an acknowledged one after (`Written`), the modes used (`Moded`), the journal
  (`Logged`), the pepper (`Peppered`), the meaning of what a search shows (`Truthful`). None of the
  theorems is inductive alone: `SearchComplete` rests on `Genuine`, that every row's
  lookup is the one of its ciphertext under the pepper of its author, and on `Searched`,
  that a search past its SELECT holds every row it owes; `AnswersTrue` rests on the peppers of
  the two clients being different, which makes a lookup betray the author of its row.
  `Grows` is what a step of one call leaves of the world of the others, and
  `GoodStays` shows that this suffices; `Restart` is apart, because it empties the memory
  tables: there `Bound` says that a call of an earlier process promises nothing of them.
* **The journal of spectators.** What it says of a call that is over (`Logged`) and that it names only rows
  there are (`JournalKeyed`) are in the invariant. The converse, which row it may not know, is `Accounted`,
  inductive on top of it: a row appears with an INSERT only, of a call that has none before
  (`Written`); from there the call goes on to its answer, whose step writes the entry or notes that it
  could not, or it fails, or is lost to a restart.
* **The counts of halls.** `CountsReal` says nothing of a list that is not finished. `AllNumbered` says it
  of every count as soon as it is taken, and is inductive on top of the invariant above.
  A row of PostgreSQL never changes; a new one belongs to a creation that is not yet
  acknowledged, hence was not when any list began. So the spectators a list must count
  (`Known`) are fixed, those it may count (`Here`) only become more, and the cardinalities of
  finite sets keep the order.
* **Administrators.** The invariant `Good` of a call is again what its place implies: what was asked
  (`Placed`), whose token let it in (`Admitted`, `Accepted`), what the table said of who
  logs in (`Signing`), that the rows it remembers are still there (`Remembered`), and what its answer
  shows (`Shown`). `LoggedIn` and `RoleWasHeld` look back over a login that may be long past, and
  become inductive with `Tokens`: every token that exists is of an earlier process, or was
  *earned*, by a login that succeeded and with a role that is in `held`. `BearerBinds` needs `Rows`, that
  every row is of a call that was let through and does work: such a call keeps its tenant until it ends
  (`Follows`). The two readings need that rows are never lost and that the logs are finite
  sets; `SummaryCounts`, that a count of the rows of a group grows with the table.
  `SettingsByAdmins` follows from the same invariant: the only step that changes the settings
  is that of a call past the middleware.
* **Lifecycle.** The theorems need the order of phases (`Phases`), that the pool is closed only
  after both servers have returned (`Ended`), that the errgroup's error is that of a
  server that failed and that without one the servers stopped for a signal (`Blamed`),
  and that no connection is taken once `Shutdown` has begun, nor in use once it has
  returned in time (`Quiet`).

TLC checks each of these properties on the instances above as well, and checked each
inductive invariant before it was proved. Every invariant, action property and
refinement of the passing runs is proved, some under the hypotheses named above. Only model-checked are the three liveness properties
(`EveryRequestAnswered`, `EventuallyEnforced`, `ShutdownEnds`), since fairness and `ENABLED`
are out of the prover's reach, and the four statements of section 5, which are false.

## 5. Where code and documents disagree

* **`ServedInMode`** (`dcs/pdp/engine.go:34`). `README.md:678` says the cache key holds
  the mode. It does, but the decision is computed from a second reading at
  line 41. A PATCH between them makes a `dcs_off` decision be stored under the key
  of DCS on, and if the store follows `ClearAll`, later film reads with DCS on
  all along are served it: they get ciphertext instead of the masked or decrypted
  value, until the entry expires. `EventuallyEnforced` shows that it does not last,
  `AllowIsPolicy` and `NoClearWithoutGrant` that it neither lets anyone write nor
  shows plaintext.
* **`OffPassthrough`** (`dcs/pep/spectator_applier.go:64`). `README.md:54` and
  `docs/go-backend-parity-checklist.md:159` promise ciphertext while DCS is off.
  Films do this; spectator fields are null, because an absent action is a denial
  and the applier never asks for the mode.
* **`DisclosureJournalled`** (`service/film_workflow.go:256`). `README.md:609` promises an
  audit of which fields were decrypted, masked or denied. `UpdateTime` shows the
  updated film under the read policy, in clear to an agent, and journals the update
  with none of the three lists. `AnswersJournalled` shows that creations and lists do.
  Searches of spectators do the same (`service/spectator_service.go:220`): name, age and identifier of
  every match leave decrypted or masked, and the three lists of the row are nil, also against
  `README.md:631` ("qui a vu quoi"). That is a conjunct of `JournalAgrees`: the row of a search names
  no form whatever it showed, in the run `spectators` and, proved, for any number of calls.
* **`DenySuppresses`** (`dcs/enforcer/hall.go:111`). `README.md:168` says denied fields
  are removed. `EnforceHallRead` only masks: a role outside the matrix, which
  `X-Role` allows, is shown fields its decision denies.

Two more disagreements need no run, since they are about what the code does not have at all.
`HallService` keeps the audit service it is given and never calls it: creations and lists of halls
leave no journal row, allowed or refused, although `README.md:609` promises one for every decision; the
model has none either, and `JournalAgrees` is about creations and searches of spectators only.
`README.md:720` calls the cache of the PDP LRU, but `ttl.go` evicts whichever key the iteration over a
Go map meets first; the models follow the code, and no property relies on an order of eviction.

## 6. What is not modelled, and why

* **The Python backend** (`backend/app`). A second implementation, in another language, of what the
  Go backend does, with settings and caches of its own. The two meet only in the
  database, and there each is, to the other, rows of another source (`SeedPerf` in
  `AdminApi`) and spectators of another process (`SeedPeople` in `SpectatorWorkflow`).
* **Frontend, gateway, provisioning.** Presentation and scripts; no state machine of their
  own. The constraints of the SQL schema are in the guards of `Insert` and `Write`.
* **`config.Load`.** It reads a file once, before anything runs; what it may yield is what the
  constants range over, and the proofs hold for all of it.
* **The memory repository of films.** `FilmWorkflow` is about PostgreSQL. The memory one gives every
  film the same identifier (see the hazards), which makes its lists and updates uninteresting
  beyond the first film.
* **What the health service reports while running**, besides the calls it keeps open.
* **The content of fields**, of masks and of ciphertexts, SHA-256 and HMAC (taken to be
  injective), signatures and passwords (a yes or a no).

What could follow: one composed model of a PATCH with all four caches and the spectator
workflow; and two backends with separate settings over one database.
