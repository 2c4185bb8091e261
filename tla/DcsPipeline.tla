------------------------------ MODULE DcsPipeline ------------------------------
(***************************************************************************)
(* The DCS enforcer of the Go backend under concurrency.  Requests run     *)
(* through PIP (internal/dcs/pip), PDP (internal/dcs/pdp) and PEP          *)
(* (internal/dcs/pep, called from internal/dcs/enforcer) while             *)
(* administrators PATCH /admin/settings, classifications change in the     *)
(* database and cached entries expire.                                     *)
(*                                                                         *)
(* The backend holds no lock across a request: the settings and each cache *)
(* have a mutex of their own, held for one read or one write.  A step of a *)
(* request is therefore what happens up to and including one access to     *)
(* shared state, and the DCS mode is read afresh up to four times.         *)
(***************************************************************************)
EXTENDS DcsPep, CacheMap

CONSTANTS
  Slots,           \* concurrent requests
  Kinds,           \* requests: [action, type, principal]
  NoKind,          \* a slot that has served no request
  Admins,          \* concurrent PATCH handlers
  Types,           \* resource types
  StoredMaps,      \* type -> classifications the database may hold
  StaticMap,       \* type -> classification of the built-in fallback
  Levels,          \* cache levels an administrator may set
  MaxEntries       \* capacity of each cache

Principals == [tenant : STRING, user : STRING, role : STRING]

ASSUME PipelineAssumption ==
  /\ Kinds \subseteq [action : STRING, type : Types, principal : Principals]
  /\ NoKind \notin Kinds
  /\ StoredMaps \in [Types -> SUBSET ClassMap]
  /\ StaticMap \in [Types -> ClassMap]
  /\ \A t \in Types : StoredMaps[t] # {}
  /\ Levels \subseteq Int

\* The actions of the enforcer and the type of resource each names.
ASSUME KindsAssumption ==
  \A k \in Kinds :
    /\ k.action \in CacheableActions <=> k.type = "film"
    /\ k.action \in ReadActionNames =>
         k.type \in {"film", "spectator", "hall"} /\ FieldsOf(k.type) \subseteq FieldNames

VARIABLES
  dcsOn,      \* runtime.Settings.dcsMode, as DcsEnabled reads it
  level,      \* runtime.Settings.cacheLevel
  table,      \* rows of field_classification, per resource type
  clsCache,   \* Manager.Classification: type -> classification map
  pdpCache,   \* Manager.PDP: cache key -> decision
  admin,      \* where each PATCH handler stands
  req         \* the local variables of each request, and seen: the modes in
              \* force since it began, which the program does not record

vars     == <<dcsOn, level, table, clsCache, pdpCache, admin, req>>
settings == <<dcsOn, level>>
caches   == <<clsCache, pdpCache>>
world    == <<dcsOn, level, table, admin>>   \* all a request never changes

NoAnswer == [outcome |-> "none", shown |-> NothingShown]

Idle ==
  [pc |-> "idle", kind |-> NoKind, fields |-> NoFields, cacheable |-> FALSE,
   keyDcs |-> FALSE, decision |-> Denial("default_deny"), seen |-> {},
   answer |-> NoAnswer]

\* Provider.Build: the resource is put in the tenant of the principal.
Input(k, fields) ==
  [action |-> k.action, principal |-> k.principal,
   tenant |-> k.principal.tenant, type |-> k.type, fields |-> fields]

InputOf(r) == Input(r.kind, r.fields)

KeyOf(r) == CacheKey(r.keyDcs, InputOf(r))

PCs == {"idle", "clsLevel", "clsGet", "clsFetch", "clsLevel2", "clsPut",
        "pdpLevel", "pdpKey", "pdpGet", "pdpDecide", "pdpPut", "enforce", "done"}

Outcomes == {"none", "shown", "permitted", "forbidden", "error"}

AnswerSet == [outcome : Outcomes, shown : PartialMaps(FieldNames, Forms)]

Request ==
  [pc : PCs, kind : Kinds \cup {NoKind}, fields : ClassMap, cacheable : BOOLEAN,
   keyDcs : BOOLEAN, decision : Decision, seen : SUBSET BOOLEAN,
   answer : AnswerSet]

Keys == [dcs : BOOLEAN, action : STRING, principal : Principals,
         type : Types, fields : ClassMap]

\* The classifications a request can be working from, and the keys it makes.
PossibleMaps(t) == {NoFields, StaticMap[t]} \cup StoredMaps[t]
PossibleKeys ==
  UNION {{CacheKey(d, Input(k, m)) : d \in BOOLEAN, m \in PossibleMaps(k.type)} :
           k \in {x \in Kinds : x.action \in CacheableActions}}

Active(r) == r.pc \notin {"idle", "done"}

Init ==
  /\ dcsOn \in BOOLEAN
  /\ level \in Levels
  /\ table \in [Types -> UNION {StoredMaps[t] : t \in Types}]
  /\ \A t \in Types : table[t] \in StoredMaps[t]
  /\ clsCache = EmptyMap
  /\ pdpCache = EmptyMap
  /\ admin = [a \in Admins |-> "idle"]
  /\ req = [s \in Slots |-> Idle]

-----------------------------------------------------------------------------
(* Provider.Build: the classification of the resource.                     *)

\* A request arrives.  While DCS is off its resource has no fields.
Begin(s, k) ==
  /\ ~Active(req[s])
  /\ req' = [req EXCEPT ![s] = [Idle EXCEPT !.pc = IF dcsOn THEN "clsLevel" ELSE "pdpLevel",
                                            !.kind = k, !.seen = {dcsOn}]]
  /\ UNCHANGED <<world, caches>>

ClsLevel(s) ==
  /\ req[s].pc = "clsLevel"
  /\ req' = [req EXCEPT ![s].pc = IF level >= 1 THEN "clsGet" ELSE "clsFetch"]
  /\ UNCHANGED <<world, caches>>

\* (A slip: a miss waits for somebody else to fill the cache.)
ClsGetWaits(s) ==
  LET t == req[s].kind.type IN
  /\ req[s].pc = "clsGet"
  /\ req' = IF t \in DOMAIN clsCache
            THEN [req EXCEPT ![s].pc = "pdpLevel", ![s].fields = clsCache[t]]
            ELSE [req EXCEPT ![s].pc = "clsLevel"]
  /\ UNCHANGED <<world, caches>>

ClsGet(s) ==
  LET t == req[s].kind.type IN
  /\ req[s].pc = "clsGet"
  /\ req' = IF t \in DOMAIN clsCache
            THEN [req EXCEPT ![s].pc = "pdpLevel", ![s].fields = clsCache[t]]
            ELSE [req EXCEPT ![s].pc = "clsFetch"]
  /\ UNCHANGED <<world, caches>>

\* DBClassificationStore: the built-in map replaces an answer that fails or
\* that holds nothing.
Fetched(t) ==
  {StaticMap[t]} \cup {m \in {table[t]} : DOMAIN m # {}}

ClsFetch(s) ==
  /\ req[s].pc = "clsFetch"
  /\ \E m \in Fetched(req[s].kind.type) :
       req' = [req EXCEPT ![s].pc = "clsLevel2", ![s].fields = m]
  /\ UNCHANGED <<world, caches>>

ClsLevel2(s) ==
  /\ req[s].pc = "clsLevel2"
  /\ req' = [req EXCEPT ![s].pc = IF level >= 1 THEN "clsPut" ELSE "pdpLevel"]
  /\ UNCHANGED <<world, caches>>

ClsPut(s) ==
  /\ req[s].pc = "clsPut"
  /\ clsCache' \in Stored(clsCache, MaxEntries, req[s].kind.type, req[s].fields)
  /\ req' = [req EXCEPT ![s].pc = "pdpLevel"]
  /\ UNCHANGED <<world, pdpCache>>

-----------------------------------------------------------------------------
(* Engine.Evaluate: the decision.                                          *)

PdpLevel(s) ==
  LET cacheable == level >= 2 /\ req[s].kind.action \in CacheableActions IN
  /\ req[s].pc = "pdpLevel"
  /\ req' = [req EXCEPT ![s].pc = IF cacheable THEN "pdpKey" ELSE "pdpDecide",
                        ![s].cacheable = cacheable]
  /\ UNCHANGED <<world, caches>>

\* The key takes the mode as it is now ...
PdpKey(s) ==
  /\ req[s].pc = "pdpKey"
  /\ req' = [req EXCEPT ![s].pc = "pdpGet", ![s].keyDcs = dcsOn]
  /\ UNCHANGED <<world, caches>>

PdpGet(s) ==
  LET key == KeyOf(req[s]) IN
  /\ req[s].pc = "pdpGet"
  /\ req' = IF key \in DOMAIN pdpCache
            THEN [req EXCEPT ![s].pc = "enforce", ![s].decision = pdpCache[key]]
            ELSE [req EXCEPT ![s].pc = "pdpDecide"]
  /\ UNCHANGED <<world, caches>>

\* ... and the decision the mode as it is by then.
PdpDecide(s) ==
  /\ req[s].pc = "pdpDecide"
  /\ req' = [req EXCEPT ![s].pc = IF req[s].cacheable THEN "pdpPut" ELSE "enforce",
                        ![s].decision = Evaluate(dcsOn, InputOf(req[s]))]
  /\ UNCHANGED <<world, caches>>

PdpPut(s) ==
  /\ req[s].pc = "pdpPut"
  /\ pdpCache' \in Stored(pdpCache, MaxEntries, KeyOf(req[s]), req[s].decision)
  /\ req' = [req EXCEPT ![s].pc = "enforce"]
  /\ UNCHANGED <<world, clsCache>>

-----------------------------------------------------------------------------
(* Enforcement of the decision, and the answer.                            *)

EnforceStep(s) ==
  LET r == req[s] IN
  /\ r.pc = "enforce"
  /\ \E a \in Answers(r.kind.action, r.kind.type, r.decision, dcsOn) :
       req' = [req EXCEPT ![s] = [Idle EXCEPT !.pc = "done", !.kind = r.kind,
                                              !.seen = r.seen, !.answer = a]]
  /\ UNCHANGED <<world, caches>>

Step(s) ==
  \/ ClsLevel(s) \/ ClsGet(s) \/ ClsFetch(s) \/ ClsLevel2(s) \/ ClsPut(s)
  \/ PdpLevel(s) \/ PdpKey(s) \/ PdpGet(s) \/ PdpDecide(s) \/ PdpPut(s)
  \/ EnforceStep(s)

-----------------------------------------------------------------------------
(* What happens around the requests.                                       *)

\* PATCH /admin/settings, handleAdminSettings: the settings are set at once,
\* then each cache is cleared by itself.
Patch(a) ==
  /\ admin[a] = "idle"
  /\ dcsOn' \in BOOLEAN
  /\ level' \in Levels
  /\ admin' = [admin EXCEPT ![a] = "clearCls"]
  /\ req' = [s \in Slots |->
               IF Active(req[s])
               THEN [req[s] EXCEPT !.seen = @ \cup {dcsOn'}] ELSE req[s]]
  /\ UNCHANGED <<table, caches>>

ClearCls(a) ==
  /\ admin[a] = "clearCls"
  /\ clsCache' = EmptyMap
  /\ admin' = [admin EXCEPT ![a] = "clearPdp"]
  /\ UNCHANGED <<settings, table, pdpCache, req>>

ClearPdp(a) ==
  /\ admin[a] = "clearPdp"
  /\ pdpCache' = EmptyMap
  /\ admin' = [admin EXCEPT ![a] = "idle"]
  /\ UNCHANGED <<settings, table, clsCache, req>>

\* The rows of a resource type are changed in the database.
Reclassify(t) ==
  /\ \E m \in StoredMaps[t] : table' = [table EXCEPT ![t] = m]
  /\ UNCHANGED <<settings, caches, admin, req>>

\* An entry outlives its time to live and is a miss from then on.
ExpireCls(t) ==
  /\ t \in DOMAIN clsCache
  /\ clsCache' = Without(clsCache, t)
  /\ UNCHANGED <<world, pdpCache, req>>

\* (A slip: a decision is stored without a time to live.)
ExpirePdpNever(key) == FALSE /\ UNCHANGED vars

ExpirePdp(key) ==
  /\ key \in DOMAIN pdpCache
  /\ pdpCache' = Without(pdpCache, key)
  /\ UNCHANGED <<world, clsCache, req>>

Next ==
  \/ \E s \in Slots : Step(s) \/ \E k \in Kinds : Begin(s, k)
  \/ \E a \in Admins : Patch(a) \/ ClearCls(a) \/ ClearPdp(a)
  \/ \E t \in Types : Reclassify(t) \/ ExpireCls(t)
  \/ \E key \in DOMAIN pdpCache : ExpirePdp(key)

Spec == Init /\ [][Next]_vars

\* A request keeps running until it has its answer: no step waits for another
\* request, and calls to the database and to Vault end, if only in an error.
\* The clock expires an entry that nothing else has removed.
Fairness ==
  /\ \A s \in Slots : WF_vars(Step(s))
  /\ \A key \in PossibleKeys : WF_vars(ExpirePdp(key))

FairSpec == Spec /\ Fairness

-----------------------------------------------------------------------------
(* Properties.                                                             *)

\* Every variable holds a value of its kind.
TypeOK ==
  /\ dcsOn \in BOOLEAN
  /\ level \in Levels
  /\ table \in [Types -> ClassMap]
  /\ \A t \in Types : table[t] \in StoredMaps[t]
  /\ DOMAIN clsCache \subseteq Types
  /\ \A t \in DOMAIN clsCache : clsCache[t] \in ClassMap
  /\ DOMAIN pdpCache \subseteq Keys
  /\ \A key \in DOMAIN pdpCache : pdpCache[key] \in Decision
  /\ admin \in [Admins -> {"idle", "clearCls", "clearPdp"}]
  /\ req \in [Slots -> Request]

\* A request past the PDP.
Decided(r) == r.pc \in {"pdpPut", "enforce"}

\* An entry of the PDP cache is a decision of the policy on the very input its
\* key was made from, in one mode or the other (engine.go:31-56): whatever the
\* PATCHes between the key, the decision and the store, an entry never carries
\* another role's, another user's or another classification's decision.
CacheHoldsPolicy ==
  \A key \in DOMAIN pdpCache : pdpCache[key] \in Decisions(InputOfKey(key))

\* A request is enforced under a decision of the policy on its own input, even
\* when another request put the decision in the cache.
DecisionFits ==
  \A s \in Slots : Decided(req[s]) => req[s].decision \in Decisions(InputOf(req[s]))

\* Who may act never depends on the DCS mode, the cache level, the caches or
\* the classifications, nor on how they change during the request.
AllowIsPolicy ==
  \A s \in Slots :
    LET r       == req[s]
        allowed == AllowWithoutDCS(r.kind.action, r.kind.principal.role) IN
    /\ Decided(r) => r.decision.allow = allowed
    /\ r.answer.outcome = "permitted" => allowed
    /\ r.answer.outcome = "forbidden" => ~allowed

\* The classifications of a resource that enforcement may work from.
KnownMaps(t) == {StaticMap[t]} \cup StoredMaps[t]

\* A request is shown an encrypted field in clear only if DCS was on while it
\* ran and the policy decrypts the field for its role under a classification
\* the resource may have.
NoClearWithoutGrant ==
  \A s \in Slots :
    LET r == req[s] IN
    \A f \in DOMAIN r.answer.shown :
      r.answer.shown[f] = "clear" /\ r.kind.type \in {"film", "spectator"} =>
        /\ TRUE \in r.seen
        /\ \E m \in KnownMaps(r.kind.type) :
             f \in DOMAIN m /\ Decide(Input(r.kind, m)).fields[f] = "decrypt"

\* The answers a mode gives when it holds still and nothing is cached.
PermittedAnswers(k, mode) ==
  UNION {Answers(k.action, k.type, Evaluate(mode, Input(k, m)), mode) :
           m \in IF mode THEN KnownMaps(k.type) ELSE {NoFields}}

Enf == INSTANCE Enforcement WITH
  Callers   <- Slots,
  Permitted <- PermittedAnswers,
  mode      <- dcsOn,
  phase     <- [s \in Slots |-> CASE req[s].pc = "idle" -> "idle"
                                  [] req[s].pc = "done" -> "answered"
                                  [] OTHER              -> "waiting"],
  asked     <- [s \in Slots |-> req[s].kind],
  seen      <- [s \in Slots |-> req[s].seen],
  answer    <- [s \in Slots |-> req[s].answer]

\* Without the PDP cache, the up to four readings of the mode in one request
\* amount to a single one: the answer is that of a mode in force meanwhile.
ImplementsEnforcement == Enf!Spec

\* Every request is answered, whatever the administrators do meanwhile.
EveryRequestAnswered == \A s \in Slots : Active(req[s]) ~> req[s].pc = "done"

\* Once DCS stays on, requests are in the end decided with DCS on: a decision
\* taken while it was off does not survive its time to live in the cache.
EventuallyEnforced ==
  <>[]dcsOn =>
    <>[](\A s \in Slots : req[s].pc = "enforce" => req[s].decision.reason # "dcs_off")

-----------------------------------------------------------------------------
(* What the documentation says, and the code does not do.                  *)

\* README.md:678: the cache key holds dcs_enabled.  So a request during which
\* DCS was on all along is not served a decision taken with DCS off.
ServedInMode ==
  \A s \in Slots :
    req[s].pc = "enforce" /\ req[s].seen = {TRUE} => req[s].decision.reason # "dcs_off"

\* docs/go-backend-parity-checklist.md:159: ciphertext passthrough while DCS is
\* off.  So a request during which it was off all along, if it is shown the
\* resource, is shown the encrypted fields as they are stored.
OffPassthrough ==
  \A s \in Slots :
    LET r == req[s] IN
    r.seen = {FALSE} /\ r.answer.outcome = "shown" /\ r.kind.type \in {"film", "spectator"}
      => \A f \in DOMAIN r.answer.shown : r.answer.shown[f] = "cipher"

\* README.md:168: denied fields are suppressed.  So a step that enforces a
\* decision shows none of the fields it denies.
DenySuppresses ==
  [][\A s \in Slots :
       req[s].pc = "enforce" /\ req[s].pc' = "done" =>
         \A f \in DOMAIN req[s].decision.fields \cap DOMAIN req'[s].answer.shown :
           req[s].decision.fields[f] = "deny" => req'[s].answer.shown[f] = "null"]_vars
=============================================================================
