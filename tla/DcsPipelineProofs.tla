--------------------------- MODULE DcsPipelineProofs ---------------------------
(***************************************************************************)
(* Safety of the DCS enforcer, for every number of concurrent requests and *)
(* administrators, every policy, every classification and every capacity   *)
(* of the caches, and what a caller can tell of the order of its steps.    *)
(***************************************************************************)
EXTENDS DcsPipeline, DcsPolicyProofs, CacheMapProofs

-----------------------------------------------------------------------------
(* Types.                                                                  *)

LEMMA NothingShownType == NothingShown \in PartialMaps(FieldNames, Forms)
<1>1. NothingShown \in [{} -> Forms]
  BY DEF NothingShown
<1> QED
  BY <1>1, PartialMapIntro

LEMMA IdleType == Idle \in Request
<1>1. NoFields \in ClassMap
  BY NoFieldsIsMap DEF ClassMap
<1>2. NoFields \in ActionMap
  BY NoFieldsIsMap DEF ActionMap
<1>3. Denial("default_deny") \in Decision
  BY <1>2 DEF Denial, Decision, Reasons
<1>4. NoAnswer \in AnswerSet
  BY NothingShownType DEF NoAnswer, AnswerSet, Outcomes
<1> QED
  BY <1>1, <1>3, <1>4 DEF Idle, Request, PCs

\* Every answer enforcement can give has the declared shape.
LEMMA AnswersType ==
  ASSUME NEW k \in Kinds, NEW d, NEW dcs \in BOOLEAN,
         NEW a \in Answers(k.action, k.type, d, dcs)
  PROVE  a \in AnswerSet
<1>1. CASE a = [outcome |-> "error", shown |-> NothingShown]
  BY <1>1, NothingShownType DEF AnswerSet, Outcomes
<1>2. CASE k.action \notin ReadActionNames /\ a.shown = NothingShown
           /\ a.outcome \in {"permitted", "forbidden"}
           /\ a = [outcome |-> a.outcome, shown |-> a.shown]
  BY <1>2, NothingShownType DEF AnswerSet, Outcomes
<1>3. CASE k.action \in ReadActionNames
           /\ a = [outcome |-> "shown", shown |-> Enforce(k.type, d, dcs)]
  <2>1. k.type \in {"film", "spectator", "hall"} /\ FieldsOf(k.type) \subseteq FieldNames
    BY <1>3, KindsAssumption
  <2>2. \A f : /\ FilmForm(d, dcs, f) \in Forms
               /\ SpectatorForm(d, f) \in Forms
               /\ HallForm(d, f) \in Forms
    BY FormsType
  <2>3. Enforce(k.type, d, dcs) \in [FieldsOf(k.type) -> Forms]
    BY <2>1, <2>2 DEF Enforce
  <2>4. Enforce(k.type, d, dcs) \in PartialMaps(FieldNames, Forms)
    BY <2>1, <2>3, PartialMapIntro
  <2> QED
    BY <1>3, <2>4 DEF AnswerSet, Outcomes
<1> QED
  BY <1>1, <1>2, <1>3 DEF Answers

\* A request that has begun is for a known kind.
KindKnown == \A s \in Slots : req[s].pc # "idle" => req[s].kind \in Kinds

Typed == TypeOK /\ KindKnown

LEMMA InputType ==
  ASSUME NEW k \in Kinds, NEW m \in ClassMap
  PROVE  Input(k, m).fields \in ClassMap
BY DEF Input

LEMMA InitTyped == Init => Typed
<1> SUFFICES ASSUME Init PROVE Typed
  OBVIOUS
<1>1. table \in [Types -> ClassMap]
  BY PipelineAssumption DEF Init
<1>2. req \in [Slots -> Request] /\ KindKnown
  BY IdleType DEF Init, KindKnown, Idle
<1> QED
  BY <1>1, <1>2, EmptySpec DEF Init, Typed, TypeOK

\* What a step of a request does to the types: it changes that request, and
\* stores at most in one of the caches.
LEMMA StepTyped ==
  ASSUME Typed, NEW s \in Slots, Step(s)
  PROVE  Typed'
<1> DEFINE r == req[s]
<1>0. r \in Request /\ (r.pc # "idle" => r.kind \in Kinds)
  BY DEF Typed, TypeOK, KindKnown
<1>k. r.kind \in Kinds
  BY <1>0 DEF Step, ClsLevel, ClsGet, ClsFetch, ClsLevel2, ClsPut, PdpLevel, PdpKey,
              PdpGet, PdpDecide, PdpPut, EnforceStep
<1>t. r.kind.type \in Types
  BY <1>k, PipelineAssumption
<1>1. CASE ClsLevel(s)
  BY <1>0, <1>1 DEF ClsLevel, Typed, TypeOK, KindKnown, Request, PCs, world, caches
<1>2. CASE ClsGet(s)
  BY <1>0, <1>t, <1>2 DEF ClsGet, Typed, TypeOK, KindKnown, Request, PCs, world, caches
<1>3. CASE ClsFetch(s)
  <2>1. Fetched(r.kind.type) \subseteq ClassMap
    <3>1. StaticMap[r.kind.type] \in ClassMap /\ table[r.kind.type] \in ClassMap
      BY <1>t, PipelineAssumption DEF Typed, TypeOK
    <3> QED
      BY <3>1 DEF Fetched
  <2>2. PICK m \in Fetched(r.kind.type) :
          req' = [req EXCEPT ![s].pc = "clsLevel2", ![s].fields = m]
    BY <1>3 DEF ClsFetch
  <2> QED
    BY <1>0, <1>3, <2>1, <2>2
    DEF ClsFetch, Typed, TypeOK, KindKnown, Request, PCs, world, caches
<1>4. CASE ClsLevel2(s)
  BY <1>0, <1>4 DEF ClsLevel2, Typed, TypeOK, KindKnown, Request, PCs, world, caches
<1>5. CASE ClsPut(s)
  <2>1. req' \in [Slots -> Request] /\ KindKnown'
    BY <1>0, <1>5 DEF ClsPut, Typed, TypeOK, KindKnown, Request, PCs
  <2>2. /\ DOMAIN clsCache' \subseteq Types
        /\ \A t \in DOMAIN clsCache' : clsCache'[t] \in ClassMap
    <3>1. clsCache' \in Stored(clsCache, MaxEntries, r.kind.type, r.fields)
      BY <1>5 DEF ClsPut
    <3>2. /\ r.kind.type \in DOMAIN clsCache'
          /\ clsCache'[r.kind.type] = r.fields
          /\ \A x \in DOMAIN clsCache' \ {r.kind.type} :
               x \in DOMAIN clsCache /\ clsCache'[x] = clsCache[x]
      BY <3>1, StoredSpec
    <3>3. r.fields \in ClassMap
      BY <1>0 DEF Request
    <3> QED
      BY <3>2, <3>3, <1>t DEF Typed, TypeOK
  <2> QED
    BY <1>5, <2>1, <2>2 DEF ClsPut, Typed, TypeOK, world
<1>6. CASE PdpLevel(s)
  BY <1>0, <1>6 DEF PdpLevel, Typed, TypeOK, KindKnown, Request, PCs, world, caches
<1>7. CASE PdpKey(s)
  BY <1>0, <1>7 DEF PdpKey, Typed, TypeOK, KindKnown, Request, PCs, world, caches
<1>8. CASE PdpGet(s)
  BY <1>0, <1>8 DEF PdpGet, Typed, TypeOK, KindKnown, Request, PCs, world, caches
<1>9. CASE PdpDecide(s)
  <2>1. InputOf(r).fields \in ClassMap
    BY <1>0 DEF InputOf, Input, Request
  <2>2. Evaluate(dcsOn, InputOf(r)) \in Decision
    BY <2>1, EvaluateType DEF Typed, TypeOK
  <2> QED
    BY <1>0, <1>9, <2>2 DEF PdpDecide, Typed, TypeOK, KindKnown, Request, PCs, world, caches
<1>10. CASE PdpPut(s)
  <2>1. req' \in [Slots -> Request] /\ KindKnown'
    BY <1>0, <1>10 DEF PdpPut, Typed, TypeOK, KindKnown, Request, PCs
  <2>2. /\ DOMAIN pdpCache' \subseteq Keys
        /\ \A key \in DOMAIN pdpCache' : pdpCache'[key] \in Decision
    <3>1. pdpCache' \in Stored(pdpCache, MaxEntries, KeyOf(r), r.decision)
      BY <1>10 DEF PdpPut
    <3>2. /\ KeyOf(r) \in DOMAIN pdpCache'
          /\ pdpCache'[KeyOf(r)] = r.decision
          /\ \A x \in DOMAIN pdpCache' \ {KeyOf(r)} :
               x \in DOMAIN pdpCache /\ pdpCache'[x] = pdpCache[x]
      BY <3>1, StoredSpec
    <3>3. r.decision \in Decision
      BY <1>0 DEF Request
    <3>4. KeyOf(r) \in Keys
      BY <1>0, <1>k, <1>t, PipelineAssumption
      DEF KeyOf, CacheKey, InputOf, Input, Keys, Request
    <3> QED
      BY <3>2, <3>3, <3>4 DEF Typed, TypeOK
  <2> QED
    BY <1>10, <2>1, <2>2 DEF PdpPut, Typed, TypeOK, world
<1>11. CASE EnforceStep(s)
  <2>1. PICK a \in Answers(r.kind.action, r.kind.type, r.decision, dcsOn) :
          req' = [req EXCEPT ![s] = [Idle EXCEPT !.pc = "done", !.kind = r.kind,
                                                 !.seen = r.seen, !.answer = a]]
    BY <1>11 DEF EnforceStep
  <2>2. a \in AnswerSet
    BY <2>1, <1>k, AnswersType DEF Typed, TypeOK
  <2>3. [Idle EXCEPT !.pc = "done", !.kind = r.kind, !.seen = r.seen, !.answer = a] \in Request
    BY <1>0, <2>2, IdleType DEF Request, PCs
  <2>4. req' \in [Slots -> Request]
    BY <2>1, <2>3 DEF Typed, TypeOK
  <2>5. KindKnown'
    BY <1>k, <2>1, IdleType DEF Typed, TypeOK, KindKnown, Request
  <2> QED
    BY <1>11, <2>4, <2>5 DEF EnforceStep, Typed, TypeOK, world, caches
<1> QED
  BY <1>1, <1>2, <1>3, <1>4, <1>5, <1>6, <1>7, <1>8, <1>9, <1>10, <1>11 DEF Step

LEMMA NextTyped == Typed /\ [Next]_vars => Typed'
<1> SUFFICES ASSUME Typed, [Next]_vars PROVE Typed'
  OBVIOUS
<1>1. ASSUME NEW s \in Slots, Step(s) PROVE Typed'
  BY <1>1, StepTyped
<1>2. ASSUME NEW s \in Slots, NEW k \in Kinds, Begin(s, k) PROVE Typed'
  <2>1. [Idle EXCEPT !.pc = IF dcsOn THEN "clsLevel" ELSE "pdpLevel",
                     !.kind = k, !.seen = {dcsOn}] \in Request
    BY IdleType DEF Request, PCs, Typed, TypeOK
  <2>2. req' \in [Slots -> Request]
    BY <1>2, <2>1 DEF Begin, Typed, TypeOK
  <2>3. KindKnown'
    BY <1>2, IdleType DEF Begin, Typed, TypeOK, KindKnown, Request
  <2> QED
    BY <1>2, <2>2, <2>3 DEF Begin, Typed, TypeOK, world, caches
<1>3. ASSUME NEW a \in Admins, Patch(a) PROVE Typed'
  <2>1. ASSUME NEW s \in Slots
        PROVE  (IF Active(req[s]) THEN [req[s] EXCEPT !.seen = @ \cup {dcsOn'}] ELSE req[s])
                 \in Request
    BY <1>3 DEF Patch, Typed, TypeOK, Request
  <2>2. req' \in [Slots -> Request]
    BY <1>3, <2>1 DEF Patch
  <2>3. KindKnown'
    BY <1>3 DEF Patch, Typed, TypeOK, KindKnown, Request
  <2> QED
    BY <1>3, <2>2, <2>3 DEF Patch, Typed, TypeOK, caches
<1>4. ASSUME NEW a \in Admins, ClearCls(a) PROVE Typed'
  BY <1>4, EmptySpec DEF ClearCls, Typed, TypeOK, KindKnown, settings
<1>5. ASSUME NEW a \in Admins, ClearPdp(a) PROVE Typed'
  BY <1>5, EmptySpec DEF ClearPdp, Typed, TypeOK, KindKnown, settings
<1>6. ASSUME NEW t \in Types, Reclassify(t) PROVE Typed'
  BY <1>6, PipelineAssumption
  DEF Reclassify, Typed, TypeOK, KindKnown, settings, caches
<1>7. ASSUME NEW t \in Types, ExpireCls(t) PROVE Typed'
  <2>1. /\ DOMAIN clsCache' = DOMAIN clsCache \ {t}
        /\ \A x \in DOMAIN clsCache' : clsCache'[x] = clsCache[x]
    BY <1>7, WithoutSpec DEF ExpireCls
  <2> QED
    BY <1>7, <2>1 DEF ExpireCls, Typed, TypeOK, KindKnown, world
<1>8. ASSUME NEW key \in DOMAIN pdpCache, ExpirePdp(key) PROVE Typed'
  <2>1. /\ DOMAIN pdpCache' = DOMAIN pdpCache \ {key}
        /\ \A x \in DOMAIN pdpCache' : pdpCache'[x] = pdpCache[x]
    BY <1>8, WithoutSpec DEF ExpirePdp
  <2> QED
    BY <1>8, <2>1 DEF ExpirePdp, Typed, TypeOK, KindKnown, world
<1>9. CASE UNCHANGED vars
  BY <1>9 DEF vars, Typed, TypeOK, KindKnown
<1> QED
  BY <1>1, <1>2, <1>3, <1>4, <1>5, <1>6, <1>7, <1>8, <1>9 DEF Next

\* Type correctness.
THEOREM TypeCorrect == Spec => []TypeOK
<1>1. Spec => []Typed
  BY InitTyped, NextTyped, PTL DEF Spec
<1>2. Typed => TypeOK
  BY DEF Typed
<1> QED
  BY <1>1, <1>2, PTL

-----------------------------------------------------------------------------
(* Decisions.                                                              *)

\* A key determines the input it was made from, up to the mode.
LEMMA KeyRoundTrip ==
  ASSUME NEW d, NEW k, NEW m
  PROVE  InputOfKey(CacheKey(d, Input(k, m))) = Input(k, m)
BY DEF InputOfKey, CacheKey, Input

Policy == CacheHoldsPolicy /\ DecisionFits

\* A request step leaves the other requests alone and keeps its kind.
LEMMA StepFrame ==
  ASSUME Typed, NEW s \in Slots, Step(s)
  PROVE  /\ \A x \in Slots \ {s} : req'[x] = req[x]
         /\ req'[s].kind = req[s].kind
         /\ req'[s].seen = req[s].seen
         /\ req[s].kind \in Kinds
         /\ UNCHANGED world
<1>1. req \in [Slots -> Request] /\ (req[s].pc # "idle" => req[s].kind \in Kinds)
  BY DEF Typed, TypeOK, KindKnown
<1>2. CASE EnforceStep(s)
  <2>1. PICK a : req' = [req EXCEPT ![s] = [Idle EXCEPT !.pc = "done", !.kind = req[s].kind,
                                                  !.seen = req[s].seen, !.answer = a]]
    BY <1>2 DEF EnforceStep
  <2> QED
    BY <1>1, <1>2, <2>1, IdleType DEF EnforceStep, Request
<1>3. CASE ClsFetch(s)
  <2>1. PICK m : req' = [req EXCEPT ![s].pc = "clsLevel2", ![s].fields = m]
    BY <1>3 DEF ClsFetch
  <2> QED
    BY <1>1, <1>3, <2>1 DEF ClsFetch, Request
<1>4. CASE ClsLevel(s) \/ ClsGet(s) \/ ClsLevel2(s) \/ ClsPut(s)
  BY <1>1, <1>4 DEF ClsLevel, ClsGet, ClsLevel2, ClsPut, Request
<1>5. CASE PdpLevel(s) \/ PdpKey(s) \/ PdpGet(s) \/ PdpDecide(s) \/ PdpPut(s)
  BY <1>1, <1>5 DEF PdpLevel, PdpKey, PdpGet, PdpDecide, PdpPut, Request
<1> QED
  BY <1>2, <1>3, <1>4, <1>5 DEF Step

\* What a step of a request does to the decisions: only PdpDecide takes one,
\* only PdpGet receives one from the cache, only PdpPut stores one.
LEMMA StepPolicy ==
  ASSUME Typed, Policy, NEW s \in Slots, Step(s)
  PROVE  Policy'
<1> DEFINE r == req[s]
<1>0. req \in [Slots -> Request] /\ r \in Request
  BY DEF Typed, TypeOK
<1>1. \A x \in Slots \ {s} : req'[x] = req[x]
  BY StepFrame
<1>2. ASSUME ~Decided(req'[s])
      PROVE  DecisionFits'
  BY <1>1, <1>2 DEF Policy, DecisionFits
<1>3. ASSUME req'[s].decision \in Decisions(InputOf(req'[s]))
      PROVE  DecisionFits'
  BY <1>1, <1>3 DEF Policy, DecisionFits
<1>4. CASE PdpGet(s)
  <2>1. pdpCache' = pdpCache
    BY <1>4 DEF PdpGet, caches
  <2>2. CASE KeyOf(r) \in DOMAIN pdpCache
    <3>1. pdpCache[KeyOf(r)] \in Decisions(InputOfKey(KeyOf(r)))
      BY <2>2 DEF Policy, CacheHoldsPolicy
    <3>2. InputOfKey(KeyOf(r)) = InputOf(r)
      BY KeyRoundTrip DEF KeyOf, InputOf
    <3>3. req'[s].decision = pdpCache[KeyOf(r)] /\ InputOf(req'[s]) = InputOf(r)
      BY <1>0, <1>4, <2>2 DEF PdpGet, InputOf, Request
    <3> QED
      BY <1>3, <2>1, <3>1, <3>2, <3>3 DEF Policy, CacheHoldsPolicy
  <2>3. CASE KeyOf(r) \notin DOMAIN pdpCache
    BY <1>0, <1>2, <1>4, <2>1, <2>3 DEF PdpGet, Decided, Request, Policy, CacheHoldsPolicy
  <2> QED
    BY <2>2, <2>3
<1>5. CASE PdpDecide(s)
  <2>1. req'[s].decision = Evaluate(dcsOn, InputOf(r)) /\ InputOf(req'[s]) = InputOf(r)
    BY <1>0, <1>5 DEF PdpDecide, InputOf, Request
  <2>2. req'[s].decision \in Decisions(InputOf(req'[s]))
    BY <2>1 DEF Decisions, Typed, TypeOK
  <2>3. CacheHoldsPolicy'
    BY <1>5 DEF PdpDecide, caches, Policy, CacheHoldsPolicy
  <2> QED
    BY <1>3, <2>2, <2>3 DEF Policy
<1>6. CASE PdpPut(s)
  <2>1. r.decision \in Decisions(InputOf(r))
    BY <1>6 DEF PdpPut, Policy, DecisionFits, Decided
  <2>2. req'[s].decision = r.decision /\ InputOf(req'[s]) = InputOf(r)
    BY <1>0, <1>6 DEF PdpPut, InputOf, Request
  <2>3. pdpCache' \in Stored(pdpCache, MaxEntries, KeyOf(r), r.decision)
    BY <1>6 DEF PdpPut
  <2>4. /\ pdpCache'[KeyOf(r)] = r.decision
        /\ \A x \in DOMAIN pdpCache' \ {KeyOf(r)} :
             x \in DOMAIN pdpCache /\ pdpCache'[x] = pdpCache[x]
    BY <2>3, StoredSpec
  <2>5. InputOfKey(KeyOf(r)) = InputOf(r)
    BY KeyRoundTrip DEF KeyOf, InputOf
  <2>6. CacheHoldsPolicy'
    BY <2>1, <2>4, <2>5 DEF Policy, CacheHoldsPolicy
  <2> QED
    BY <1>3, <2>1, <2>2, <2>6 DEF Policy
<1>7. CASE EnforceStep(s)
  <2>1. PICK a : req' = [req EXCEPT ![s] = [Idle EXCEPT !.pc = "done", !.kind = r.kind,
                                                        !.seen = r.seen, !.answer = a]]
    BY <1>7 DEF EnforceStep
  <2>2. req'[s].pc = "done"
    BY <1>0, <2>1, IdleType DEF Request
  <2> QED
    BY <1>2, <1>7, <2>2 DEF EnforceStep, caches, Decided, Policy, CacheHoldsPolicy
<1>8. CASE ClsFetch(s)
  <2>1. req'[s].pc = "clsLevel2"
    BY <1>0, <1>8 DEF ClsFetch, Request
  <2> QED
    BY <1>2, <1>8, <2>1 DEF ClsFetch, caches, Decided, Policy, CacheHoldsPolicy
<1>9. CASE ClsLevel(s) \/ ClsGet(s) \/ ClsLevel2(s) \/ ClsPut(s) \/ PdpLevel(s) \/ PdpKey(s)
  <2>1. ~Decided(req'[s])
    BY <1>0, <1>9
    DEF ClsLevel, ClsGet, ClsLevel2, ClsPut, PdpLevel, PdpKey, Decided, Request
  <2>2. pdpCache' = pdpCache
    BY <1>9 DEF ClsLevel, ClsGet, ClsLevel2, ClsPut, PdpLevel, PdpKey, caches
  <2> QED
    BY <1>2, <2>1, <2>2 DEF Policy, CacheHoldsPolicy
<1> QED
  BY <1>4, <1>5, <1>6, <1>7, <1>8, <1>9 DEF Step

\* What Patch may do to a request: record the mode in what it has seen.
LEMMA PatchFrame ==
  ASSUME Typed, NEW a \in Admins, Patch(a), NEW s \in Slots
  PROVE  /\ req'[s] = [req[s] EXCEPT !.seen = req'[s].seen]
         /\ req'[s].pc = req[s].pc
         /\ req'[s].kind = req[s].kind
         /\ req'[s].fields = req[s].fields
         /\ req'[s].cacheable = req[s].cacheable
         /\ req'[s].decision = req[s].decision
         /\ req'[s].answer = req[s].answer
         /\ req[s].seen \subseteq req'[s].seen
         /\ Active(req[s]) => dcsOn' \in req'[s].seen
<1>1. req[s] \in Request
  BY DEF Typed, TypeOK
<1>2. req'[s] = IF Active(req[s])
                THEN [req[s] EXCEPT !.seen = @ \cup {dcsOn'}] ELSE req[s]
  BY DEF Patch
<1> QED
  BY <1>1, <1>2 DEF Request

LEMMA NextPolicy == Typed /\ Policy /\ [Next]_vars => Policy'
<1> SUFFICES ASSUME Typed, Policy, [Next]_vars PROVE Policy'
  OBVIOUS
<1>1. ASSUME NEW s \in Slots, Step(s) PROVE Policy'
  BY <1>1, StepPolicy
<1>2. ASSUME NEW s \in Slots, NEW k \in Kinds, Begin(s, k) PROVE Policy'
  <2>1. /\ \A x \in Slots \ {s} : req'[x] = req[x]
        /\ ~Decided(req'[s])
    BY <1>2, IdleType DEF Begin, Decided, Typed, TypeOK, Request
  <2> QED
    BY <1>2, <2>1 DEF Begin, caches, Policy, CacheHoldsPolicy, DecisionFits
<1>3. ASSUME NEW a \in Admins, Patch(a) PROVE Policy'
  <2>1. \A s \in Slots : /\ Decided(req'[s]) = Decided(req[s])
                          /\ req'[s].decision = req[s].decision
                          /\ InputOf(req'[s]) = InputOf(req[s])
    BY <1>3, PatchFrame DEF Decided, InputOf
  <2> QED
    BY <1>3, <2>1 DEF Patch, caches, Policy, CacheHoldsPolicy, DecisionFits
<1>4. ASSUME NEW a \in Admins, ClearCls(a) PROVE Policy'
  BY <1>4 DEF ClearCls, Policy, CacheHoldsPolicy, DecisionFits
<1>5. ASSUME NEW a \in Admins, ClearPdp(a) PROVE Policy'
  BY <1>5, EmptySpec DEF ClearPdp, Policy, CacheHoldsPolicy, DecisionFits
<1>6. ASSUME NEW t \in Types, Reclassify(t) \/ ExpireCls(t) PROVE Policy'
  BY <1>6 DEF Reclassify, ExpireCls, caches, Policy, CacheHoldsPolicy, DecisionFits
<1>7. ASSUME NEW key \in DOMAIN pdpCache, ExpirePdp(key) PROVE Policy'
  <2>1. /\ DOMAIN pdpCache' = DOMAIN pdpCache \ {key}
        /\ \A x \in DOMAIN pdpCache' : pdpCache'[x] = pdpCache[x]
    BY <1>7, WithoutSpec DEF ExpirePdp
  <2> QED
    BY <1>7, <2>1 DEF ExpirePdp, Policy, CacheHoldsPolicy, DecisionFits
<1>8. CASE UNCHANGED vars
  BY <1>8 DEF vars, Policy, CacheHoldsPolicy, DecisionFits
<1> QED
  BY <1>1, <1>2, <1>3, <1>4, <1>5, <1>6, <1>7, <1>8 DEF Next

LEMMA InitPolicy == Init => Policy
BY EmptySpec DEF Init, Idle, Policy, CacheHoldsPolicy, DecisionFits, Decided

LEMMA PolicyAlways == Spec => [](Typed /\ Policy)
BY InitTyped, NextTyped, InitPolicy, NextPolicy, PTL DEF Spec

\* However requests, PATCHes, evictions and expiries interleave, the PDP cache
\* only ever holds decisions of the policy on the input of their key.
THEOREM CacheCorrect == Spec => []CacheHoldsPolicy
<1>1. Policy => CacheHoldsPolicy
  BY DEF Policy
<1> QED
  BY <1>1, PolicyAlways, PTL

\* Every request is enforced under a decision on its own input.
THEOREM DecisionCorrect == Spec => []DecisionFits
<1>1. Policy => DecisionFits
  BY DEF Policy
<1> QED
  BY <1>1, PolicyAlways, PTL

-----------------------------------------------------------------------------
(* Who may act.                                                            *)

LEMMA DecisionAllow ==
  ASSUME NEW k, NEW m, NEW d \in Decisions(Input(k, m))
  PROVE  d.allow = AllowWithoutDCS(k.action, k.principal.role)
<1>1. PICK dcs \in BOOLEAN : d = Evaluate(dcs, Input(k, m))
  BY DEF Decisions
<1>2. /\ Input(k, m).principal.tenant = Input(k, m).tenant
      /\ Input(k, m).action = k.action
      /\ Input(k, m).principal = k.principal
  BY DEF Input
<1> QED
  BY <1>1, <1>2, ModeNeverChangesAllow

AnswerIsPolicy(r) ==
  LET allowed == AllowWithoutDCS(r.kind.action, r.kind.principal.role) IN
  /\ r.answer.outcome = "permitted" => allowed
  /\ r.answer.outcome = "forbidden" => ~allowed

Answered == \A s \in Slots : AnswerIsPolicy(req[s])

\* A verdict is only ever passed on by enforcement.
LEMMA EnforceAnswer ==
  ASSUME Typed, Policy, NEW s \in Slots, EnforceStep(s)
  PROVE  AnswerIsPolicy(req'[s])
<1> DEFINE r == req[s]
<1>1. PICK a \in Answers(r.kind.action, r.kind.type, r.decision, dcsOn) :
        req' = [req EXCEPT ![s] = [Idle EXCEPT !.pc = "done", !.kind = r.kind,
                                               !.seen = r.seen, !.answer = a]]
  BY DEF EnforceStep
<1>2. req'[s].kind = r.kind /\ req'[s].answer = a
  BY <1>1, IdleType DEF Typed, TypeOK, Request
<1>3. r.decision \in Decisions(Input(r.kind, r.fields))
  BY DEF EnforceStep, Policy, DecisionFits, Decided, InputOf
<1>4. r.decision.allow = AllowWithoutDCS(r.kind.action, r.kind.principal.role)
  BY <1>3, DecisionAllow
<1>5. a.outcome = "permitted" => r.decision.allow
  BY DEF Answers
<1>6. a.outcome = "forbidden" => ~r.decision.allow
  BY DEF Answers
<1> QED
  BY <1>2, <1>4, <1>5, <1>6 DEF AnswerIsPolicy

LEMMA NextAnswered == Typed /\ Policy /\ Answered /\ [Next]_vars => Answered'
<1> SUFFICES ASSUME Typed, Policy, Answered, [Next]_vars PROVE Answered'
  OBVIOUS
<1>0. req \in [Slots -> Request]
  BY DEF Typed, TypeOK
<1>1. ASSUME NEW s \in Slots, Step(s) PROVE Answered'
  <2>1. \A x \in Slots \ {s} : req'[x] = req[x]
    BY <1>1, StepFrame
  <2>2. CASE EnforceStep(s)
    BY <2>1, <2>2, EnforceAnswer DEF Answered, AnswerIsPolicy
  <2>3. CASE ~EnforceStep(s)
    <3>1. req'[s].answer = req[s].answer /\ req'[s].kind = req[s].kind
      BY <1>0, <1>1, <2>3
      DEF Step, ClsLevel, ClsGet, ClsFetch, ClsLevel2, ClsPut, PdpLevel, PdpKey,
          PdpGet, PdpDecide, PdpPut, Request
    <3> QED
      BY <2>1, <3>1 DEF Answered, AnswerIsPolicy
  <2> QED
    BY <2>2, <2>3
<1>2. ASSUME NEW s \in Slots, NEW k \in Kinds, Begin(s, k) PROVE Answered'
  <2>1. /\ \A x \in Slots \ {s} : req'[x] = req[x]
        /\ req'[s].answer = NoAnswer
    BY <1>0, <1>2, IdleType DEF Begin, Request, Idle
  <2> QED
    BY <2>1 DEF Answered, AnswerIsPolicy, NoAnswer
<1>3. ASSUME NEW a \in Admins, Patch(a) PROVE Answered'
  BY <1>3, PatchFrame DEF Answered, AnswerIsPolicy
<1>4. ASSUME NEW a \in Admins, ClearCls(a) \/ ClearPdp(a) PROVE Answered'
  BY <1>4 DEF ClearCls, ClearPdp, Answered
<1>5. ASSUME NEW t \in Types, Reclassify(t) \/ ExpireCls(t) PROVE Answered'
  BY <1>5 DEF Reclassify, ExpireCls, Answered
<1>6. ASSUME NEW key \in DOMAIN pdpCache, ExpirePdp(key) PROVE Answered'
  BY <1>6 DEF ExpirePdp, Answered
<1>7. CASE UNCHANGED vars
  BY <1>7 DEF vars, Answered
<1> QED
  BY <1>1, <1>2, <1>3, <1>4, <1>5, <1>6, <1>7 DEF Next

\* Neither the DCS mode nor any cache decides who may act: the action lists of
\* the configuration and the role of the caller do, in every interleaving.
THEOREM AllowCorrect == Spec => []AllowIsPolicy
<1>1. Init => Answered
  BY DEF Init, Answered, AnswerIsPolicy, Idle, NoAnswer
<1>2. Policy /\ Answered => AllowIsPolicy
  <2> SUFFICES ASSUME Policy, Answered, NEW s \in Slots, Decided(req[s])
               PROVE  req[s].decision.allow =
                        AllowWithoutDCS(req[s].kind.action, req[s].kind.principal.role)
    BY DEF AllowIsPolicy, Answered, AnswerIsPolicy
  <2> QED
    BY DecisionAllow DEF Policy, DecisionFits, InputOf
<1>3. Spec => []Answered
  BY <1>1, PolicyAlways, NextAnswered, PTL DEF Spec
<1> QED
  BY <1>2, <1>3, PolicyAlways, PTL

-----------------------------------------------------------------------------
(* Who is shown what.                                                      *)

\* Classifications only come from the database or the built-in map.
Provenance ==
  /\ \A t \in DOMAIN clsCache : clsCache[t] \in KnownMaps(t)
  /\ \A s \in Slots :
       /\ req[s].pc # "idle" => req[s].fields \in PossibleMaps(req[s].kind.type)
       /\ req[s].pc \in {"clsLevel2", "clsPut"} => req[s].fields \in KnownMaps(req[s].kind.type)

\* The mode in force is among those a request has seen.
SeenNow == \A s \in Slots : Active(req[s]) => dcsOn \in req[s].seen

\* Away from the cache, the decision is that of a mode the request has seen.
Uncached(r) ==
  /\ r.pc \in {"pdpKey", "pdpGet", "pdpPut"} => r.kind.action \in CacheableActions
  /\ r.cacheable => r.kind.action \in CacheableActions
  /\ r.pc = "enforce" /\ r.kind.action \notin CacheableActions =>
       \E m \in r.seen : r.decision = Evaluate(m, InputOf(r))

Fresh == SeenNow /\ \A s \in Slots : Uncached(req[s])

LEMMA IdleFields == /\ Idle.fields = NoFields
                    /\ Idle.pc = "idle"
                    /\ Idle.cacheable = FALSE
                    /\ Idle.seen = {}
                    /\ Idle.answer = NoAnswer
BY DEF Idle

LEMMA StepProvenance ==
  ASSUME Typed, Provenance, NEW s \in Slots, Step(s)
  PROVE  Provenance'
<1> DEFINE r == req[s]
           t == r.kind.type
<1>0. req \in [Slots -> Request] /\ r \in Request
  BY DEF Typed, TypeOK
<1>1. /\ \A x \in Slots \ {s} : req'[x] = req[x]
      /\ req'[s].kind = r.kind
      /\ r.kind \in Kinds
  BY StepFrame
<1>2. t \in Types
  BY <1>1, PipelineAssumption
<1>3. r.fields \in PossibleMaps(t)
  BY DEF Step, ClsLevel, ClsGet, ClsFetch, ClsLevel2, ClsPut, PdpLevel, PdpKey,
         PdpGet, PdpDecide, PdpPut, EnforceStep, Provenance
<1>4. ASSUME clsCache' = clsCache, req'[s].fields \in PossibleMaps(t),
             req'[s].pc \in {"clsLevel2", "clsPut"} => req'[s].fields \in KnownMaps(t)
      PROVE  Provenance'
  BY <1>1, <1>4 DEF Provenance
<1>5. CASE ClsGet(s)
  <2>1. t \in DOMAIN clsCache => clsCache[t] \in PossibleMaps(t)
    BY DEF Provenance, KnownMaps, PossibleMaps
  <2>2. /\ req'[s].fields \in PossibleMaps(t)
        /\ req'[s].pc \notin {"clsLevel2", "clsPut"}
    BY <1>0, <1>3, <1>5, <2>1 DEF ClsGet, Request
  <2> QED
    BY <1>4, <1>5, <2>2 DEF ClsGet, caches
<1>6. CASE ClsFetch(s)
  <2>1. PICK m \in Fetched(t) : req' = [req EXCEPT ![s].pc = "clsLevel2", ![s].fields = m]
    BY <1>6 DEF ClsFetch
  <2>2. m \in PossibleMaps(t) /\ m \in KnownMaps(t)
    BY <1>2, <2>1 DEF Fetched, PossibleMaps, KnownMaps, Typed, TypeOK
  <2>3. req'[s].fields = m
    BY <1>0, <2>1 DEF Request
  <2> QED
    BY <1>4, <1>6, <2>2, <2>3 DEF ClsFetch, caches
<1>7. CASE EnforceStep(s)
  <2>1. PICK a : req' = [req EXCEPT ![s] = [Idle EXCEPT !.pc = "done", !.kind = r.kind,
                                                        !.seen = r.seen, !.answer = a]]
    BY <1>7 DEF EnforceStep
  <2>2. req'[s].fields = NoFields /\ req'[s].pc = "done"
    BY <1>0, <2>1, IdleFields, IdleType DEF Request
  <2> QED
    BY <1>4, <1>7, <2>2 DEF EnforceStep, caches, PossibleMaps
<1>8. CASE ClsLevel(s) \/ PdpLevel(s) \/ PdpKey(s) \/ PdpGet(s) \/ PdpDecide(s) \/ PdpPut(s)
  <2>1. req'[s].fields = r.fields /\ req'[s].pc \notin {"clsLevel2", "clsPut"}
    BY <1>0, <1>8 DEF ClsLevel, PdpLevel, PdpKey, PdpGet, PdpDecide, PdpPut, Request
  <2>2. clsCache' = clsCache
    BY <1>8 DEF ClsLevel, PdpLevel, PdpKey, PdpGet, PdpDecide, PdpPut, caches
  <2> QED
    BY <1>3, <1>4, <2>1, <2>2
<1>9. CASE ClsLevel2(s)
  <2>1. req'[s].fields = r.fields /\ r.fields \in KnownMaps(t)
    BY <1>0, <1>9 DEF ClsLevel2, Request, Provenance
  <2> QED
    BY <1>3, <1>4, <1>9, <2>1 DEF ClsLevel2, caches
<1>10. CASE ClsPut(s)
  <2>1. r.fields \in KnownMaps(t)
    BY <1>10 DEF ClsPut, Provenance
  <2>2. clsCache' \in Stored(clsCache, MaxEntries, t, r.fields)
    BY <1>10 DEF ClsPut
  <2>3. /\ clsCache'[t] = r.fields
        /\ \A x \in DOMAIN clsCache' \ {t} : x \in DOMAIN clsCache /\ clsCache'[x] = clsCache[x]
    BY <2>2, StoredSpec
  <2>4. \A x \in DOMAIN clsCache' : clsCache'[x] \in KnownMaps(x)
    BY <2>1, <2>3 DEF Provenance
  <2>5. req'[s].fields = r.fields /\ req'[s].pc = "pdpLevel"
    BY <1>0, <1>10 DEF ClsPut, Request
  <2> QED
    BY <1>1, <1>3, <2>4, <2>5 DEF Provenance
<1> QED
  BY <1>5, <1>6, <1>7, <1>8, <1>9, <1>10 DEF Step

LEMMA NextProvenance == Typed /\ Provenance /\ [Next]_vars => Provenance'
<1> SUFFICES ASSUME Typed, Provenance, [Next]_vars PROVE Provenance'
  OBVIOUS
<1>1. ASSUME NEW s \in Slots, Step(s) PROVE Provenance'
  BY <1>1, StepProvenance
<1>2. ASSUME NEW s \in Slots, NEW k \in Kinds, Begin(s, k) PROVE Provenance'
  <2>1. /\ \A x \in Slots \ {s} : req'[x] = req[x]
        /\ req'[s].fields = NoFields
        /\ req'[s].pc \in {"clsLevel", "pdpLevel"}
    BY <1>2, IdleType, IdleFields DEF Begin, Typed, TypeOK, Request
  <2> QED
    BY <1>2, <2>1 DEF Begin, caches, Provenance, PossibleMaps
<1>3. ASSUME NEW a \in Admins, Patch(a) PROVE Provenance'
  BY <1>3, PatchFrame DEF Patch, caches, Provenance
<1>4. ASSUME NEW a \in Admins, ClearCls(a) \/ ClearPdp(a) PROVE Provenance'
  BY <1>4, EmptySpec DEF ClearCls, ClearPdp, Provenance
<1>5. ASSUME NEW t \in Types, Reclassify(t) PROVE Provenance'
  BY <1>5 DEF Reclassify, caches, Provenance
<1>6. ASSUME NEW t \in Types, ExpireCls(t) PROVE Provenance'
  <2>1. /\ DOMAIN clsCache' = DOMAIN clsCache \ {t}
        /\ \A x \in DOMAIN clsCache' : clsCache'[x] = clsCache[x]
    BY <1>6, WithoutSpec DEF ExpireCls
  <2> QED
    BY <1>6, <2>1 DEF ExpireCls, Provenance
<1>7. ASSUME NEW key \in DOMAIN pdpCache, ExpirePdp(key) PROVE Provenance'
  BY <1>7 DEF ExpirePdp, Provenance
<1>8. CASE UNCHANGED vars
  BY <1>8 DEF vars, Provenance
<1> QED
  BY <1>1, <1>2, <1>3, <1>4, <1>5, <1>6, <1>7, <1>8 DEF Next

LEMMA NextFresh == Typed /\ Fresh /\ [Next]_vars => Fresh'
<1> SUFFICES ASSUME Typed, Fresh, [Next]_vars PROVE Fresh'
  OBVIOUS
<1>0. req \in [Slots -> Request]
  BY DEF Typed, TypeOK
<1>1. ASSUME NEW s \in Slots, Step(s) PROVE Fresh'
  <2> DEFINE r == req[s]
  <2>1. /\ \A x \in Slots \ {s} : req'[x] = req[x]
        /\ req'[s].kind = r.kind
        /\ req'[s].seen = r.seen
        /\ dcsOn' = dcsOn
    BY <1>1, StepFrame DEF world
  <2>2. Active(r)
    BY <1>1 DEF Step, ClsLevel, ClsGet, ClsFetch, ClsLevel2, ClsPut, PdpLevel, PdpKey,
                PdpGet, PdpDecide, PdpPut, EnforceStep, Active
  <2>3. dcsOn \in r.seen /\ Uncached(r)
    BY <2>2 DEF Fresh, SeenNow
  <2>4. SeenNow'
    BY <2>1, <2>3 DEF Fresh, SeenNow
  <2>5. Uncached(req'[s])
    <3>1. CASE ClsLevel(s) \/ ClsGet(s) \/ ClsLevel2(s) \/ ClsPut(s)
      BY <1>0, <2>3, <3>1 DEF ClsLevel, ClsGet, ClsLevel2, ClsPut, Uncached, Request
    <3>2. CASE ClsFetch(s)
      <4>1. PICK m : req' = [req EXCEPT ![s].pc = "clsLevel2", ![s].fields = m]
        BY <3>2 DEF ClsFetch
      <4> QED
        BY <1>0, <2>3, <4>1 DEF Uncached, Request
    <3>3. CASE PdpLevel(s)
      BY <1>0, <2>3, <3>3 DEF PdpLevel, Uncached, Request
    <3>4. CASE PdpKey(s) \/ PdpGet(s)
      BY <1>0, <2>3, <3>4 DEF PdpKey, PdpGet, Uncached, Request
    <3>5. CASE PdpDecide(s)
      <4>1. /\ req'[s].decision = Evaluate(dcsOn, InputOf(r))
            /\ InputOf(req'[s]) = InputOf(r)
            /\ req'[s].cacheable = r.cacheable
            /\ req'[s].pc = IF r.cacheable THEN "pdpPut" ELSE "enforce"
        BY <1>0, <3>5 DEF PdpDecide, InputOf, Request
      <4> QED
        BY <2>1, <2>3, <4>1 DEF Uncached
    <3>6. CASE PdpPut(s)
      BY <1>0, <2>3, <3>6 DEF PdpPut, Uncached, Request
    <3>7. CASE EnforceStep(s)
      <4>1. PICK a : req' = [req EXCEPT ![s] = [Idle EXCEPT !.pc = "done", !.kind = r.kind,
                                                            !.seen = r.seen, !.answer = a]]
        BY <3>7 DEF EnforceStep
      <4>2. req'[s].pc = "done" /\ req'[s].cacheable = FALSE
        BY <1>0, <4>1, IdleFields, IdleType DEF Request
      <4> QED
        BY <4>2 DEF Uncached
    <3> QED
      BY <1>1, <3>1, <3>2, <3>3, <3>4, <3>5, <3>6, <3>7 DEF Step
  <2> QED
    BY <2>1, <2>4, <2>5 DEF Fresh, Uncached
<1>2. ASSUME NEW s \in Slots, NEW k \in Kinds, Begin(s, k) PROVE Fresh'
  <2>1. /\ \A x \in Slots \ {s} : req'[x] = req[x]
        /\ req'[s].cacheable = FALSE
        /\ req'[s].seen = {dcsOn}
        /\ req'[s].pc \in {"clsLevel", "pdpLevel"}
    BY <1>0, <1>2, IdleType, IdleFields DEF Begin, Request
  <2>2. dcsOn' = dcsOn
    BY <1>2 DEF Begin, world
  <2> QED
    BY <2>1, <2>2 DEF Fresh, SeenNow, Uncached
<1>3. ASSUME NEW a \in Admins, Patch(a) PROVE Fresh'
  <2>1. ASSUME NEW s \in Slots PROVE Uncached(req'[s])
    <3>1. InputOf(req'[s]) = InputOf(req[s])
      BY <1>3, PatchFrame DEF InputOf
    <3>2. Uncached(req[s])
      BY DEF Fresh
    <3> QED
      BY <1>3, <3>1, <3>2, PatchFrame DEF Uncached
  <2>2. SeenNow'
    BY <1>3, PatchFrame DEF SeenNow, Active
  <2> QED
    BY <2>1, <2>2 DEF Fresh
<1>4. ASSUME NEW a \in Admins, ClearCls(a) \/ ClearPdp(a) PROVE Fresh'
  BY <1>4 DEF ClearCls, ClearPdp, settings, Fresh, SeenNow
<1>5. ASSUME NEW t \in Types, Reclassify(t) \/ ExpireCls(t) PROVE Fresh'
  BY <1>5 DEF Reclassify, ExpireCls, settings, world, Fresh, SeenNow
<1>6. ASSUME NEW key \in DOMAIN pdpCache, ExpirePdp(key) PROVE Fresh'
  BY <1>6 DEF ExpirePdp, world, Fresh, SeenNow
<1>7. CASE UNCHANGED vars
  BY <1>7 DEF vars, Fresh, SeenNow
<1> QED
  BY <1>1, <1>2, <1>3, <1>4, <1>5, <1>6, <1>7 DEF Next

LEMMA DecideFields ==
  ASSUME NEW k, NEW m, NEW f \in DOMAIN Decide(Input(k, m)).fields
  PROVE  f \in DOMAIN m
<1>1. \A x : x \notin DOMAIN NoFields
  BY DEF NoFields
<1>2. DOMAIN FieldActionsFor(Input(k, m)) = DOMAIN m
  BY DEF FieldActionsFor, Input
<1>3. \A reason : Denial(reason).fields = NoFields
  BY DEF Denial
<1> QED
  BY <1>1, <1>2, <1>3 DEF Decide

\* The permission behind a field shown in clear.
Granted(r) ==
  \A f \in DOMAIN r.answer.shown :
    r.answer.shown[f] = "clear" /\ r.kind.type \in {"film", "spectator"} =>
      /\ TRUE \in r.seen
      /\ \E m \in KnownMaps(r.kind.type) :
           f \in DOMAIN m /\ Decide(Input(r.kind, m)).fields[f] = "decrypt"

AllGranted == \A s \in Slots : Granted(req[s])

LEMMA NothingGranted ==
  ASSUME NEW r, r.answer.shown = NothingShown
  PROVE  Granted(r)
BY DEF Granted, NothingShown

LEMMA EnforceGranted ==
  ASSUME Typed, Policy, Provenance, Fresh, NEW s \in Slots, EnforceStep(s)
  PROVE  Granted(req'[s])
<1> DEFINE r == req[s]
           t == r.kind.type
<1>1. PICK a \in Answers(r.kind.action, t, r.decision, dcsOn) :
        req' = [req EXCEPT ![s] = [Idle EXCEPT !.pc = "done", !.kind = r.kind,
                                               !.seen = r.seen, !.answer = a]]
  BY DEF EnforceStep
<1>2. req'[s].kind = r.kind /\ req'[s].answer = a /\ req'[s].seen = r.seen
  BY <1>1, IdleType DEF Typed, TypeOK, Request
<1>3. CASE a.shown = NothingShown
  BY <1>2, <1>3, NothingGranted
<1>4. CASE a.shown = Enforce(t, r.decision, dcsOn)
  <2> SUFFICES ASSUME NEW f \in DOMAIN a.shown, a.shown[f] = "clear", t \in {"film", "spectator"}
               PROVE  /\ TRUE \in r.seen
                      /\ \E m \in KnownMaps(t) :
                           f \in DOMAIN m /\ Decide(Input(r.kind, m)).fields[f] = "decrypt"
    BY <1>2 DEF Granted
  <2>1. f \in FieldsOf(t) /\ Enforce(t, r.decision, dcsOn)[f] = "clear"
    BY <1>4 DEF Enforce
  <2>2. /\ f \in DOMAIN r.decision.fields
        /\ r.decision.fields[f] = "decrypt"
        /\ t = "film" => dcsOn
    BY <2>1, ClearNeedsDecrypt DEF Typed, TypeOK
  <2>3. r.decision \in Decisions(InputOf(r))
    BY DEF EnforceStep, Policy, DecisionFits, Decided
  <2>4. \A in : f \notin DOMAIN Evaluate(FALSE, in).fields
    BY DEF Evaluate, NoFields
  <2>5. r.decision = Decide(InputOf(r))
    BY <2>2, <2>3, <2>4 DEF Decisions, Evaluate
  <2>6. f \in DOMAIN r.fields
    BY <2>2, <2>5, DecideFields DEF InputOf
  <2>7. r.fields \in KnownMaps(t)
    <3>1. r.fields \in PossibleMaps(t)
      BY DEF EnforceStep, Provenance
    <3>2. r.fields # NoFields
      BY <2>6 DEF NoFields
    <3> QED
      BY <3>1, <3>2 DEF PossibleMaps, KnownMaps
  <2>8. TRUE \in r.seen
    <3>1. CASE t = "film"
      <4>1. dcsOn \in r.seen
        BY DEF EnforceStep, Fresh, SeenNow, Active
      <4> QED
        BY <2>2, <3>1, <4>1 DEF Typed, TypeOK
    <3>2. CASE t = "spectator"
      <4>1. r.kind \in Kinds
        BY DEF EnforceStep, Typed, KindKnown
      <4>2. r.kind.action \notin CacheableActions
        BY <3>2, <4>1, KindsAssumption
      <4>3. PICK m \in r.seen : r.decision = Evaluate(m, InputOf(r))
        BY <4>2 DEF EnforceStep, Fresh, Uncached
      <4>4. m \in BOOLEAN
        BY DEF Typed, TypeOK, Request
      <4>5. m # FALSE
        BY <2>2, <2>4, <4>3
      <4> QED
        BY <4>4, <4>5
    <3> QED
      BY <3>1, <3>2
  <2> QED
    BY <2>2, <2>5, <2>6, <2>7, <2>8 DEF InputOf
<1> QED
  BY <1>3, <1>4 DEF Answers

LEMMA NextGranted ==
  Typed /\ Policy /\ Provenance /\ Fresh /\ AllGranted /\ [Next]_vars => AllGranted'
<1> SUFFICES ASSUME Typed, Policy, Provenance, Fresh, AllGranted, [Next]_vars
             PROVE  AllGranted'
  OBVIOUS
<1>0. req \in [Slots -> Request]
  BY DEF Typed, TypeOK
<1>1. ASSUME NEW s \in Slots, Step(s) PROVE AllGranted'
  <2>1. /\ \A x \in Slots \ {s} : req'[x] = req[x]
        /\ req'[s].kind = req[s].kind
        /\ req'[s].seen = req[s].seen
    BY <1>1, StepFrame
  <2>2. Granted(req'[s])
    <3>1. CASE EnforceStep(s)
      BY <3>1, EnforceGranted
    <3>2. CASE ~EnforceStep(s)
      <4>1. req'[s].answer = req[s].answer
        BY <1>0, <1>1, <3>2
        DEF Step, ClsLevel, ClsGet, ClsFetch, ClsLevel2, ClsPut, PdpLevel, PdpKey,
            PdpGet, PdpDecide, PdpPut, Request
      <4>2. Granted(req[s])
        BY DEF AllGranted
      <4> QED
        BY <2>1, <4>1, <4>2 DEF Granted
    <3> QED
      BY <3>1, <3>2
  <2>3. ASSUME NEW x \in Slots PROVE Granted(req'[x])
    BY <2>1, <2>2 DEF AllGranted
  <2> QED
    BY <2>3 DEF AllGranted, Granted
<1>2. ASSUME NEW s \in Slots, NEW k \in Kinds, Begin(s, k) PROVE AllGranted'
  <2>1. /\ \A x \in Slots \ {s} : req'[x] = req[x]
        /\ req'[s].answer = NoAnswer
    BY <1>0, <1>2, IdleType, IdleFields DEF Begin, Request
  <2>2. Granted(req'[s])
    BY <2>1, NothingGranted DEF NoAnswer
  <2>3. ASSUME NEW x \in Slots PROVE Granted(req'[x])
    BY <2>1, <2>2 DEF AllGranted
  <2> QED
    BY <2>3 DEF AllGranted, Granted
<1>3. ASSUME NEW a \in Admins, Patch(a) PROVE AllGranted'
  <2>1. ASSUME NEW s \in Slots PROVE Granted(req'[s])
    <3>1. /\ req'[s].answer = req[s].answer
          /\ req'[s].kind = req[s].kind
          /\ req[s].seen \subseteq req'[s].seen
      BY <1>3, PatchFrame
    <3>2. Granted(req[s])
      BY DEF AllGranted
    <3> QED
      BY <3>1, <3>2 DEF Granted
  <2> QED
    BY <2>1 DEF AllGranted, Granted
<1>4. CASE UNCHANGED req
  BY <1>4 DEF AllGranted, Granted
<1> QED
  BY <1>1, <1>2, <1>3, <1>4
  DEF Next, ClearCls, ClearPdp, Reclassify, ExpireCls, ExpirePdp, vars

\* No interleaving of requests, mode switches, cache hits and changes of
\* classification shows an encrypted field in clear to a caller whom the
\* policy never granted it.
THEOREM ClearIsGranted == Spec => []NoClearWithoutGrant
<1>1. Init => Provenance
  BY EmptySpec, IdleFields DEF Init, Provenance
<1>2. Init => Fresh
  BY IdleFields DEF Init, Fresh, SeenNow, Uncached, Active
<1>3. Init => AllGranted
  <2>1. Granted(Idle)
    BY NothingGranted, IdleFields DEF NoAnswer
  <2> QED
    BY <2>1 DEF Init, AllGranted
<1>4. AllGranted => NoClearWithoutGrant
  BY DEF AllGranted, Granted, NoClearWithoutGrant
<1>5. Spec => []AllGranted
  BY <1>1, <1>2, <1>3, PolicyAlways, NextProvenance, NextFresh, NextGranted, PTL DEF Spec
<1> QED
  BY <1>4, <1>5, PTL
-----------------------------------------------------------------------------
(* Refinement.  While no decision is cached, a request reads the DCS mode  *)
(* up to four times and its caller cannot tell: DcsPipeline implements     *)
(* Enforcement, for every policy, every classification and any number of   *)
(* requests.                                                               *)

\* No request ever has its decision cached: the levels stay below the one of
\* the PDP cache, or what is asked for is not among the cacheable actions.
NothingCached ==
  \A k \in Kinds, l \in Levels : ~(l >= 2 /\ k.action \in CacheableActions)

-----------------------------------------------------------------------------
(* What the answers depend on.                                             *)

\* An answer depends on the verdict and, for a read, on the forms shown.
LEMMA AnswersByForms ==
  ASSUME NEW action, NEW type, NEW d1, NEW d2, NEW dcs1, NEW dcs2,
         d1.allow = d2.allow,
         action \in ReadActionNames => Enforce(type, d1, dcs1) = Enforce(type, d2, dcs2)
  PROVE  Answers(action, type, d1, dcs1) = Answers(action, type, d2, dcs2)
<1>1. NeedsKms(action, type, d1, dcs1) = NeedsKms(action, type, d2, dcs2)
  BY DEF NeedsKms, ReadActionNames
<1> QED
  BY <1>1 DEF Answers

\* A decision without field actions shows a type of resource in one way.
LEMMA BareForms ==
  ASSUME NEW type \in {"film", "spectator", "hall"}, NEW d1, NEW d2,
         NEW dcs1 \in BOOLEAN, NEW dcs2 \in BOOLEAN,
         d1.allow \in BOOLEAN, d1.allow = d2.allow,
         d1.fields = NoFields, d2.fields = NoFields
  PROVE  Enforce(type, d1, dcs1) = Enforce(type, d2, dcs2)
<1>1. \A f : ActionIn(d1, f) = "none" /\ ActionIn(d2, f) = "none"
  BY DEF ActionIn, NoFields
<1>2. \A f : /\ FilmForm(d1, dcs1, f) = FilmForm(d2, dcs2, f)
             /\ SpectatorForm(d1, f) = SpectatorForm(d2, f)
             /\ HallForm(d1, f) = HallForm(d2, f)
  BY <1>1 DEF FilmForm, SpectatorForm, HallForm
<1> QED
  BY <1>2 DEF Enforce

\* With DCS off when it is applied, a decision shows a film by its verdict.
LEMMA OffFilmForms ==
  ASSUME NEW d1, NEW d2, d1.allow \in BOOLEAN, d1.allow = d2.allow, NEW off \in BOOLEAN, ~off
  PROVE  Enforce("film", d1, off) = Enforce("film", d2, off)
<1>1. \A f : FilmForm(d1, off, f) = FilmForm(d2, off, f)
  BY DEF FilmForm
<1> QED
  BY <1>1 DEF Enforce

\* Only films are shown by the mode as it is when the decision is applied.
LEMMA OtherForms ==
  ASSUME NEW type \in {"spectator", "hall"}, NEW d, NEW dcs1, NEW dcs2
  PROVE  Enforce(type, d, dcs1) = Enforce(type, d, dcs2)
BY DEF Enforce

-----------------------------------------------------------------------------
(* A mixture of modes is one of the modes mixed.                           *)

\* The resource has the fields of a mode the request has seen.
Origin(k, fields, seen) ==
  \/ fields = NoFields /\ FALSE \in seen
  \/ fields \in KnownMaps(k.type) /\ TRUE \in seen

LEMMA BareDecision ==
  ASSUME NEW k, NEW fields, NEW m \in BOOLEAN, m = FALSE \/ fields = NoFields
  PROVE  Evaluate(m, Input(k, fields)).fields = NoFields
<1>1. CASE m = FALSE
  BY <1>1 DEF Evaluate
<1>2. CASE m = TRUE /\ fields = NoFields
  <2>1. FieldActionsFor(Input(k, fields)) = NoFields
    BY <1>2 DEF FieldActionsFor, Input, NoFields
  <2> QED
    BY <1>2, <2>1 DEF Evaluate, Decide, Denial
<1> QED
  BY <1>1, <1>2

LEMMA MixedIsPermitted ==
  ASSUME NEW k \in Kinds, NEW seen \in SUBSET BOOLEAN, NEW m \in seen, NEW dcs \in seen,
         NEW fields, Origin(k, fields, seen),
         NEW a \in Answers(k.action, k.type, Evaluate(m, Input(k, fields)), dcs)
  PROVE  \E x \in seen : a \in PermittedAnswers(k, x)
<1>0. PICK off \in BOOLEAN, on \in BOOLEAN : off = FALSE /\ on = TRUE
  OBVIOUS
<1> DEFINE d  == Evaluate(m, Input(k, fields))
           d0 == Evaluate(off, Input(k, NoFields))
<1>1. m \in BOOLEAN /\ dcs \in BOOLEAN
  OBVIOUS
<1>2. /\ d.allow = AllowWithoutDCS(k.action, k.principal.role)
      /\ d0.allow = AllowWithoutDCS(k.action, k.principal.role)
      /\ d.allow \in BOOLEAN
  <2>1. \A c : \A x \in BOOLEAN :
          Evaluate(x, Input(k, c)).allow = AllowWithoutDCS(k.action, k.principal.role)
    <3> SUFFICES ASSUME NEW x \in BOOLEAN, NEW c
                 PROVE  Evaluate(x, Input(k, c)).allow
                          = AllowWithoutDCS(k.action, k.principal.role)
      OBVIOUS
    <3> DEFINE in == Input(k, c)
    <3>1. in.principal.tenant = in.tenant /\ in.action = k.action /\ in.principal = k.principal
      BY DEF Input
    <3>2. Evaluate(x, in).allow = AllowWithoutDCS(in.action, in.principal.role)
      BY <3>1, ModeNeverChangesAllow
    <3> QED
      BY <3>1, <3>2
  <2>2. AllowWithoutDCS(k.action, k.principal.role) \in BOOLEAN
    BY DEF AllowWithoutDCS
  <2> QED
    BY <1>0, <1>1, <2>1, <2>2
<1>a. Answers(k.action, k.type, d0, off) \subseteq PermittedAnswers(k, off)
  BY <1>0 DEF PermittedAnswers
<1>b. m = on /\ fields \in KnownMaps(k.type) =>
        Answers(k.action, k.type, d, on) \subseteq PermittedAnswers(k, on)
  BY <1>0 DEF PermittedAnswers
<1>c. m = off \/ fields = NoFields => d.fields = NoFields /\ d0.fields = NoFields
  BY <1>0, <1>1, BareDecision
<1>d. a \in Answers(k.action, k.type, d, dcs)
  OBVIOUS
<1> HIDE DEF d, d0
<1>3. ASSUME off \in seen,
             k.action \in ReadActionNames =>
               Enforce(k.type, d, dcs) = Enforce(k.type, d0, off)
      PROVE  \E x \in seen : a \in PermittedAnswers(k, x)
  <2>1. d.allow = d0.allow
    BY <1>2
  <2>2. Answers(k.action, k.type, d, dcs) = Answers(k.action, k.type, d0, off)
    BY <1>3, <2>1, AnswersByForms
  <2>3. a \in PermittedAnswers(k, off)
    BY <1>a, <1>d, <2>2
  <2> QED
    BY <1>3, <2>3
<1>4. ASSUME m = on, on \in seen, fields \in KnownMaps(k.type),
             k.action \in ReadActionNames =>
               Enforce(k.type, d, dcs) = Enforce(k.type, d, on)
      PROVE  \E x \in seen : a \in PermittedAnswers(k, x)
  <2>1. Answers(k.action, k.type, d, dcs) = Answers(k.action, k.type, d, on)
    BY <1>4, AnswersByForms
  <2>2. a \in PermittedAnswers(k, on)
    BY <1>4, <1>b, <1>d, <2>1
  <2> QED
    BY <1>4, <2>2
<1>5. CASE off \notin seen
  <2>1. m = on /\ dcs = on /\ fields \in KnownMaps(k.type)
    BY <1>0, <1>1, <1>5 DEF Origin
  <2> QED
    BY <1>4, <2>1
<1>6. CASE off \in seen /\ k.action \notin ReadActionNames
  BY <1>3, <1>6
<1>7. CASE off \in seen /\ k.action \in ReadActionNames
  <2>1. k.type \in {"film", "spectator", "hall"}
    BY <1>7, KindsAssumption
  <2>2. CASE m = off \/ fields = NoFields
    <3>1. d.fields = NoFields /\ d0.fields = NoFields
      BY <1>c, <2>2
    <3>2. Enforce(k.type, d, dcs) = Enforce(k.type, d0, off)
      <4>1. d.allow \in BOOLEAN /\ d.allow = d0.allow
        BY <1>2
      <4> QED
        BY <1>0, <1>1, <2>1, <3>1, <4>1, BareForms, SMTT(30)
    <3> QED
      BY <1>3, <1>7, <3>2
  <2>3. CASE m = on /\ fields # NoFields
    <3>1. fields \in KnownMaps(k.type) /\ on \in seen
      BY <1>0, <2>3 DEF Origin
    <3>2. CASE dcs = on
      BY <1>4, <2>3, <3>1, <3>2
    <3>3. CASE dcs = off /\ k.type = "film"
      <4>1. Enforce(k.type, d, dcs) = Enforce(k.type, d0, off)
        <5>1. d.allow \in BOOLEAN /\ d.allow = d0.allow
          BY <1>2
        <5>2. Enforce("film", d, off) = Enforce("film", d0, off)
          BY <1>0, <5>1, OffFilmForms
        <5> QED
          BY <3>3, <5>2
      <4> QED
        BY <1>3, <1>7, <4>1
    <3>4. CASE dcs = off /\ k.type # "film"
      <4>1. Enforce(k.type, d, dcs) = Enforce(k.type, d, on)
        BY <2>1, <3>4, OtherForms
      <4> QED
        BY <1>4, <2>3, <3>1, <4>1
    <3> QED
      BY <1>0, <1>1, <3>2, <3>3, <3>4
  <2> QED
    BY <1>0, <1>1, <2>2, <2>3
<1> QED
  BY <1>5, <1>6, <1>7

-----------------------------------------------------------------------------
(* The invariant.                                                          *)

ClassifyingPCs == {"clsLevel", "clsGet", "clsFetch", "clsLevel2", "clsPut"}

\* A request by-passes the PDP cache; its fields and its decision are those of
\* modes it has seen.
Direct(r) ==
  /\ r.pc \notin {"pdpKey", "pdpGet", "pdpPut"} /\ ~r.cacheable
  /\ r.pc \in ClassifyingPCs => TRUE \in r.seen
  /\ r.pc \in {"pdpLevel", "pdpDecide", "enforce"} => Origin(r.kind, r.fields, r.seen)
  /\ r.pc = "enforce" => \E m \in r.seen : r.decision = Evaluate(m, InputOf(r))

AllDirect == \A s \in Slots : Direct(req[s])

LEMMA StepDirect ==
  ASSUME NothingCached, Typed, Provenance, SeenNow, AllDirect, NEW s \in Slots, Step(s)
  PROVE  AllDirect'
<1> DEFINE r == req[s]
<1>0. req \in [Slots -> Request] /\ r \in Request /\ level \in Levels
  BY DEF Typed, TypeOK
<1>1. /\ \A x \in Slots \ {s} : req'[x] = req[x]
      /\ req'[s].kind = r.kind
      /\ req'[s].seen = r.seen
      /\ r.kind \in Kinds
  BY StepFrame
<1>2. Direct(r)
  BY DEF AllDirect
<1>3. SUFFICES Direct(req'[s])
  <2>1. ASSUME NEW x \in Slots PROVE Direct(req'[x])
    BY <1>1, <1>3 DEF AllDirect
  <2> QED
    BY <2>1 DEF AllDirect, Direct, InputOf
<1>4. CASE ClsLevel(s)
  BY <1>0, <1>1, <1>2, <1>4 DEF ClsLevel, Direct, ClassifyingPCs, Request
<1>5. CASE ClsGet(s)
  <2>1. TRUE \in r.seen /\ ~r.cacheable
    BY <1>2, <1>5 DEF ClsGet, Direct, ClassifyingPCs
  <2>2. CASE r.kind.type \in DOMAIN clsCache
    <3>1. clsCache[r.kind.type] \in KnownMaps(r.kind.type)
      BY <2>2 DEF Provenance
    <3>2. req'[s].pc = "pdpLevel" /\ req'[s].fields = clsCache[r.kind.type]
          /\ req'[s].cacheable = r.cacheable
      BY <1>0, <1>5, <2>2 DEF ClsGet, Request
    <3> QED
      BY <1>1, <2>1, <3>1, <3>2 DEF Direct, Origin, ClassifyingPCs
  <2>3. CASE r.kind.type \notin DOMAIN clsCache
    BY <1>0, <1>1, <1>5, <2>1, <2>3 DEF ClsGet, Direct, ClassifyingPCs, Request
  <2> QED
    BY <2>2, <2>3
<1>6. CASE ClsFetch(s)
  <2>1. PICK m : req' = [req EXCEPT ![s].pc = "clsLevel2", ![s].fields = m]
    BY <1>6 DEF ClsFetch
  <2>2. TRUE \in r.seen /\ ~r.cacheable
    BY <1>2, <1>6 DEF ClsFetch, Direct, ClassifyingPCs
  <2>3. req'[s].pc = "clsLevel2" /\ req'[s].cacheable = r.cacheable
    BY <1>0, <2>1 DEF Request
  <2> QED
    BY <1>1, <2>2, <2>3 DEF Direct, ClassifyingPCs
<1>7. CASE ClsLevel2(s) \/ ClsPut(s)
  <2>1. TRUE \in r.seen /\ ~r.cacheable /\ r.fields \in KnownMaps(r.kind.type)
    BY <1>2, <1>7 DEF ClsLevel2, ClsPut, Direct, ClassifyingPCs, Provenance
  <2>2. /\ req'[s].pc \in {"clsPut", "pdpLevel"}
        /\ req'[s].cacheable = r.cacheable /\ req'[s].fields = r.fields
    BY <1>0, <1>7 DEF ClsLevel2, ClsPut, Request
  <2> QED
    BY <1>1, <2>1, <2>2 DEF Direct, Origin, ClassifyingPCs
<1>8. CASE PdpLevel(s)
  <2>1. ~(level >= 2 /\ r.kind.action \in CacheableActions)
    BY <1>0, <1>1 DEF NothingCached
  <2>2. /\ req'[s].pc = "pdpDecide" /\ req'[s].cacheable = FALSE
        /\ req'[s].fields = r.fields
    BY <1>0, <1>8, <2>1 DEF PdpLevel, Request
  <2>3. Origin(r.kind, r.fields, r.seen)
    BY <1>2, <1>8 DEF PdpLevel, Direct
  <2> QED
    BY <1>1, <2>2, <2>3 DEF Direct, ClassifyingPCs
<1>9. CASE PdpDecide(s)
  <2>1. ~r.cacheable /\ Origin(r.kind, r.fields, r.seen)
    BY <1>2, <1>9 DEF PdpDecide, Direct
  <2>2. /\ req'[s].pc = "enforce" /\ req'[s].cacheable = r.cacheable
        /\ req'[s].fields = r.fields
        /\ req'[s].decision = Evaluate(dcsOn, InputOf(r))
        /\ InputOf(req'[s]) = InputOf(r)
    BY <1>0, <1>9, <2>1 DEF PdpDecide, InputOf, Request
  <2>3. dcsOn \in r.seen
    BY <1>9 DEF PdpDecide, SeenNow, Active
  <2> QED
    BY <1>1, <2>1, <2>2, <2>3 DEF Direct, ClassifyingPCs
<1>10. CASE EnforceStep(s)
  <2>1. PICK a : req' = [req EXCEPT ![s] = [Idle EXCEPT !.pc = "done", !.kind = r.kind,
                                                        !.seen = r.seen, !.answer = a]]
    BY <1>10 DEF EnforceStep
  <2>2. req'[s].pc = "done" /\ req'[s].cacheable = FALSE
    BY <1>0, <2>1, IdleFields, IdleType DEF Request
  <2> QED
    BY <2>2 DEF Direct, ClassifyingPCs
<1>11. CASE PdpKey(s) \/ PdpGet(s) \/ PdpPut(s)
  BY <1>2, <1>11 DEF PdpKey, PdpGet, PdpPut, Direct
<1> QED
  BY <1>4, <1>5, <1>6, <1>7, <1>8, <1>9, <1>10, <1>11 DEF Step

LEMMA NextDirect ==
  NothingCached /\ Typed /\ Provenance /\ SeenNow /\ AllDirect /\ [Next]_vars => AllDirect'
<1> SUFFICES ASSUME NothingCached, Typed, Provenance, SeenNow, AllDirect, [Next]_vars
             PROVE  AllDirect'
  OBVIOUS
<1>0. req \in [Slots -> Request]
  BY DEF Typed, TypeOK
<1>1. ASSUME NEW s \in Slots, Step(s) PROVE AllDirect'
  BY <1>1, StepDirect
<1>2. ASSUME NEW s \in Slots, NEW k \in Kinds, Begin(s, k) PROVE AllDirect'
  <2>1. /\ \A x \in Slots \ {s} : req'[x] = req[x]
        /\ req'[s].fields = NoFields /\ req'[s].cacheable = FALSE
        /\ req'[s].seen = {dcsOn}
        /\ req'[s].pc = IF dcsOn THEN "clsLevel" ELSE "pdpLevel"
    BY <1>0, <1>2, IdleType, IdleFields DEF Begin, Request
  <2>2. dcsOn \in BOOLEAN
    BY DEF Typed, TypeOK
  <2>3. Direct(req'[s])
    <3>1. CASE dcsOn
      <4>1. req'[s].pc = "clsLevel" /\ TRUE \in req'[s].seen
        BY <2>1, <2>2, <3>1
      <4> QED
        BY <2>1, <4>1 DEF Direct, ClassifyingPCs
    <3>2. CASE ~dcsOn
      <4>1. req'[s].pc = "pdpLevel" /\ FALSE \in req'[s].seen
        BY <2>1, <2>2, <3>2
      <4> QED
        BY <2>1, <4>1 DEF Direct, Origin, ClassifyingPCs
    <3> QED
      BY <3>1, <3>2
  <2>4. ASSUME NEW x \in Slots PROVE Direct(req'[x])
    BY <2>1, <2>3 DEF AllDirect
  <2> QED
    BY <2>4 DEF AllDirect, Direct, InputOf
<1>3. ASSUME NEW a \in Admins, Patch(a) PROVE AllDirect'
  <2>1. ASSUME NEW s \in Slots PROVE Direct(req'[s])
    <3>1. InputOf(req'[s]) = InputOf(req[s])
      BY <1>3, PatchFrame DEF InputOf
    <3>2. Direct(req[s])
      BY DEF AllDirect
    <3>3. Origin(req[s].kind, req[s].fields, req[s].seen)
            => Origin(req'[s].kind, req'[s].fields, req'[s].seen)
      BY <1>3, PatchFrame DEF Origin
    <3> QED
      BY <1>3, <3>1, <3>2, <3>3, PatchFrame DEF Direct
  <2> QED
    BY <2>1 DEF AllDirect, Direct, InputOf
<1>4. CASE UNCHANGED req
  BY <1>4 DEF AllDirect
<1> QED
  BY <1>1, <1>2, <1>3, <1>4
  DEF Next, ClearCls, ClearPdp, Reclassify, ExpireCls, ExpirePdp, vars


-----------------------------------------------------------------------------
(* The refinement.                                                         *)

PhaseOf(r) == CASE r.pc = "idle" -> "idle" [] r.pc = "done" -> "answered" [] OTHER -> "waiting"

LEMMA InitRefines == Init => Enf!Init
<1> SUFFICES ASSUME Init PROVE Enf!Init
  OBVIOUS
<1>1. \A s \in Slots : /\ req[s].pc = "idle" /\ req[s].kind = NoKind
                        /\ req[s].seen = {} /\ req[s].answer = NoAnswer
  BY DEF Init, Idle
<1>2. dcsOn \in BOOLEAN
  BY DEF Init
<1> QED
  BY <1>1, <1>2 DEF Enf!Init

\* A step that answers nothing cannot be seen by the callers.
LEMMA InternalStutters ==
  ASSUME Typed, NEW s \in Slots, Step(s), ~EnforceStep(s)
  PROVE  UNCHANGED Enf!vars
<1>0. req \in [Slots -> Request]
  BY DEF Typed, TypeOK
<1>1. /\ \A x \in Slots \ {s} : req'[x] = req[x]
      /\ req'[s].kind = req[s].kind /\ req'[s].seen = req[s].seen
      /\ dcsOn' = dcsOn
  BY StepFrame DEF world
<1>2. /\ req'[s].answer = req[s].answer
      /\ req[s].pc \notin {"idle", "done"} /\ req'[s].pc \notin {"idle", "done"}
  BY <1>0
  DEF Step, ClsLevel, ClsGet, ClsFetch, ClsLevel2, ClsPut, PdpLevel, PdpKey,
      PdpGet, PdpDecide, PdpPut, Request
<1>3. \A x \in Slots : /\ req'[x].kind = req[x].kind
                       /\ req'[x].seen = req[x].seen
                       /\ req'[x].answer = req[x].answer
                       /\ PhaseOf(req'[x]) = PhaseOf(req[x])
  BY <1>1, <1>2 DEF PhaseOf
<1> QED
  BY <1>1, <1>3 DEF Enf!vars, PhaseOf

\* Enforcement gives an answer that a mode seen by the request gives.
LEMMA EnforceAnswers ==
  ASSUME Typed, SeenNow, AllDirect, NEW s \in Slots, EnforceStep(s)
  PROVE  Enf!Answer(s)
<1> DEFINE r == req[s]
<1>0. req \in [Slots -> Request] /\ r \in Request /\ r.pc = "enforce" /\ r.kind \in Kinds
  BY DEF Typed, TypeOK, KindKnown, EnforceStep
<1>1. PICK a \in Answers(r.kind.action, r.kind.type, r.decision, dcsOn) :
        req' = [req EXCEPT ![s] = [Idle EXCEPT !.pc = "done", !.kind = r.kind,
                                               !.seen = r.seen, !.answer = a]]
  BY DEF EnforceStep
<1>2. /\ \A x \in Slots \ {s} : req'[x] = req[x]
      /\ req'[s].kind = r.kind /\ req'[s].seen = r.seen
      /\ req'[s].answer = a /\ req'[s].pc = "done"
  BY <1>0, <1>1, IdleType DEF Request
<1>3. \E x \in r.seen : a \in PermittedAnswers(r.kind, x)
  <2>1. Direct(r)
    BY DEF AllDirect
  <2>2. PICK m \in r.seen : r.decision = Evaluate(m, Input(r.kind, r.fields))
    BY <1>0, <2>1 DEF Direct, InputOf
  <2>3. Origin(r.kind, r.fields, r.seen)
    BY <1>0, <2>1 DEF Direct
  <2>4. dcsOn \in r.seen /\ r.seen \in SUBSET BOOLEAN
    BY <1>0 DEF SeenNow, Active, Request
  <2>5. a \in Answers(r.kind.action, r.kind.type, Evaluate(m, Input(r.kind, r.fields)), dcsOn)
    BY <1>1, <2>2
  <2> HIDE DEF r
  <2> QED
    BY <1>0, <2>2, <2>3, <2>4, <2>5, MixedIsPermitted
<1>4. dcsOn' = dcsOn
  BY DEF EnforceStep, world
<1>5. \A x \in Slots : /\ req'[x].kind = req[x].kind
                       /\ req'[x].seen = req[x].seen
                       /\ req'[x].answer = IF x = s THEN a ELSE req[x].answer
                       /\ PhaseOf(req'[x]) = IF x = s THEN "answered" ELSE PhaseOf(req[x])
  BY <1>2 DEF PhaseOf
<1>6. PhaseOf(r) = "waiting"
  BY <1>0 DEF PhaseOf
<1> QED
  BY <1>3, <1>4, <1>5, <1>6 DEF Enf!Answer, PhaseOf

LEMMA BeginCalls ==
  ASSUME Typed, NEW s \in Slots, NEW k \in Kinds, Begin(s, k)
  PROVE  Enf!Call(s, k)
<1>0. req \in [Slots -> Request]
  BY DEF Typed, TypeOK
<1>1. /\ \A x \in Slots \ {s} : req'[x] = req[x]
      /\ req'[s].kind = k /\ req'[s].seen = {dcsOn} /\ req'[s].answer = NoAnswer
      /\ req'[s].pc \in {"clsLevel", "pdpLevel"}
      /\ req[s].pc \in {"idle", "done"}
      /\ dcsOn' = dcsOn
  BY <1>0, IdleType, IdleFields DEF Begin, Active, world, Request
<1>2. \A x \in Slots : /\ req'[x].kind = IF x = s THEN k ELSE req[x].kind
                       /\ req'[x].seen = IF x = s THEN {dcsOn} ELSE req[x].seen
                       /\ req'[x].answer = IF x = s THEN NoAnswer ELSE req[x].answer
                       /\ PhaseOf(req'[x]) = IF x = s THEN "waiting" ELSE PhaseOf(req[x])
  BY <1>1 DEF PhaseOf
<1> QED
  BY <1>1, <1>2 DEF Enf!Call, PhaseOf

LEMMA PatchSwitches ==
  ASSUME Typed, NEW a \in Admins, Patch(a)
  PROVE  Enf!Switch
<1>0. req \in [Slots -> Request]
  BY DEF Typed, TypeOK
<1>1. ASSUME NEW x \in Slots
      PROVE  /\ req'[x].kind = req[x].kind
             /\ req'[x].answer = req[x].answer
             /\ PhaseOf(req'[x]) = PhaseOf(req[x])
             /\ req'[x].seen = IF PhaseOf(req[x]) = "waiting"
                               THEN req[x].seen \cup {dcsOn'} ELSE req[x].seen
  <2>1. req[x] \in Request
    BY <1>0
  <2>2. req'[x] = IF Active(req[x])
                  THEN [req[x] EXCEPT !.seen = @ \cup {dcsOn'}] ELSE req[x]
    BY DEF Patch
  <2>3. Active(req[x]) <=> PhaseOf(req[x]) = "waiting"
    BY DEF Active, PhaseOf
  <2>4. req'[x].pc = req[x].pc /\ req'[x].kind = req[x].kind
          /\ req'[x].answer = req[x].answer
    BY PatchFrame
  <2>5. req'[x].seen = IF Active(req[x])
                       THEN req[x].seen \cup {dcsOn'} ELSE req[x].seen
    BY <2>1, <2>2 DEF Request
  <2> QED
    BY <2>3, <2>4, <2>5 DEF PhaseOf
<1>2. dcsOn' \in BOOLEAN
  BY DEF Patch
<1> QED
  BY <1>1, <1>2 DEF Enf!Switch, PhaseOf

LEMMA NextRefines ==
  Typed /\ SeenNow /\ AllDirect /\ [Next]_vars => [Enf!Next]_Enf!vars
<1> SUFFICES ASSUME Typed, SeenNow, AllDirect, [Next]_vars
             PROVE  [Enf!Next]_Enf!vars
  OBVIOUS
<1>1. ASSUME NEW s \in Slots, Step(s) PROVE [Enf!Next]_Enf!vars
  <2>1. CASE EnforceStep(s)
    BY <2>1, EnforceAnswers DEF Enf!Next
  <2>2. CASE ~EnforceStep(s)
    BY <1>1, <2>2, InternalStutters
  <2> QED
    BY <2>1, <2>2
<1>2. ASSUME NEW s \in Slots, NEW k \in Kinds, Begin(s, k) PROVE Enf!Next
  BY <1>2, BeginCalls DEF Enf!Next
<1>3. ASSUME NEW a \in Admins, Patch(a) PROVE Enf!Next
  BY <1>3, PatchSwitches DEF Enf!Next
<1>4. CASE UNCHANGED <<dcsOn, req>>
  BY <1>4 DEF Enf!vars
<1> QED
  BY <1>1, <1>2, <1>3, <1>4
  DEF Next, ClearCls, ClearPdp, Reclassify, ExpireCls, ExpirePdp, settings, world, vars

\* With no decision cached, every request gets the answer of a single mode in
\* force while it ran, however many times it read the mode.
THEOREM PipelineImplementsEnforcement ==
  ASSUME NothingCached
  PROVE  Spec => ImplementsEnforcement
<1>1. Init => Provenance
  BY EmptySpec, IdleFields DEF Init, Provenance
<1>2. Init => Fresh
  BY IdleFields DEF Init, Fresh, SeenNow, Uncached, Active
<1>3. Init => AllDirect
  BY IdleFields DEF Init, AllDirect, Direct, ClassifyingPCs
<1>4. Fresh => SeenNow
  BY DEF Fresh
<1>5. Typed /\ Provenance /\ SeenNow /\ AllDirect /\ [Next]_vars => AllDirect'
  BY NextDirect
<1> QED
  BY <1>1, <1>2, <1>3, <1>4, <1>5, InitTyped, NextTyped, NextProvenance, NextFresh,
     InitRefines, NextRefines, PTL
  DEF Spec, ImplementsEnforcement, Enf!Spec

=============================================================================
