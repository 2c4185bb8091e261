------------------------ MODULE SpectatorWorkflowProofs ------------------------
(***************************************************************************)
(* Whatever creations and searches overlap, whatever fails, and whichever  *)
(* repositories and client a restart ends up with: tables, answers and     *)
(* journal agree, and what was acknowledged is found.                      *)
(***************************************************************************)
EXTENDS SpectatorWorkflow, DcsPolicyProofs, FiniteSetTheorems

\* Creations and searches use one pepper, as with the default configuration.
OnePepper == PepperAt[ConfigPath] = PepperAt[SearchPath]

-----------------------------------------------------------------------------
(* The invariant of a call: what holds of its local variables, depending   *)
(* on where it stands.                                                     *)

Early == {"hall", "authorize", "authorizeHall", "encrypt", "pepper", "readPepper",
          "storePepper", "insert", "query", "hallInsert", "hallQuery"}

Showing == {"read", "decrypt", "transit", "storePlain", "mask"}

TenantOf(r) == r.request.principal.tenant

KeyOf(c, r) == <<TenantOf(r), c>>

\* Where a call stands says what was asked.
Placed(r) ==
  /\ r.pc # "idle" => r.request \in Requests
  /\ r.pc \notin {"idle", "done"} => r.request.complete
  /\ r.pc \in {"hall", "encrypt", "insert"} => r.request.op = "create"
  /\ r.pc \in {"authorize", "pepper", "readPepper", "storePepper", "audit", "denyAudit"}
              \cup Showing => r.request.op \in Spectating
  /\ r.pc = "query" => r.request.op = "search"
  /\ r.pc \in {"authorizeHall", "hallInsert"} => r.request.op = "hallCreate"
  /\ r.pc \in {"hallQuery", "hallRead"} => r.request.op = "hallList"
  /\ r.reply = "ok" => r.pc = "done"
  /\ r.reply = "forbidden" => r.pc \in {"denyAudit", "done"}

\* The process that serves the call is the one that runs.
Bound(r) ==
  /\ r.pc \in Early \cup Showing \cup {"hallRead", "audit"} => r.on = process
  /\ r.on # NoProcess =>
       r.on.start <= process.start /\ (r.on.start = process.start => r.on = process)

\* What the call has gathered and shown so far.
Gathered(r) ==
  /\ r.pc \in Early \cup {"denyAudit"} => r.rows = {} /\ r.shown = {}
  /\ r.pc # "idle" /\ r.request.op \in Spectating =>
       r.shown \subseteq ShownPerson /\ r.rows \subseteq Keys
  /\ r.pc # "idle" /\ r.request.op \notin Spectating =>
       r.shown \subseteq ShownHall /\ r.rows \subseteq Halls
  /\ r.pc \in Showing =>
       r.rows \subseteq DOMAIN people[process.store] /\ {s.id : s \in r.shown} \subseteq r.rows
  /\ r.pc \in Showing \ {"read"} =>
       r.id \in r.rows /\ r.forms \in [FieldsOf("spectator") -> Forms]
  /\ r.pc = "audit" => {s.id : s \in r.shown} = r.rows

\* The hall of a creation under way.
Housed(r) ==
  r.pc \in Early \ {"hall"} /\ r.request.op = "create" =>
    <<TenantOf(r), r.request.hall>> \in halls[process.store]

\* Until its INSERT a call has no row, and an acknowledged creation has one.
Written(c, r) ==
  /\ r.pc \in Early \cup {"idle"} =>
       \A s \in Stores : \A k \in DOMAIN people[s] : k[2] # c
  /\ r.pc # "idle" /\ r.request.op = "create" /\
     (r.pc \in Showing \cup {"audit"} \/ r.reply = "ok") =>
       /\ r.on \in Process
       /\ r.on.store = "postgres" \/ r.on.start = process.start =>
            /\ KeyOf(c, r) \in DOMAIN people[r.on.store]
            /\ people[r.on.store][KeyOf(c, r)].ct = Encrypted(r.on.client, r.request.ident)

\* Every mode the call has used is one it has seen.
ModesOf(r, s) ==
  /\ \E m \in r.seen : s.forms = FormsOf(m, r.request.principal)
  /\ \E m \in r.seen : s.whole = (~m \/ r.request.principal.role = "admin")

Moded(r) ==
  /\ r.pc \in Early \cup Showing /\ r.request.op \in Spectating => mode \in r.seen
  /\ r.pc \in Showing \ {"read"} =>
       \E m \in r.seen : r.forms = FormsOf(m, r.request.principal)
  /\ r.pc # "idle" /\ r.request.op \in Spectating => \A s \in r.shown : ModesOf(r, s)

\* The forms the journal reports, and what it says of a call that is over.
Reported(r) ==
  IF r.request.op = "create" THEN UNION {FormsIn(s.forms) : s \in r.shown} ELSE {}

Logged(c, r) ==
  r.pc = "done" /\ r.reply \in {"ok", "forbidden"} /\ ~r.unlogged
  /\ r.request.op \in Spectating =>
    \E e \in audit :
      /\ e.call = c /\ e.outcome = (IF r.reply = "ok" THEN "allow" ELSE "deny")
      /\ e.touched = Reported(r)

\* The pepper of a call.
Peppered(r) ==
  /\ r.pc \in {"readPepper", "storePepper"} => process.client = "vault"
  /\ r.pc \in {"storePepper", "insert", "query"} => r.pepper \in Peppers
  /\ OnePepper /\ r.pc \in {"storePepper", "insert", "query"} =>
       r.pepper = PepperOf(process.client)

\* What a search has found, decrypted and shown is of its tenant and under
\* its identifier.
Means(r, text) == text # NoIdent => text \in Idents /\ Norm[text] = Norm[r.request.ident]

Truthful(r) ==
  OnePepper /\ r.pc # "idle" /\ r.request.op = "search" =>
    /\ r.pc \in Showing =>
         \A k \in r.rows :
           /\ k[1] = TenantOf(r)
           /\ people[process.store][k].lookup
                = Lookup(PepperOf(process.client), r.request.ident)
    /\ Means(r, r.text)
    /\ \A s \in r.shown : s.id[1] = TenantOf(r) /\ Means(r, s.text)

Good(c, r) ==
  /\ Placed(r) /\ Bound(r) /\ Gathered(r) /\ Housed(r) /\ Written(c, r)
  /\ Moded(r) /\ Logged(c, r) /\ Peppered(r) /\ Truthful(r)

\* What a search is to find of an acknowledged creation w of call x.
Finds(r, x, w) ==
  OnePepper /\ r.pc # "idle" /\ r.request.op = "search"
  /\ SameDirectory(w.on, r.on) /\ TenantOf(w) = TenantOf(r)
  /\ Norm[w.request.ident] = Norm[r.request.ident] =>
    /\ r.pc \in Showing \cup {"audit"} => KeyOf(x, w) \in r.rows
    /\ r.reply = "ok" => KeyOf(x, w) \in {s.id : s \in r.shown}

Searched(r) ==
  \A x \in r.before :
    call[x].reply = "ok" /\ call[x].request.op = "create" /\ Finds(r, x, call[x])

-----------------------------------------------------------------------------
(* The invariant of the tables and of the pepper cache.                    *)

Genuine ==
  \A s \in Stores : \A k \in DOMAIN people[s] :
    LET person == people[s][k] IN
    person.lookup = Lookup(PepperOf(person.ct.by), person.ct.text)

LookupsUnique ==
  LET table == people["postgres"] IN
  \A j, k \in DOMAIN table : j[1] = k[1] /\ table[j].lookup = table[k].lookup => j = k

JournalKeyed ==
  \A e \in audit :
    e.id # NoId => e.outcome = "allow" /\ e.id \in DOMAIN people["postgres"]

Finite == IsFiniteSet(DOMAIN people["postgres"])

Shared == HallsExist /\ LookupsUnique /\ JournalKeyed /\ Finite /\ (OnePepper => Genuine)

Cached == OnePepper /\ pepper # NoPepper => pepper = PepperAt[ConfigPath]

AllGood == \A x \in Calls, r \in Call : call[x] = r => Good(x, r) /\ Searched(r)

IInv == TypeOK /\ Shared /\ Cached /\ AllGood

-----------------------------------------------------------------------------
(* Steps of a call in general.                                             *)

\* What a step of call c leaves of the rest.
Grows(c) ==
  /\ UNCHANGED <<process, mode>>
  /\ \A s \in Stores : halls[s] \subseteq halls'[s]
  /\ \A s \in Stores : \A k \in DOMAIN people[s] :
       k \in DOMAIN people'[s] /\ people'[s][k] = people[s][k]
  /\ \A s \in Stores : \A k \in DOMAIN people'[s] : k \in DOMAIN people[s] \/ k[2] = c
  /\ audit \subseteq audit'

Moves(c) ==
  /\ call[c].pc # "done"
  /\ \E s \in Call : Becomes(c, s) /\ Good(c, s)' /\ Searched(s)

LEMMA BecomesFrame ==
  ASSUME call \in [Calls -> Call], NEW c \in Calls, NEW r \in Call, Becomes(c, r)
  PROVE  /\ call' \in [Calls -> Call]
         /\ call'[c] = r
         /\ \A x \in Calls \ {c} : call'[x] = call[x]
BY DEF Becomes

LEMMA RequestType ==
  ASSUME NEW rq \in Requests
  PROVE  /\ rq.op \in Ops /\ rq.principal \in Principals /\ rq.principal.tenant \in Tenants
         /\ rq.hall \in Halls \cup {NoHall} /\ rq.ident \in Idents \cup {NoIdent}
         /\ rq.complete \in BOOLEAN /\ rq # NoRequest
         /\ rq.op = "create" /\ rq.complete => rq.hall \in Halls
         /\ rq.op \in Spectating /\ rq.complete => rq.ident \in Idents
BY SpectatorAssumption DEF Principals

LEMMA ProcessType ==
  ASSUME process \in Process
  PROVE  /\ process.client \in Clients /\ process.store \in Stores
         /\ process.start \in 1..MaxStarts
BY DEF Process

\* The invariant of a call does not suffer from the steps of another.
LEMMA GoodStays ==
  ASSUME TypeOK, NEW c \in Calls, NEW x \in Calls \ {c}, Grows(c), NEW r \in Call, Good(x, r)
  PROVE  Good(x, r)'
<1>0. process' = process /\ mode' = mode /\ process.store \in Stores
  BY ProcessType DEF Grows, TypeOK
<1>1. Placed(r)'
  BY DEF Good, Placed
<1>2. Bound(r)'
  BY <1>0 DEF Good, Bound
<1>3. Gathered(r)'
  <2>1. DOMAIN people[process.store] \subseteq DOMAIN people'[process.store]
    BY <1>0 DEF Grows
  <2> QED
    BY <1>0, <2>1 DEF Good, Gathered
<1>4. Housed(r)'
  BY <1>0 DEF Good, Housed, Grows
<1>5. Written(x, r)'
  <2>1. ASSUME r.pc \in Early \cup {"idle"}, NEW s \in Stores, NEW k \in DOMAIN people'[s]
        PROVE  k[2] # x
    BY <2>1 DEF Good, Written, Grows
  <2>2. ASSUME r.on \in Process, KeyOf(x, r) \in DOMAIN people[r.on.store]
        PROVE  /\ KeyOf(x, r) \in DOMAIN people'[r.on.store]
               /\ people'[r.on.store][KeyOf(x, r)] = people[r.on.store][KeyOf(x, r)]
    BY <2>2 DEF Grows, Process
  <2> QED
    BY <1>0, <2>1, <2>2 DEF Good, Written
<1>6. Moded(r)'
  BY <1>0 DEF Good, Moded
<1>7. Logged(x, r)'
  BY DEF Good, Logged, Grows
<1>8. Peppered(r)'
  BY <1>0 DEF Good, Peppered
<1>9. Truthful(r)'
  <2>1. ASSUME r.pc \in Showing, NEW k \in r.rows
        PROVE  people'[process.store][k] = people[process.store][k]
    BY <1>0, <2>1 DEF Good, Gathered, Grows
  <2> QED
    BY <1>0, <2>1 DEF Good, Truthful
<1> QED
  BY <1>1, <1>2, <1>3, <1>4, <1>5, <1>6, <1>7, <1>8, <1>9 DEF Good

LEMMA MovesFrame ==
  ASSUME IInv, NEW c \in Calls, Moves(c), Grows(c)
  PROVE  call' \in [Calls -> Call] /\ AllGood'
<1>0. call \in [Calls -> Call] /\ TypeOK /\ AllGood
  BY DEF IInv, TypeOK
<1>1. PICK s \in Call : Becomes(c, s) /\ Good(c, s)' /\ Searched(s)
  BY DEF Moves
<1>2. /\ call' \in [Calls -> Call]
      /\ call'[c] = s
      /\ \A x \in Calls \ {c} : call'[x] = call[x]
  BY <1>0, <1>1, BecomesFrame
<1>3. ASSUME NEW x \in Calls, NEW r \in Call, call'[x] = r PROVE Good(x, r)'
  <2>1. CASE x = c
    BY <1>1, <1>2, <1>3, <2>1
  <2>2. CASE x # c
    <3>1. Good(x, r)
      BY <1>0, <1>2, <1>3, <2>2 DEF AllGood
    <3> QED
      BY <1>0, <2>2, <3>1, GoodStays
  <2> QED
    BY <2>1, <2>2
<1>4. ASSUME NEW x \in Calls PROVE call[x].reply = "ok" => call'[x] = call[x]
  BY <1>0, <1>2 DEF Moves, AllGood, Good, Placed
<1>5. ASSUME NEW r \in Call, Searched(r) PROVE Searched(r)'
  <2> SUFFICES ASSUME NEW x \in r.before
               PROVE  /\ call'[x].reply = "ok" /\ call'[x].request.op = "create"
                      /\ Finds(r, x, call'[x])
    BY DEF Searched, Finds, TenantOf, KeyOf, SameDirectory
  <2>1. x \in Calls
    BY DEF Call
  <2> QED
    BY <1>4, <1>5, <2>1 DEF Searched
<1>6. ASSUME NEW x \in Calls, NEW r \in Call, call'[x] = r PROVE Searched(r)'
  <2>1. Searched(r)
    BY <1>0, <1>1, <1>2, <1>6 DEF AllGood
  <2> QED
    BY <1>5, <2>1
<1> QED
  BY <1>2, <1>3, <1>6 DEF AllGood

\* A call of a step, and what the invariant says of it.
LEMMA StartOfStep ==
  ASSUME IInv, NEW c \in Calls
  PROVE  /\ call \in [Calls -> Call] /\ call[c] \in Call
         /\ Good(c, call[c]) /\ Searched(call[c])
         /\ call[c].pc # "idle" => call[c].request \in Requests
         /\ process.client \in Clients /\ process.store \in Stores /\ process \in Process
BY ProcessType DEF IInv, TypeOK, AllGood, Good, Placed

\* A step that touches no table: what it makes of the call is good at once.
LEMMA GoodStill ==
  ASSUME NEW c, NEW r, Good(c, r), UNCHANGED <<process, mode, halls, people, audit>>
  PROVE  Good(c, r)'
<1>1. Placed(r)' /\ Bound(r)' /\ Gathered(r)' /\ Housed(r)' /\ Written(c, r)'
  BY DEF Good, Placed, Bound, Gathered, Housed, Written
<1>2. Moded(r)' /\ Logged(c, r)' /\ Peppered(r)' /\ Truthful(r)'
  BY DEF Good, Moded, Logged, Peppered, Truthful
<1> QED
  BY <1>1, <1>2 DEF Good

LEMMA StillMoves ==
  ASSUME IInv, NEW c \in Calls, NEW s \in Call, Becomes(c, s), call[c].pc # "done",
         Good(c, s), Searched(s), UNCHANGED <<process, mode, halls, people, audit>>
  PROVE  Moves(c)
BY GoodStill DEF Moves

LEMMA StillGrows ==
  ASSUME NEW c, UNCHANGED <<process, mode, halls, people, audit>>
  PROVE  Grows(c)
BY DEF Grows

\* A step of a call that touches neither tables nor journal keeps the invariant.
LEMMA QuietStep ==
  ASSUME IInv, NEW c \in Calls, Moves(c), UNCHANGED <<env, tables, audit>>,
         pepper' \in Peppers \cup {NoPepper}, plain' \subseteq Ciphertext, Cached'
  PROVE  IInv'
<1>1. UNCHANGED <<process, mode, halls, people, audit>>
  BY DEF env, tables
<1>2. call' \in [Calls -> Call] /\ AllGood'
  BY <1>1, StillGrows, MovesFrame
<1>3. TypeOK'
  BY <1>2 DEF IInv, TypeOK, env, tables
<1>4. Shared'
  BY <1>1 DEF IInv, Shared, HallsExist, LookupsUnique, JournalKeyed, Finite, Genuine
<1> QED
  BY <1>2, <1>3, <1>4 DEF IInv

LEMMA QuietestStep ==
  ASSUME IInv, NEW c \in Calls, Moves(c), UNCHANGED <<env, caches, tables, audit>>
  PROVE  IInv'
<1>1. /\ pepper' \in Peppers \cup {NoPepper} /\ plain' \subseteq Ciphertext /\ Cached'
  BY DEF IInv, TypeOK, Cached, caches
<1> QED
  BY <1>1, QuietStep

-----------------------------------------------------------------------------
(* Calls that come to nothing.                                             *)

LEMMA IdleType == Idle \in Call
<1>1. NothingShown \in SpectatorForms
  BY DEF SpectatorForms
<1> QED
  BY <1>1 DEF Idle, Call, PCs, Replies

\* Why and where a call may be dropped.
Droppable(r, pc, reply) ==
  \/ pc = "done" /\ reply \in {"error", "notfound", "lost"}
  \/ pc = "done" /\ reply = "forbidden" /\ r.request.op = "hallCreate"
  \/ pc = "denyAudit" /\ reply = "forbidden" /\ r.request.op \in Spectating
     /\ r.request.complete

LEMMA DropGood ==
  ASSUME NEW c, NEW r, r.request \in Requests, NEW pc, NEW reply, Droppable(r, pc, reply)
  PROVE  LET s == Drop(r, pc, reply) IN
         s \in Call /\ Good(c, s) /\ Searched(s) /\ Good(c, s)'
<1> DEFINE s == Drop(r, pc, reply)
<1>0. pc \in PCs /\ reply \in Replies
  BY DEF Droppable, PCs, Replies
<1>1. /\ s.pc = pc /\ s.reply = reply /\ s.request = r.request /\ s.on = NoProcess
      /\ s.rows = {} /\ s.shown = {} /\ s.before = {} /\ s.text = NoIdent
      /\ s \in Call
  <2>1. s \in Call
    BY <1>0, IdleType DEF Drop, Call
  <2> QED
    BY <2>1 DEF Drop, Idle
<1> HIDE DEF s
<1>2. Placed(s) /\ Bound(s) /\ Gathered(s) /\ Housed(s)
  BY <1>1 DEF Droppable, Placed, Bound, Gathered, Housed, Early, Showing
<1>3. Written(c, s) /\ Moded(s) /\ Logged(c, s)
  BY <1>1 DEF Droppable, Written, Moded, Logged, Early, Showing, Spectating
<1>4. Peppered(s) /\ Truthful(s) /\ Searched(s)
  BY <1>1 DEF Droppable, Peppered, Truthful, Means, Searched, Showing
<1>5. (Placed(s) /\ Bound(s) /\ Gathered(s) /\ Housed(s))'
  BY <1>1 DEF Droppable, Placed, Bound, Gathered, Housed, Early, Showing
<1>6. (Written(c, s) /\ Moded(s) /\ Logged(c, s))'
  BY <1>1 DEF Droppable, Written, Moded, Logged, Early, Showing, Spectating
<1>7. (Peppered(s) /\ Truthful(s))'
  BY <1>1 DEF Droppable, Peppered, Truthful, Means, Showing
<1> QED
  BY <1>1, <1>2, <1>3, <1>4, <1>5, <1>6, <1>7 DEF Good, s

LEMMA DropMoves ==
  ASSUME IInv, NEW c \in Calls, call[c].pc \notin {"idle", "done"}, NEW pc, NEW reply,
         Becomes(c, Drop(call[c], pc, reply)), Droppable(call[c], pc, reply),
         UNCHANGED <<process, mode, halls, people, audit>>
  PROVE  Moves(c)
BY StartOfStep, DropGood, StillMoves

LEMMA FailMoves ==
  ASSUME IInv, NEW c \in Calls, call[c].pc \notin {"idle", "done"}, Fails(c),
         UNCHANGED <<process, mode, halls, people, audit>>
  PROVE  Moves(c)
BY DropMoves DEF Fails, Droppable

-----------------------------------------------------------------------------
(* Steps before the tables are read or written.                            *)

\* What such a step changes is where the call stands, and its pepper.
LEMMA EarlyGood ==
  ASSUME NEW c, NEW r \in Call, Good(c, r), Searched(r), r.pc \in Early, NEW s \in Call,
         s.pc \in Early, s.request = r.request, s.rows = r.rows, s.shown = r.shown,
         s.on = r.on, s.seen = r.seen, s.before = r.before, s.reply = r.reply,
         s.text = r.text, Placed(s), Peppered(s),
         r.pc = "hall" => Housed(s)
  PROVE  Good(c, s) /\ Searched(s)
<1>1. Bound(s)
  BY DEF Good, Bound
<1>2. Gathered(s)
  BY DEF Good, Gathered, Early, Showing
<1>3. Housed(s)
  BY DEF Good, Housed, TenantOf
<1>4. Written(c, s)
  BY DEF Good, Placed, Written, Early, Showing
<1>5. Moded(s)
  BY DEF Good, Moded, ModesOf, Early, Showing
<1>6. Logged(c, s)
  BY DEF Logged, Early
<1>7. Truthful(s)
  BY DEF Good, Truthful, Means, TenantOf, Early, Showing
<1>8. Searched(s)
  BY DEF Good, Placed, Searched, Finds, TenantOf, Early, Showing
<1> QED
  BY <1>1, <1>2, <1>3, <1>4, <1>5, <1>6, <1>7, <1>8 DEF Good

LEMMA GoesFields ==
  ASSUME NEW r \in Call, NEW pc \in PCs
  PROVE  LET s == [r EXCEPT !.pc = pc] IN
         /\ s \in Call /\ s.pc = pc /\ s.request = r.request /\ s.rows = r.rows
         /\ s.shown = r.shown /\ s.on = r.on /\ s.seen = r.seen /\ s.before = r.before
         /\ s.reply = r.reply /\ s.text = r.text /\ s.pepper = r.pepper /\ s.id = r.id
         /\ s.forms = r.forms /\ s.unlogged = r.unlogged
BY DEF Call

LEMMA EarlyGoes ==
  ASSUME IInv, NEW c \in Calls, NEW pc \in PCs \cap Early, Goes(c, pc), call[c].pc \in Early,
         UNCHANGED <<process, mode, halls, people, audit>>,
         LET s == [call[c] EXCEPT !.pc = pc] IN
           Placed(s) /\ Peppered(s) /\ (call[c].pc = "hall" => Housed(s))
  PROVE  Moves(c)
<1> DEFINE s == [call[c] EXCEPT !.pc = pc]
<1>1. call[c] \in Call /\ Good(c, call[c]) /\ Searched(call[c])
  BY StartOfStep
<1>2. /\ s \in Call /\ s.pc = pc /\ s.request = call[c].request /\ s.rows = call[c].rows
      /\ s.shown = call[c].shown /\ s.on = call[c].on /\ s.seen = call[c].seen
      /\ s.before = call[c].before /\ s.reply = call[c].reply /\ s.text = call[c].text
  BY <1>1, GoesFields
<1>2a. Placed(s) /\ Peppered(s) /\ (call[c].pc = "hall" => Housed(s))
  OBVIOUS
<1>2b. Good(c, s) /\ Searched(s)
  <2> HIDE DEF s
  <2> QED
    BY <1>1, <1>2, <1>2a, EarlyGood
<1>3. call[c].pc # "done"
  BY DEF Early
<1> QED
  BY <1>2, <1>2b, <1>3, StillMoves DEF Goes

\* Decisions are the policy's: their verdict is a Boolean.
LEMMA VerdictType ==
  ASSUME NEW rq, NEW action, mode \in BOOLEAN
  PROVE  Decided(rq, action).allow \in BOOLEAN
<1>1. SpectatorMap \in ClassMap
  BY SpectatorAssumption
<1> QED
  BY <1>1, EvaluateType DEF Decided, Decision

LEMMA FindHallMoves ==
  ASSUME IInv, NEW c \in Calls, FindHall(c)
  PROVE  IInv'
<1> SUFFICES Moves(c)
  BY QuietestStep DEF FindHall
<1> DEFINE r == call[c]
           rq == r.request
<1>0. /\ r \in Call /\ Good(c, r) /\ r.pc = "hall" /\ rq \in Requests
      /\ UNCHANGED <<process, mode, halls, people, audit>>
  BY StartOfStep DEF FindHall, At, env, tables
<1>1. CASE HallNamed(rq) /\ Goes(c, "authorize")
  <2> DEFINE s == [r EXCEPT !.pc = "authorize"]
  <2>1. s.pc = "authorize" /\ s.request = rq /\ s.reply = r.reply
    BY <1>0, GoesFields DEF PCs
  <2> HIDE DEF s
  <2>2. Placed(s) /\ Peppered(s)
    BY <1>0, <2>1 DEF Good, Placed, Peppered, Spectating
  <2>3. Housed(s)
    BY <1>1, <2>1 DEF Housed, HallNamed, TenantOf
  <2> QED
    BY <1>0, <1>1, <2>2, <2>3, EarlyGoes DEF PCs, Early, s
<1>2. CASE Becomes(c, Drop(r, "done", "notfound"))
  BY <1>0, <1>2, DropMoves DEF Droppable
<1>3. CASE Fails(c)
  BY <1>0, <1>3, FailMoves
<1> QED
  BY <1>1, <1>2, <1>3 DEF FindHall

LEMMA AuthorizeMoves ==
  ASSUME IInv, NEW c \in Calls, Authorize(c)
  PROVE  IInv'
<1> SUFFICES Moves(c)
  BY QuietestStep DEF Authorize
<1> DEFINE r == call[c]
           rq == r.request
           pc == IF rq.op = "create" THEN "encrypt" ELSE "pepper"
<1>0. /\ r \in Call /\ Good(c, r) /\ r.pc = "authorize" /\ rq \in Requests
      /\ UNCHANGED <<process, mode, halls, people, audit>>
  BY StartOfStep DEF Authorize, At, env, tables
<1>1. rq.op \in Spectating /\ rq.complete
  BY <1>0 DEF Good, Placed
<1>2. CASE Goes(c, pc)
  <2> DEFINE s == [r EXCEPT !.pc = pc]
  <2>1. s.pc = pc /\ s.request = rq /\ s.reply = r.reply
    BY <1>0, GoesFields DEF PCs
  <2> HIDE DEF s
  <2>2. Placed(s) /\ Peppered(s)
    BY <1>0, <1>1, <2>1 DEF Good, Placed, Peppered
  <2> QED
    BY <1>0, <1>2, <2>2, EarlyGoes DEF PCs, Early, s
<1>3. CASE Becomes(c, Drop(r, "denyAudit", "forbidden"))
  BY <1>0, <1>1, <1>3, DropMoves DEF Droppable
<1> QED
  BY <1>2, <1>3 DEF Authorize

LEMMA AuthorizeHallMoves ==
  ASSUME IInv, NEW c \in Calls, AuthorizeHall(c)
  PROVE  IInv'
<1> SUFFICES Moves(c)
  BY QuietestStep DEF AuthorizeHall
<1> DEFINE r == call[c]
<1>0. /\ r \in Call /\ Good(c, r) /\ r.pc = "authorizeHall" /\ r.request \in Requests
      /\ UNCHANGED <<process, mode, halls, people, audit>>
  BY StartOfStep DEF AuthorizeHall, At, env, tables
<1>1. r.request.op = "hallCreate"
  BY <1>0 DEF Good, Placed
<1>2. CASE Goes(c, "hallInsert")
  <2> DEFINE s == [r EXCEPT !.pc = "hallInsert"]
  <2>1. s.pc = "hallInsert" /\ s.request = r.request /\ s.reply = r.reply
    BY <1>0, GoesFields DEF PCs
  <2> HIDE DEF s
  <2>2. Placed(s) /\ Peppered(s)
    BY <1>0, <1>1, <2>1 DEF Good, Placed, Peppered, Showing, Spectating
  <2> QED
    BY <1>0, <1>2, <2>2, EarlyGoes DEF PCs, Early, s
<1>3. CASE Becomes(c, Drop(r, "done", "forbidden"))
  BY <1>0, <1>1, <1>3, DropMoves DEF Droppable
<1> QED
  BY <1>2, <1>3 DEF AuthorizeHall

LEMMA EncryptMoves ==
  ASSUME IInv, NEW c \in Calls, Encrypt(c)
  PROVE  IInv'
<1> SUFFICES Moves(c)
  BY QuietestStep DEF Encrypt
<1> DEFINE r == call[c]
<1>0. /\ r \in Call /\ Good(c, r) /\ r.pc = "encrypt" /\ r.request \in Requests
      /\ UNCHANGED <<process, mode, halls, people, audit>>
  BY StartOfStep DEF Encrypt, At, env, tables
<1>1. CASE Goes(c, "pepper")
  <2> DEFINE s == [r EXCEPT !.pc = "pepper"]
  <2>1. s.pc = "pepper" /\ s.request = r.request /\ s.reply = r.reply
    BY <1>0, GoesFields DEF PCs
  <2> HIDE DEF s
  <2>2. Placed(s) /\ Peppered(s)
    BY <1>0, <2>1 DEF Good, Placed, Peppered, Spectating
  <2> QED
    BY <1>0, <1>1, <2>2, EarlyGoes DEF PCs, Early, s
<1>2. CASE Fails(c)
  BY <1>0, <1>2, FailMoves
<1> QED
  BY <1>1, <1>2 DEF Encrypt

-----------------------------------------------------------------------------
(* The pepper.                                                             *)

LEMMA PepperTypes ==
  /\ PepperAt[ConfigPath] \in Peppers /\ PepperAt[SearchPath] \in Peppers
  /\ LocalPepper \in Peppers /\ NoPepper \notin Peppers
  /\ \A rq : PepperAt[PathOf(rq)] \in Peppers
             /\ (OnePepper => PepperAt[PathOf(rq)] = PepperAt[ConfigPath])
BY SpectatorAssumption DEF Peppers, PathOf, OnePepper

\* Holding a pepper, a creation goes on to its INSERT, a search to its SELECT.
LEMMA HasPepperMoves ==
  ASSUME IInv, NEW c \in Calls, NEW p \in Peppers, HasPepper(c, p),
         call[c].pc \in {"pepper", "readPepper", "storePepper"},
         OnePepper => p = PepperOf(process.client),
         UNCHANGED <<process, mode, halls, people, audit>>
  PROVE  Moves(c)
<1> DEFINE r == call[c]
           pc == IF r.request.op = "create" THEN "insert" ELSE "query"
           s == [r EXCEPT !.pepper = p, !.pc = pc]
<1>0. r \in Call /\ Good(c, r) /\ Searched(r) /\ r.request \in Requests
  BY StartOfStep
<1>1. /\ s \in Call /\ s.pc = pc /\ s.request = r.request /\ s.rows = r.rows
      /\ s.shown = r.shown /\ s.on = r.on /\ s.seen = r.seen /\ s.before = r.before
      /\ s.reply = r.reply /\ s.text = r.text /\ s.pepper = p
  <2>1. pc \in PCs
    BY DEF PCs
  <2> HIDE DEF pc
  <2> QED
    BY <1>0, <2>1 DEF Call
<1>2. Becomes(c, s)
  BY DEF HasPepper
<1> HIDE DEF s
<1>3. Placed(s) /\ Peppered(s)
  BY <1>0, <1>1 DEF Good, Placed, Peppered, Spectating
<1>4. r.pc \in Early /\ s.pc \in Early /\ r.pc # "hall" /\ r.pc # "done"
  BY <1>1 DEF Early
<1> QED
  BY <1>0, <1>1, <1>2, <1>3, <1>4, EarlyGood, StillMoves

LEMMA GetPepperMoves ==
  ASSUME IInv, NEW c \in Calls, GetPepper(c)
  PROVE  IInv'
<1> SUFFICES Moves(c)
  BY QuietestStep DEF GetPepper
<1> DEFINE r == call[c]
<1>0. /\ r \in Call /\ Good(c, r) /\ r.pc = "pepper" /\ r.request \in Requests
      /\ UNCHANGED <<process, mode, halls, people, audit>>
  BY StartOfStep DEF GetPepper, At, env, tables
<1>1. CASE process.client = "local" /\ HasPepper(c, LocalPepper)
  BY <1>0, <1>1, PepperTypes, HasPepperMoves DEF PepperOf
<1>2. CASE process.client = "vault" /\ pepper # NoPepper /\ HasPepper(c, pepper)
  <2>1. pepper \in Peppers /\ (OnePepper => pepper = PepperOf(process.client))
    BY <1>2 DEF IInv, TypeOK, Cached, PepperOf
  <2> QED
    BY <1>0, <1>2, <2>1, HasPepperMoves
<1>3. CASE process.client = "vault" /\ Goes(c, "readPepper")
  <2> DEFINE s == [r EXCEPT !.pc = "readPepper"]
  <2>1. s.pc = "readPepper" /\ s.request = r.request /\ s.reply = r.reply
    BY <1>0, GoesFields DEF PCs
  <2> HIDE DEF s
  <2>2. Placed(s) /\ Peppered(s)
    BY <1>0, <1>3, <2>1 DEF Good, Placed, Peppered
  <2> QED
    BY <1>0, <1>3, <2>2, EarlyGoes DEF PCs, Early, s
<1> QED
  BY <1>1, <1>2, <1>3 DEF GetPepper

LEMMA ReadPepperMoves ==
  ASSUME IInv, NEW c \in Calls, ReadPepper(c)
  PROVE  IInv'
<1> SUFFICES Moves(c)
  BY QuietestStep DEF ReadPepper
<1> DEFINE r == call[c]
           p == PepperAt[PathOf(r.request)]
<1>0. /\ r \in Call /\ Good(c, r) /\ Searched(r) /\ r.pc = "readPepper"
      /\ r.request \in Requests /\ UNCHANGED <<process, mode, halls, people, audit>>
  BY StartOfStep DEF ReadPepper, At, env, tables
<1>1. p \in Peppers /\ (OnePepper => p = PepperOf(process.client))
  BY <1>0, PepperTypes DEF Good, Peppered, PepperOf
<1>2. CASE Becomes(c, [r EXCEPT !.pepper = p, !.pc = "storePepper"])
  <2> DEFINE s == [r EXCEPT !.pepper = p, !.pc = "storePepper"]
  <2>1. /\ s \in Call /\ s.pc = "storePepper" /\ s.request = r.request /\ s.rows = r.rows
        /\ s.shown = r.shown /\ s.on = r.on /\ s.seen = r.seen /\ s.before = r.before
        /\ s.reply = r.reply /\ s.text = r.text /\ s.pepper = p
    <3>1. "storePepper" \in PCs
      BY DEF PCs
    <3> HIDE DEF p
    <3>2. s \in Call
      BY <1>0, <1>1, <3>1 DEF Call
    <3> QED
      BY <1>0, <3>2 DEF Call
  <2>2. Becomes(c, s)
    BY <1>2
  <2> HIDE DEF s
  <2>3. Placed(s) /\ Peppered(s)
    BY <1>0, <1>1, <2>1 DEF Good, Placed, Peppered
  <2>4. r.pc \in Early /\ s.pc \in Early
    BY <1>0, <2>1 DEF Early
  <2> QED
    BY <1>0, <2>1, <2>2, <2>3, <2>4, EarlyGood, StillMoves
<1>3. CASE HasPepper(c, p)
  BY <1>0, <1>1, <1>3, HasPepperMoves
<1>4. CASE Fails(c)
  BY <1>0, <1>4, FailMoves
<1> QED
  BY <1>2, <1>3, <1>4 DEF ReadPepper

LEMMA StorePepperMoves ==
  ASSUME IInv, NEW c \in Calls, StorePepper(c)
  PROVE  IInv'
<1> DEFINE r == call[c]
<1>0. /\ r \in Call /\ Good(c, r) /\ r.pc = "storePepper"
      /\ UNCHANGED <<process, mode, halls, people, audit>>
  BY StartOfStep DEF StorePepper, At, env, tables
<1>1. /\ r.pepper \in Peppers /\ process.client = "vault"
      /\ OnePepper => r.pepper = PepperOf(process.client)
  BY <1>0 DEF Good, Peppered
<1>2. Moves(c)
  BY <1>0, <1>1, HasPepperMoves DEF StorePepper
<1>3. pepper' \in Peppers \cup {NoPepper} /\ plain' \subseteq Ciphertext /\ Cached'
  BY <1>1 DEF StorePepper, IInv, TypeOK, Cached, PepperOf, OnePepper
<1> QED
  BY <1>2, <1>3, QuietStep DEF StorePepper

-----------------------------------------------------------------------------
(* Steps that show spectators: only the local variables of the call change. *)

\* What such a step leaves alone.
SameCall(r, s) ==
  /\ s.request = r.request /\ s.rows = r.rows /\ s.on = r.on /\ s.seen = r.seen
  /\ s.before = r.before /\ s.reply = r.reply

LEMMA ShowingGood ==
  ASSUME NEW c, NEW r \in Call, Good(c, r), Searched(r), r.pc \in Showing,
         NEW s \in Call, s.pc \in Showing \cup {"audit"}, SameCall(r, s),
         Gathered(s), Moded(s), Truthful(s)
  PROVE  Good(c, s) /\ Searched(s)
<1>1. r.pc \notin {"idle", "done", "denyAudit"} /\ s.pc \notin {"idle", "done", "denyAudit"} \cup Early
  BY DEF Showing, Early
<1>2. Placed(s)
  BY <1>1 DEF Good, Placed, SameCall, Showing
<1>3. Bound(s) /\ Housed(s)
  BY <1>1 DEF Good, Bound, Housed, SameCall, Showing
<1>4. Written(c, s)
  BY <1>1 DEF Good, Placed, Written, SameCall, TenantOf, KeyOf
<1>5. Logged(c, s) /\ Peppered(s)
  BY <1>1 DEF Logged, Peppered, Showing, Early
<1>6. Searched(s)
  BY <1>1, <1>2 DEF Good, Placed, Searched, Finds, SameCall, TenantOf
<1> QED
  BY <1>2, <1>3, <1>4, <1>5, <1>6 DEF Good

LEMMA ShowingMoves ==
  ASSUME IInv, NEW c \in Calls, call[c].pc \in Showing, NEW s \in Call, Becomes(c, s),
         s.pc \in Showing \cup {"audit"}, SameCall(call[c], s),
         Gathered(s), Moded(s), Truthful(s),
         UNCHANGED <<process, mode, halls, people, audit>>
  PROVE  Moves(c)
<1>1. Good(c, s) /\ Searched(s)
  BY StartOfStep, ShowingGood
<1>2. call[c].pc # "done"
  BY DEF Showing
<1> QED
  BY <1>1, <1>2, StillMoves

\* The text of a spectator changes, or just the place of the call.
LEMMA TextMoves ==
  ASSUME IInv, NEW c \in Calls, call[c].pc \in Showing \ {"read"},
         NEW pc \in PCs \cap (Showing \ {"read"}),
         NEW text \in Idents \cup {NoIdent, Garbage},
         OnePepper /\ call[c].request.op = "search" => Means(call[c], text),
         Becomes(c, [call[c] EXCEPT !.text = text, !.pc = pc]),
         UNCHANGED <<process, mode, halls, people, audit>>
  PROVE  Moves(c)
<1> DEFINE r == call[c]
           s == [r EXCEPT !.text = text, !.pc = pc]
<1>0. r \in Call /\ Good(c, r)
  BY StartOfStep
<1>1. s \in Call /\ s.pc = pc /\ s.text = text /\ SameCall(r, s) /\ s.shown = r.shown
      /\ s.id = r.id /\ s.forms = r.forms
  <2>1. s \in Call
    BY <1>0 DEF Call
  <2> QED
    BY <1>0, <2>1 DEF Call, SameCall
<1> HIDE DEF s
<1>2. Gathered(s)
  BY <1>0, <1>1 DEF Good, Gathered, SameCall, Showing, Early
<1>3. Moded(s)
  BY <1>0, <1>1 DEF Good, Moded, ModesOf, SameCall, Showing, Early
<1>4. Truthful(s)
  BY <1>0, <1>1 DEF Good, Truthful, Means, SameCall, TenantOf, Showing
<1> QED
  BY <1>1, <1>2, <1>3, <1>4, ShowingMoves DEF s

LEMMA RowType ==
  ASSUME TypeOK, NEW k \in DOMAIN people[process.store]
  PROVE  /\ k \in Keys /\ people[process.store][k] \in Person
         /\ people[process.store][k].ct \in Ciphertext
<1>1. IsTable(people[process.store])
  BY ProcessType DEF TypeOK
<1> QED
  BY <1>1 DEF IsTable, Person

LEMMA PeppersApart ==
  ASSUME NEW a \in Clients, NEW b \in Clients, PepperOf(a) = PepperOf(b)
  PROVE  a = b
BY SpectatorAssumption, KmsAssumption DEF PepperOf, Clients

\* What a search decrypts is what was typed.
LEMMA TextTrue ==
  ASSUME IInv, NEW c \in Calls, call[c].pc \in Showing \ {"read"}
  PROVE  LET text == Plaintext(process.client, Cipher(c)) IN
         /\ Cipher(c) \in Ciphertext /\ text \in Idents \cup {Garbage}
         /\ OnePepper /\ call[c].request.op = "search" => Means(call[c], text)
<1> DEFINE r == call[c]
           row == people[process.store][r.id]
<1>0. /\ r \in Call /\ Good(c, r) /\ process.client \in Clients /\ process.store \in Stores
      /\ r.request \in Requests
  BY StartOfStep DEF Showing
<1>1. r.id \in r.rows /\ r.id \in DOMAIN people[process.store]
  BY <1>0 DEF Good, Gathered, Showing
<1>2. row \in Person /\ row.ct \in Ciphertext
  BY <1>1, RowType DEF IInv
<1>3. ASSUME OnePepper, r.request.op = "search"
      PROVE  row.ct.by = process.client /\ Norm[row.ct.text] = Norm[r.request.ident]
  <2>1. row.lookup = Lookup(PepperOf(row.ct.by), row.ct.text)
    BY <1>0, <1>1, <1>3 DEF IInv, Shared, Genuine
  <2>2. row.lookup = Lookup(PepperOf(process.client), r.request.ident)
    BY <1>0, <1>1, <1>3 DEF Good, Truthful, Showing
  <2>3. PepperOf(row.ct.by) = PepperOf(process.client) /\ Norm[row.ct.text] = Norm[r.request.ident]
    BY <2>1, <2>2 DEF Lookup
  <2> QED
    BY <1>0, <1>2, <2>3, PeppersApart DEF Ciphertext
<1> QED
  BY <1>0, <1>2, <1>3 DEF Plaintext, Cipher, Means, Ciphertext

LEMMA DecryptMoves ==
  ASSUME IInv, NEW c \in Calls, Decrypt(c)
  PROVE  IInv'
<1> SUFFICES Moves(c)
  BY QuietestStep DEF Decrypt
<1>0. call[c] \in Call /\ call[c].pc = "decrypt" /\ UNCHANGED <<process, mode, halls, people, audit>>
  BY StartOfStep DEF Decrypt, At, env, tables
<1>1. CASE HasText(c, "mask")
  BY <1>0, <1>1, TextTrue, TextMoves DEF HasText, Showing, PCs
<1>2. CASE Goes(c, "transit")
  <2>1. [call[c] EXCEPT !.pc = "transit"] = [call[c] EXCEPT !.text = call[c].text, !.pc = "transit"]
    BY <1>0 DEF Call
  <2>2. call[c].text \in Idents \cup {NoIdent, Garbage}
        /\ (OnePepper /\ call[c].request.op = "search" => Means(call[c], call[c].text))
    BY <1>0, StartOfStep DEF Good, Truthful, Call
  <2> QED
    BY <1>0, <1>2, <2>1, <2>2, TextMoves DEF Goes, Showing, PCs
<1> QED
  BY <1>1, <1>2 DEF Decrypt

LEMMA TransitMoves ==
  ASSUME IInv, NEW c \in Calls, Transit(c)
  PROVE  IInv'
<1> SUFFICES Moves(c)
  BY QuietestStep DEF Transit
<1>0. call[c] \in Call /\ call[c].pc = "transit" /\ UNCHANGED <<process, mode, halls, people, audit>>
  BY StartOfStep DEF Transit, At, env, tables
<1>1. ASSUME NEW pc \in {"storePlain", "mask"}, HasText(c, pc)
      PROVE  Moves(c)
  BY <1>0, <1>1, TextTrue, TextMoves DEF HasText, Showing, PCs
<1>2. CASE Fails(c)
  BY <1>0, <1>2, FailMoves
<1> QED
  BY <1>1, <1>2 DEF Transit

LEMMA StorePlainMoves ==
  ASSUME IInv, NEW c \in Calls, StorePlain(c)
  PROVE  IInv'
<1>0. /\ call[c] \in Call /\ call[c].pc = "storePlain"
      /\ UNCHANGED <<process, mode, halls, people, audit>>
  BY StartOfStep DEF StorePlain, At, env, tables
<1>1. [call[c] EXCEPT !.pc = "mask"] = [call[c] EXCEPT !.text = call[c].text, !.pc = "mask"]
  BY <1>0 DEF Call
<1>2. call[c].text \in Idents \cup {NoIdent, Garbage}
      /\ (OnePepper /\ call[c].request.op = "search" => Means(call[c], call[c].text))
  BY <1>0, StartOfStep DEF Good, Truthful, Call
<1>3. Moves(c)
  BY <1>0, <1>1, <1>2, TextMoves DEF StorePlain, Goes, Showing, PCs
<1>4. pepper' \in Peppers \cup {NoPepper} /\ plain' \subseteq Ciphertext /\ Cached'
  BY <1>0, TextTrue DEF StorePlain, IInv, TypeOK, Cached, Showing
<1> QED
  BY <1>3, <1>4, QuietStep DEF StorePlain

LEMMA ReadMoves ==
  ASSUME IInv, NEW c \in Calls, Read(c)
  PROVE  IInv'
<1> SUFFICES Moves(c)
  BY QuietestStep DEF Read
<1> DEFINE r == call[c]
           d == Decided(r.request, "spectator.read")
           forms == [f \in FieldsOf("spectator") |-> SpectatorForm(d, f)]
<1>0. /\ r \in Call /\ Good(c, r) /\ r.pc = "read"
      /\ UNCHANGED <<process, mode, halls, people, audit>>
  BY StartOfStep DEF Read, At, env, tables
<1>1. forms = FormsOf(mode, r.request.principal)
  BY DEF FormsOf, Decided
<1>2. forms \in [FieldsOf("spectator") -> Forms] /\ forms \in SpectatorForms
  <2>1. \A f \in FieldsOf("spectator") : SpectatorForm(d, f) \in Forms
    BY FormsType
  <2> QED
    BY <2>1 DEF SpectatorForms
<1> HIDE DEF forms
<1>3. PICK k \in r.rows, pc \in {"decrypt", "mask"} :
        Becomes(c, [r EXCEPT !.id = k, !.forms = forms, !.pc = pc])
  BY DEF Read, forms
<1> DEFINE s == [r EXCEPT !.id = k, !.forms = forms, !.pc = pc]
<1>4. r.request.op \in Spectating /\ r.rows \subseteq Keys /\ mode \in r.seen
  BY <1>0 DEF Good, Placed, Gathered, Moded, Showing
<1>5. s \in Call /\ s.pc = pc /\ s.id = k /\ s.forms = forms /\ SameCall(r, s)
      /\ s.shown = r.shown /\ s.text = r.text
  <2>1. pc \in PCs /\ k \in Keys
    BY <1>4 DEF PCs
  <2> QED
    BY <1>0, <1>2, <2>1 DEF Call, SameCall
<1> HIDE DEF s
<1>6. Gathered(s)
  BY <1>0, <1>2, <1>5 DEF Good, Gathered, SameCall, Showing, Early
<1>7. Moded(s)
  BY <1>0, <1>1, <1>4, <1>5 DEF Good, Moded, ModesOf, SameCall, Showing, Early
<1>8. Truthful(s)
  BY <1>0, <1>5 DEF Good, Truthful, Means, SameCall, TenantOf, Showing
<1> QED
  BY <1>0, <1>3, <1>5, <1>6, <1>7, <1>8, ShowingMoves DEF s, Showing

LEMMA MaskMoves ==
  ASSUME IInv, NEW c \in Calls, Mask(c)
  PROVE  IInv'
<1> SUFFICES Moves(c)
  BY QuietestStep DEF Mask
<1> DEFINE r == call[c]
           person == [id |-> r.id, whole |-> ShowsWhole(r.request), forms |-> r.forms,
                      text |-> r.text]
           shown == r.shown \cup {person}
           pc == IF r.rows = {x.id : x \in shown} THEN "audit" ELSE "read"
           s == [r EXCEPT !.shown = shown, !.id = NoId, !.forms = NothingShown,
                          !.text = NoIdent, !.pc = pc]
<1>0. /\ r \in Call /\ Good(c, r) /\ r.pc = "mask" /\ mode \in BOOLEAN
      /\ UNCHANGED <<process, mode, halls, people, audit>>
  BY StartOfStep DEF Mask, At, env, tables, IInv, TypeOK
<1>1. /\ r.request.op \in Spectating /\ r.rows \subseteq Keys /\ mode \in r.seen
      /\ r.shown \subseteq ShownPerson /\ r.id \in r.rows /\ {x.id : x \in r.shown} \subseteq r.rows
      /\ r.forms \in [FieldsOf("spectator") -> Forms]
  BY <1>0 DEF Good, Placed, Gathered, Moded, Showing
<1>2. /\ person.id = r.id /\ person.forms = r.forms /\ person.text = r.text
      /\ person.whole = (~mode \/ r.request.principal.role = "admin")
      /\ person \in ShownPerson
  <2>1. ShowsWhole(r.request) \in BOOLEAN
    BY DEF ShowsWhole
  <2>2. r.id \in Keys /\ r.forms \in SpectatorForms /\ r.text \in Idents \cup {NoIdent, Garbage}
    BY <1>0, <1>1 DEF SpectatorForms, Call
  <2>3. person.whole = (~mode \/ r.request.principal.role = "admin")
    BY DEF ShowsWhole
  <2> QED
    BY <2>1, <2>2, <2>3 DEF ShownPerson
<1> HIDE DEF person
<1>3. /\ s \in Call /\ s.pc = pc /\ s.shown = shown /\ SameCall(r, s) /\ s.text = NoIdent
  <2>1. pc \in PCs /\ shown \subseteq ShownPerson /\ NothingShown \in SpectatorForms
    BY <1>1, <1>2 DEF PCs, SpectatorForms
  <2> HIDE DEF pc, shown
  <2>2. s \in Call
    BY <1>0, <2>1 DEF Call
  <2> QED
    BY <1>0, <2>2 DEF Call, SameCall
<1>4. Becomes(c, s)
  BY DEF Mask, person
<1>5. {x.id : x \in shown} \subseteq r.rows
  BY <1>1, <1>2
<1>6. pc \in {"audit", "read"} /\ (pc = "audit" => {x.id : x \in shown} = r.rows)
  OBVIOUS
<1> HIDE DEF s, pc
<1>7. Gathered(s)
  <2>1. shown \subseteq ShownPerson /\ r.rows \subseteq DOMAIN people[process.store]
    BY <1>0, <1>1, <1>2 DEF Good, Gathered, Showing
  <2> HIDE DEF shown
  <2> QED
    BY <1>1, <1>3, <1>5, <1>6, <2>1 DEF Gathered, SameCall, Showing, Early
<1>8. Moded(s)
  <2>1. ModesOf(r, person)
    BY <1>0, <1>1, <1>2 DEF Good, Moded, ModesOf, Showing
  <2>2. \A x \in r.shown : ModesOf(r, x)
    BY <1>0, <1>1 DEF Good, Moded
  <2>3. \A x \in s.shown : ModesOf(s, x)
    BY <1>3, <2>1, <2>2 DEF ModesOf, SameCall
  <2> QED
    BY <1>1, <1>3, <1>6, <2>3 DEF Moded, SameCall, Showing, Early
<1>9. Truthful(s)
  <2> SUFFICES ASSUME OnePepper, r.request.op = "search" PROVE Truthful(s)
    BY <1>3 DEF Truthful, SameCall
  <2>1. /\ \A k \in r.rows : k[1] = TenantOf(r)
             /\ people[process.store][k].lookup
                  = Lookup(PepperOf(process.client), r.request.ident)
        /\ Means(r, r.text)
        /\ \A x \in r.shown : x.id[1] = TenantOf(r) /\ Means(r, x.text)
    BY <1>0 DEF Good, Truthful, Showing
  <2>2. person.id[1] = TenantOf(r) /\ Means(r, person.text)
    BY <1>1, <1>2, <2>1
  <2> QED
    BY <1>3, <2>1, <2>2 DEF Truthful, Means, SameCall, TenantOf
<1> QED
  BY <1>0, <1>3, <1>4, <1>6, <1>7, <1>8, <1>9, ShowingMoves DEF Showing

-----------------------------------------------------------------------------
(* Searches, and calls about halls.                                        *)

\* What the SELECT of a search returns has every spectator it must have.
LEMMA FoundAll ==
  ASSUME IInv, NEW c \in Calls, call[c].pc = "query", OnePepper,
         NEW x \in call[c].before, SameDirectory(call[x].on, call[c].on),
         TenantOf(call[x]) = TenantOf(call[c]),
         Norm[call[x].request.ident] = Norm[call[c].request.ident]
  PROVE  KeyOf(x, call[x])
           \in Matching(TenantOf(call[c]), Lookup(call[c].pepper, call[c].request.ident))
<1> DEFINE r == call[c]
           w == call[x]
           key == KeyOf(x, w)
<1>0. /\ r \in Call /\ Good(c, r) /\ Searched(r) /\ x \in Calls /\ w \in Call /\ Good(x, w)
      /\ process.store \in Stores
  <2>1. x \in Calls
    BY StartOfStep DEF Call
  <2> QED
    BY <2>1, StartOfStep
<1>1. w.reply = "ok" /\ w.request.op = "create" /\ w.pc = "done"
  BY <1>0 DEF Searched, Good, Placed
<1>2. r.on = process /\ r.pepper = PepperOf(process.client)
  BY <1>0 DEF Good, Bound, Peppered, Early
<1>3. w.on.client = process.client /\ w.on.store = process.store
      /\ (w.on.store = "postgres" \/ w.on.start = process.start)
  BY <1>0, <1>2 DEF SameDirectory, Stores
<1>4. /\ key \in DOMAIN people[process.store]
      /\ people[process.store][key].ct = Encrypted(process.client, w.request.ident)
  BY <1>0, <1>1, <1>3 DEF Good, Written
<1>5. people[process.store][key].lookup = Lookup(PepperOf(process.client), w.request.ident)
  BY <1>0, <1>4 DEF IInv, Shared, Genuine, Encrypted
<1> QED
  BY <1>2, <1>4, <1>5 DEF Matching, Lookup, KeyOf, TenantOf

LEMMA QueryMoves ==
  ASSUME IInv, NEW c \in Calls, Query(c)
  PROVE  IInv'
<1> SUFFICES Moves(c)
  BY QuietestStep DEF Query
<1> DEFINE r == call[c]
           found == Matching(TenantOf(r), Lookup(r.pepper, r.request.ident))
           pc == IF found = {} THEN "audit" ELSE "read"
           s == [r EXCEPT !.pc = pc, !.rows = found, !.pepper = NoPepper]
<1>0. /\ r \in Call /\ Good(c, r) /\ Searched(r) /\ r.pc = "query"
      /\ process.store \in Stores
      /\ UNCHANGED <<process, mode, halls, people, audit>>
  BY StartOfStep DEF Query, At, env, tables
<1>1. CASE Fails(c)
  BY <1>0, <1>1, FailMoves
<1>2. CASE Becomes(c, s)
  <2>1. /\ r.request.op = "search" /\ r.request.complete /\ r.request \in Requests
        /\ r.rows = {} /\ r.shown = {} /\ r.on = process /\ mode \in r.seen
        /\ r.reply \notin {"ok", "forbidden"}
    BY <1>0 DEF Good, Placed, Bound, Gathered, Moded, Early, Spectating
  <2>2. found \subseteq DOMAIN people[process.store] /\ found \subseteq Keys
        /\ \A k \in found : k[1] = TenantOf(r)
             /\ people[process.store][k].lookup = Lookup(r.pepper, r.request.ident)
    BY RowType DEF Matching, IInv
  <2>3. \A x \in r.before :
          OnePepper /\ SameDirectory(call[x].on, r.on) /\ TenantOf(call[x]) = TenantOf(r)
          /\ Norm[call[x].request.ident] = Norm[r.request.ident] => KeyOf(x, call[x]) \in found
    BY <1>0, FoundAll
  <2>4. pc \in PCs /\ pc \in {"audit", "read"} /\ (pc = "audit" => found = {})
    BY DEF PCs
  <2> HIDE DEF pc, found
  <2>5. s \in Call
    BY <1>0, <2>2, <2>4 DEF Call
  <2>6. /\ s.pc = pc /\ s.request = r.request /\ s.rows = found /\ s.shown = {}
        /\ s.on = process /\ s.seen = r.seen /\ s.before = r.before /\ s.reply = r.reply
        /\ s.text = r.text
    BY <1>0, <2>1 DEF Call
  <2> HIDE DEF s
  <2>7. Placed(s) /\ Bound(s) /\ Housed(s)
    <3>1. r.on.start \in Nat
      BY <2>1, ProcessType DEF IInv, TypeOK
    <3> QED
      BY <1>0, <2>1, <2>4, <2>6, <3>1 DEF Good, Placed, Bound, Housed, Early, Showing, Spectating
  <2>8. Gathered(s)
    BY <2>1, <2>2, <2>4, <2>6 DEF Gathered, Early, Showing, Spectating
  <2>9. Written(c, s) /\ Logged(c, s) /\ Peppered(s)
    BY <2>1, <2>4, <2>6 DEF Written, Logged, Peppered, Early, Showing
  <2>10. Moded(s)
    BY <2>1, <2>4, <2>6 DEF Moded, Early, Showing
  <2>11. Truthful(s)
    <3>1. OnePepper => r.pepper = PepperOf(process.client)
      BY <1>0 DEF Good, Peppered
    <3>2. OnePepper => Means(r, r.text)
      BY <1>0, <2>1 DEF Good, Truthful
    <3> QED
      BY <2>2, <2>6, <3>1, <3>2 DEF Truthful, Means, TenantOf
  <2>12. Searched(s)
    BY <1>0, <2>1, <2>3, <2>6 DEF Searched, Finds, TenantOf
  <2> QED
    BY <1>0, <1>2, <2>5, <2>7, <2>8, <2>9, <2>10, <2>11, <2>12, StillMoves DEF Good
<1> QED
  BY <1>1, <1>2 DEF Query, TenantOf

\* A list of halls gathers halls, and shows their counts.
LEMMA ListingMoves ==
  ASSUME IInv, NEW c \in Calls, call[c].pc \in {"hallQuery", "hallRead"}, NEW s \in Call,
         Becomes(c, s), s.request = call[c].request, s.on = call[c].on,
         s.before = call[c].before, s.rows \subseteq Halls, s.shown \subseteq ShownHall,
         \/ s.pc = "hallRead" /\ s.reply = call[c].reply
         \/ s.pc = "done" /\ s.reply = "ok",
         UNCHANGED <<process, mode, halls, people, audit>>
  PROVE  Moves(c)
<1> DEFINE r == call[c]
<1>0. r \in Call /\ Good(c, r) /\ Searched(r) /\ r.request \in Requests
  BY StartOfStep
<1>1. r.request.op = "hallList" /\ r.request.complete /\ r.on = process
      /\ r.reply \notin {"ok", "forbidden"}
  BY <1>0 DEF Good, Placed, Bound, Early
<1>2. Placed(s) /\ Bound(s) /\ Gathered(s) /\ Housed(s)
  <2>1. process.start \in Nat
    BY ProcessType DEF IInv, TypeOK
  <2> QED
    BY <1>0, <1>1, <2>1 DEF Placed, Bound, Gathered, Housed, Early, Showing, Spectating
<1>3. Written(c, s) /\ Moded(s) /\ Logged(c, s) /\ Peppered(s) /\ Truthful(s)
  BY <1>1 DEF Written, Moded, Logged, Peppered, Truthful, Early, Showing, Spectating
<1>4. Searched(s)
  BY <1>0, <1>1 DEF Searched, Finds
<1> QED
  BY <1>2, <1>3, <1>4, StillMoves DEF Good

LEMMA HallQueryMoves ==
  ASSUME IInv, NEW c \in Calls, HallQuery(c)
  PROVE  IInv'
<1> SUFFICES Moves(c)
  BY QuietestStep DEF HallQuery
<1> DEFINE r == call[c]
           mine == HallsOf(r.request.principal.tenant)
<1>0. /\ r \in Call /\ Good(c, r) /\ r.pc = "hallQuery"
      /\ UNCHANGED <<process, mode, halls, people, audit>>
  BY StartOfStep DEF HallQuery, At, env, tables
<1>1. r.rows = {} /\ r.shown = {} /\ mine \subseteq Halls
  BY <1>0 DEF Good, Gathered, Early, HallsOf
<1> HIDE DEF mine
<1>2. CASE Becomes(c, [r EXCEPT !.pc = "done", !.reply = "ok"])
  <2> DEFINE s == [r EXCEPT !.pc = "done", !.reply = "ok"]
  <2>1. /\ s \in Call /\ s.pc = "done" /\ s.reply = "ok" /\ s.request = r.request
        /\ s.on = r.on /\ s.before = r.before /\ s.rows = r.rows /\ s.shown = r.shown
    <3>1. "done" \in PCs /\ "ok" \in Replies
      BY DEF PCs, Replies
    <3>2. s \in Call
      BY <1>0, <3>1 DEF Call
    <3> QED
      BY <1>0, <3>2 DEF Call
  <2> HIDE DEF s
  <2> QED
    BY <1>0, <1>1, <1>2, <2>1, ListingMoves DEF s
<1>3. CASE Becomes(c, [r EXCEPT !.pc = "hallRead", !.rows = mine])
  <2> DEFINE s == [r EXCEPT !.pc = "hallRead", !.rows = mine]
  <2>1. /\ s \in Call /\ s.pc = "hallRead" /\ s.reply = r.reply /\ s.request = r.request
        /\ s.on = r.on /\ s.before = r.before /\ s.rows = mine /\ s.shown = r.shown
    <3>1. "hallRead" \in PCs
      BY DEF PCs
    <3>2. s \in Call
      BY <1>0, <1>1, <3>1 DEF Call
    <3> QED
      BY <1>0, <3>2 DEF Call
  <2> HIDE DEF s
  <2> QED
    BY <1>0, <1>1, <1>3, <2>1, ListingMoves DEF s
<1>4. CASE Fails(c)
  BY <1>0, <1>4, FailMoves
<1> QED
  BY <1>2, <1>3, <1>4 DEF HallQuery, mine

\* A count is a number: the tables are finite.
LEMMA CountType ==
  ASSUME IInv, NEW tenant, NEW h, NEW n \in Counts(tenant, h)
  PROVE  n \in Nat
<1>1. SpectatorsIn(tenant, h) \subseteq DOMAIN people["postgres"]
  BY DEF SpectatorsIn
<1>2. Cardinality(SpectatorsIn(tenant, h)) \in Nat
  BY <1>1, FS_Subset, FS_CardinalityType DEF IInv, Shared, Finite
<1> QED
  BY <1>2 DEF Counts

LEMMA HallReadMoves ==
  ASSUME IInv, NEW c \in Calls, HallRead(c)
  PROVE  IInv'
<1> SUFFICES Moves(c)
  BY QuietestStep DEF HallRead
<1> DEFINE r == call[c]
           left == {h \in r.rows : \A x \in r.shown : x.hall # h}
<1>0. /\ r \in Call /\ Good(c, r) /\ r.pc = "hallRead"
      /\ UNCHANGED <<process, mode, halls, people, audit>>
  BY StartOfStep DEF HallRead, At, env, tables
<1>1. PICK h \in left :
        \E n \in Counts(r.request.principal.tenant, h) :
          Becomes(c, [r EXCEPT !.shown = @ \cup {[hall |-> h, count |-> n]},
                               !.pc = IF left = {h} THEN "done" ELSE "hallRead",
                               !.reply = IF left = {h} THEN "ok" ELSE @])
  BY DEF HallRead
<1>1a. PICK n \in Counts(r.request.principal.tenant, h) :
        Becomes(c, [r EXCEPT !.shown = @ \cup {[hall |-> h, count |-> n]},
                             !.pc = IF left = {h} THEN "done" ELSE "hallRead",
                             !.reply = IF left = {h} THEN "ok" ELSE @])
  BY <1>1
<1> DEFINE shown == r.shown \cup {[hall |-> h, count |-> n]}
           pc == IF left = {h} THEN "done" ELSE "hallRead"
           reply == IF left = {h} THEN "ok" ELSE r.reply
           s == [r EXCEPT !.shown = shown, !.pc = pc, !.reply = reply]
<1>2. r.request.op = "hallList" /\ r.rows \subseteq Halls /\ r.shown \subseteq ShownHall
  BY <1>0 DEF Good, Placed, Gathered, Spectating
<1>3. shown \subseteq ShownHall
  BY <1>2, CountType DEF ShownHall
<1>4. pc \in PCs /\ reply \in Replies
      /\ ((pc = "hallRead" /\ reply = r.reply) \/ (pc = "done" /\ reply = "ok"))
  BY <1>0 DEF PCs, Replies, Call
<1>5. Becomes(c, s)
  BY <1>1a
<1> HIDE DEF shown, pc, reply
<1>6. s \in Call
  BY <1>0, <1>3, <1>4 DEF Call
<1>7. /\ s.pc = pc /\ s.reply = reply /\ s.request = r.request
      /\ s.on = r.on /\ s.before = r.before /\ s.rows = r.rows /\ s.shown = shown
  BY <1>0, <1>6 DEF Call
<1> HIDE DEF s
<1> QED
  BY <1>0, <1>2, <1>3, <1>4, <1>5, <1>6, <1>7, ListingMoves

-----------------------------------------------------------------------------
(* A call begins.                                                          *)

LEMMA EntersMoves ==
  ASSUME IInv, NEW c \in Calls, NEW rq \in Requests, NEW op, NEW pc, Enters(c, rq, op, pc),
         <<op, pc>> \in {<<"create", "hall">>, <<"search", "authorize">>,
                         <<"hallCreate", "authorizeHall">>, <<"hallList", "hallQuery">>}
  PROVE  IInv'
<1> SUFFICES Moves(c)
  BY QuietestStep DEF Enters
<1> DEFINE r == call[c]
           invalid == [Idle EXCEPT !.pc = "done", !.request = rq, !.reply = "invalid"]
           seen == IF op \in Spectating THEN {mode} ELSE {}
           before == IF op \in {"search", "hallList"} THEN Acknowledged ELSE {}
           s == [Idle EXCEPT !.pc = pc, !.request = rq, !.on = process,
                             !.seen = seen, !.before = before]
<1>0. /\ r \in Call /\ Good(c, r) /\ r.pc = "idle" /\ rq.op = op
      /\ process \in Process /\ process.start \in Nat /\ mode \in BOOLEAN
      /\ UNCHANGED <<process, mode, halls, people, audit>>
  BY StartOfStep, ProcessType DEF Enters, At, env, tables, IInv, TypeOK
<1>1. \A t \in Stores : \A k \in DOMAIN people[t] : k[2] # c
  BY <1>0 DEF Good, Written
<1>2. CASE Becomes(c, invalid)
  <2>1. invalid \in Call
    <3>1. "done" \in PCs /\ "invalid" \in Replies
      BY DEF PCs, Replies
    <3> QED
      BY <3>1, IdleType DEF Call
  <2>2. /\ invalid.pc = "done" /\ invalid.request = rq /\ invalid.reply = "invalid"
        /\ invalid.on = NoProcess /\ invalid.rows = {} /\ invalid.shown = {}
        /\ invalid.before = {} /\ invalid.text = NoIdent
    BY DEF Idle
  <2> HIDE DEF invalid
  <2>3. Placed(invalid) /\ Bound(invalid) /\ Gathered(invalid) /\ Housed(invalid)
    BY <2>2 DEF Placed, Bound, Gathered, Housed, Early, Showing
  <2>4. Written(c, invalid) /\ Moded(invalid) /\ Logged(c, invalid) /\ Peppered(invalid)
    BY <2>2 DEF Written, Moded, Logged, Peppered, Early, Showing
  <2>5. Truthful(invalid) /\ Searched(invalid)
    BY <2>2 DEF Truthful, Means, Searched, Showing
  <2> QED
    BY <1>0, <1>2, <2>1, <2>3, <2>4, <2>5, StillMoves DEF Good
<1>3. CASE rq.complete /\ Becomes(c, s)
  <2>1. seen \subseteq BOOLEAN /\ (op \in Spectating => mode \in seen)
        /\ before \subseteq Calls
        /\ \A x \in before : call[x].reply = "ok" /\ call[x].request.op = "create"
    BY <1>0 DEF Acknowledged
  <2> HIDE DEF seen, before
  <2>2. s \in Call
    <3>1. pc \in PCs /\ process \in Process \cup {NoProcess} /\ rq \in Requests \cup {NoRequest}
      BY <1>0 DEF PCs
    <3> QED
      BY <2>1, <3>1, IdleType DEF Call
  <2>3. /\ s.pc = pc /\ s.request = rq /\ s.on = process /\ s.seen = seen
        /\ s.before = before /\ s.reply = "none" /\ s.rows = {} /\ s.shown = {}
        /\ s.text = NoIdent
    BY DEF Idle
  <2> HIDE DEF s
  <2>4. Placed(s) /\ Bound(s) /\ Gathered(s)
    BY <1>0, <1>3, <2>3 DEF Placed, Bound, Gathered, Early, Showing, Spectating
  <2>5. Housed(s) /\ Written(c, s) /\ Logged(c, s) /\ Peppered(s)
    BY <1>0, <1>1, <2>3 DEF Housed, Written, Logged, Peppered, Early, Showing
  <2>6. Moded(s) /\ Truthful(s)
    BY <1>0, <2>1, <2>3 DEF Moded, Truthful, Means, Early, Showing
  <2>7. Searched(s)
    BY <1>0, <2>1, <2>3 DEF Searched, Finds, Showing
  <2> QED
    BY <1>0, <1>3, <2>2, <2>4, <2>5, <2>6, <2>7, StillMoves DEF Good
<1> QED
  BY <1>2, <1>3 DEF Enters

LEMMA BeginMoves ==
  ASSUME IInv, NEW c \in Calls, NEW rq \in Requests, Begin(c, rq)
  PROVE  IInv'
BY EntersMoves DEF Begin, BeginCreate, BeginSearch, BeginHallCreate, BeginHallList

-----------------------------------------------------------------------------
(* The journal.                                                            *)

LEMMA TouchedType ==
  ASSUME NEW r \in Call, Gathered(r), r.pc # "idle"
  PROVE  Touched(r) \subseteq Forms
<1>1. ASSUME NEW x \in ShownPerson PROVE FormsIn(x.forms) \subseteq Forms
  <2>1. x.forms \in SpectatorForms
    BY DEF ShownPerson
  <2>2. CASE x.forms = NothingShown
    BY <2>2 DEF FormsIn, NothingShown
  <2>3. CASE x.forms \in [FieldsOf("spectator") -> Forms]
    BY <2>3 DEF FormsIn
  <2> QED
    BY <2>1, <2>2, <2>3 DEF SpectatorForms
<1>2. CASE r.request.op = "create"
  BY <1>1, <1>2 DEF Touched, Gathered, Spectating
<1> QED
  BY <1>2 DEF Touched

\* A call is over, and the journal has its entry or says nothing.
LEMMA JournalKeeps ==
  ASSUME IInv, NEW c \in Calls, NEW outcome, NEW reply,
         Journal(c, outcome, reply), UNCHANGED <<env, caches, tables>>,
         \/ call[c].pc = "audit" /\ outcome = "allow" /\ reply = "ok"
         \/ call[c].pc = "denyAudit" /\ outcome = "deny" /\ reply = "forbidden"
  PROVE  IInv'
<1> DEFINE r == call[c]
           key == KeyOf(c, r)
           id == IF r.request.op = "create" /\ outcome = "allow" THEN key ELSE NoId
           entry == [call |-> c, outcome |-> outcome, touched |-> Touched(r), id |-> id]
           done == [r EXCEPT !.pc = "done", !.reply = reply, !.rows = {}]
           unlogged == [done EXCEPT !.unlogged = TRUE]
<1>0. /\ r \in Call /\ Good(c, r) /\ Searched(r) /\ r.request \in Requests
      /\ process \in Process /\ process.start \in Nat
      /\ UNCHANGED <<process, mode, halls, people>>
  BY StartOfStep, ProcessType DEF env, tables, IInv, TypeOK
<1>1. /\ r.request.op \in Spectating /\ r.shown \subseteq ShownPerson
      /\ r.pc = "audit" => r.on = process /\ {x.id : x \in r.shown} = r.rows
      /\ reply \in Replies /\ reply \in {"ok", "forbidden"}
  BY <1>0 DEF Good, Placed, Gathered, Bound, Replies
<1>2. ASSUME NEW s \in Call, s.pc = "done", s.reply = reply, s.rows = {},
             s.request = r.request, s.on = r.on, s.seen = r.seen, s.before = r.before,
             s.shown = r.shown, s.text = r.text, Logged(c, s)'
      PROVE  Good(c, s)' /\ Searched(s)
  <2>1. Placed(s)' /\ Gathered(s)' /\ Housed(s)' /\ Peppered(s)'
    BY <1>0, <1>1, <1>2 DEF Placed, Gathered, Housed, Peppered, Early, Showing
  <2>2. Bound(s)'
    BY <1>0, <1>2 DEF Good, Bound, Early, Showing
  <2>3. Written(c, s)'
    <3>1. ASSUME r.request.op = "create", reply = "ok"
          PROVE  /\ r.on \in Process /\ r.on = process
                 /\ KeyOf(c, r) \in DOMAIN people[process.store]
                 /\ people[process.store][KeyOf(c, r)].ct = Encrypted(process.client, r.request.ident)
      BY <1>0, <1>1, <3>1 DEF Good, Written
    <3>2. KeyOf(c, s) = KeyOf(c, r)
      BY <1>2 DEF KeyOf, TenantOf
    <3> QED
      BY <1>0, <1>2, <3>1, <3>2 DEF Written, Early, Showing
  <2>4. Moded(s)'
    BY <1>0, <1>1, <1>2 DEF Good, Moded, ModesOf, Early, Showing
  <2>5. Truthful(s)'
    BY <1>0, <1>2 DEF Good, Truthful, Means, TenantOf, Showing
  <2>6. Searched(s)
    BY <1>0, <1>1, <1>2 DEF Searched, Finds, TenantOf, Showing
  <2> QED
    BY <1>2, <2>1, <2>2, <2>3, <2>4, <2>5, <2>6 DEF Good
<1>3. /\ done \in Call /\ done.pc = "done" /\ done.reply = reply /\ done.rows = {}
      /\ done.request = r.request /\ done.on = r.on /\ done.seen = r.seen
      /\ done.before = r.before /\ done.shown = r.shown /\ done.text = r.text
  <2>1. done \in Call
    BY <1>0, <1>1 DEF Call, PCs
  <2> QED
    BY <1>0, <2>1 DEF Call
<1> HIDE DEF done
<1>4. /\ unlogged \in Call /\ unlogged.pc = "done" /\ unlogged.reply = reply
      /\ unlogged.rows = {} /\ unlogged.request = r.request /\ unlogged.on = r.on
      /\ unlogged.seen = r.seen /\ unlogged.before = r.before /\ unlogged.shown = r.shown
      /\ unlogged.text = r.text /\ unlogged.unlogged
  <2>1. unlogged \in Call
    BY <1>3 DEF Call
  <2> QED
    BY <1>3, <2>1 DEF Call
<1> HIDE DEF unlogged
<1>5. CASE process.store = "postgres" /\ audit' = audit \cup {entry} /\ Becomes(c, done)
  <2>1. entry \in Entry
    <3>1. Touched(r) \subseteq Forms
      BY <1>0, TouchedType DEF Good
    <3>2. id \in Keys \cup {NoId}
      BY <1>0, RequestType, SpectatorAssumption DEF KeyOf, TenantOf, Keys
    <3> HIDE DEF id
    <3> QED
      BY <3>1, <3>2 DEF Entry
  <2>2. id # NoId => outcome = "allow" /\ id \in DOMAIN people["postgres"]
    <3>1. ASSUME r.request.op = "create", outcome = "allow"
          PROVE  key \in DOMAIN people["postgres"]
      BY <1>0, <1>1, <1>5, <3>1 DEF Good, Written
    <3> QED
      BY <3>1
  <2>3. /\ entry.call = c /\ entry.outcome = outcome /\ entry.touched = Touched(r)
        /\ entry.id = id
    OBVIOUS
  <2> HIDE DEF entry, id
  <2>3a. PICK s \in Call : s = done
    BY <1>3
  <2>4. Logged(c, s)'
    <3>1. entry \in audit' /\ outcome = (IF reply = "ok" THEN "allow" ELSE "deny")
      BY <1>5
    <3>2. entry.touched = Reported(s)
      BY <1>3, <2>3, <2>3a DEF Touched, Reported
    <3> QED
      BY <1>3, <2>3, <2>3a, <3>1, <3>2 DEF Logged
  <2>5. Good(c, s)' /\ Searched(s)
    BY <1>2, <1>3, <2>4, <2>3a
  <2>6. Moves(c) /\ Grows(c)
    BY <1>0, <1>5, <2>5, <2>3a DEF Moves, Grows
  <2>7. call' \in [Calls -> Call] /\ AllGood'
    BY <2>6, MovesFrame
  <2>8. TypeOK'
    BY <1>5, <2>1, <2>7 DEF IInv, TypeOK, env, caches, tables
  <2>9. Shared'
    <3>1. JournalKeyed'
      BY <1>0, <1>5, <2>2, <2>3 DEF IInv, Shared, JournalKeyed
    <3> QED
      BY <1>0, <3>1 DEF IInv, Shared, HallsExist, LookupsUnique, Finite, Genuine
  <2> QED
    BY <2>7, <2>8, <2>9 DEF IInv, Cached, caches
<1>6. CASE Becomes(c, unlogged) /\ UNCHANGED audit
  <2>3a. PICK s \in Call : s = unlogged
    BY <1>4
  <2>1. Logged(c, s)'
    BY <1>4, <2>3a DEF Logged
  <2>2. Good(c, s)' /\ Searched(s)
    BY <1>2, <1>4, <2>1, <2>3a
  <2>3. Moves(c)
    BY <1>6, <2>2, <2>3a DEF Moves
  <2> QED
    BY <1>6, <2>3, QuietestStep
<1> QED
  BY <1>5, <1>6 DEF Journal, done, unlogged, KeyOf, TenantOf

LEMMA AuditMoves ==
  ASSUME IInv, NEW c \in Calls, Audit(c)
  PROVE  IInv'
BY JournalKeeps DEF Audit, At

LEMMA DenyAuditMoves ==
  ASSUME IInv, NEW c \in Calls, DenyAudit(c)
  PROVE  IInv'
BY JournalKeeps DEF DenyAudit, At

-----------------------------------------------------------------------------
(* The steps that write the tables.                                        *)

\* What an INSERT makes of the tables.
LEMMA InsertsRow ==
  ASSUME IInv, NEW c \in Calls, call[c].pc = "insert", Inserts(c)
  PROVE  LET r == call[c]
             key == KeyOf(c, r)
             store == process.store
             row == NewPerson(c) IN
         /\ key \in Keys /\ row \in Person
         /\ \A t \in Stores : key \notin DOMAIN people[t]
         /\ \A t \in Stores \ {store} : people'[t] = people[t]
         /\ DOMAIN people'[store] = DOMAIN people[store] \cup {key}
         /\ people'[store][key] = row
         /\ \A k \in DOMAIN people[store] : people'[store][k] = people[store][k]
         /\ people' = [t \in Stores |-> people'[t]]
         /\ \A t \in Stores : IsTable(people'[t])
<1> DEFINE r == call[c]
           rq == r.request
           key == KeyOf(c, r)
           store == process.store
           row == NewPerson(c)
           table == [k \in DOMAIN people[store] \cup {key} |->
                       IF k = key THEN row ELSE people[store][k]]
<1>0. /\ r \in Call /\ Good(c, r) /\ rq \in Requests /\ store \in Stores
      /\ process.client \in Clients /\ TypeOK
  BY StartOfStep DEF IInv
<1>1. rq.op = "create" /\ rq.complete /\ r.pepper \in Peppers
      /\ rq.hall \in Halls /\ rq.ident \in Idents /\ TenantOf(r) \in Tenants
  BY <1>0, RequestType DEF Good, Placed, Peppered, Spectating, TenantOf
<1>2. key \in Keys /\ key[2] = c
  BY <1>1, SpectatorAssumption DEF Keys, KeyOf
<1>3. row \in Person
  <2>1. Norm[rq.ident] \in Idents
    BY <1>1, KmsAssumption
  <2>2. Lookup(r.pepper, rq.ident) \in Lookups
    BY <1>1, <2>1 DEF Lookup, Lookups
  <2>3. Encrypted(process.client, rq.ident) \in Ciphertext
    BY <1>0, <1>1 DEF Encrypted, Ciphertext
  <2> QED
    BY <1>1, <2>2, <2>3 DEF NewPerson, Person
<1>4. \A t \in Stores : key \notin DOMAIN people[t]
  BY <1>0, <1>2 DEF Good, Written, Early
<1>5. people' = [people EXCEPT ![store] = table]
  BY DEF Inserts, KeyOf, TenantOf
<1>6. /\ DOMAIN table = DOMAIN people[store] \cup {key} /\ table[key] = row
      /\ \A k \in DOMAIN people[store] : table[k] = people[store][k]
      /\ IsTable(table)
  <2>1. IsTable(people[store])
    BY <1>0 DEF TypeOK
  <2>2. \A k \in DOMAIN people[store] : people[store][k] \in Person
    BY <2>1 DEF IsTable
  <2>3. \A k \in DOMAIN people[store] : k # key
    BY <1>0, <1>4
  <2>4. DOMAIN people[store] \cup {key} \subseteq Keys
    BY <1>2, <2>1 DEF IsTable
  <2> HIDE DEF key, row
  <2> QED
    BY <1>3, <2>2, <2>3, <2>4 DEF IsTable
<1> HIDE DEF table
<1>7. /\ \A t \in Stores \ {store} : people'[t] = people[t]
      /\ people'[store] = table
      /\ people' = [t \in Stores |-> people'[t]]
  BY <1>0, <1>5 DEF TypeOK
<1>8. \A t \in Stores : IsTable(people'[t])
  BY <1>0, <1>6, <1>7 DEF TypeOK
<1> QED
  BY <1>2, <1>3, <1>4, <1>6, <1>7, <1>8

LEMMA InsertsGrow ==
  ASSUME IInv, NEW c \in Calls, call[c].pc = "insert", Inserts(c),
         UNCHANGED <<env, caches, halls, audit>>
  PROVE  Grows(c)
<1> DEFINE key == KeyOf(c, call[c])
<1>1. /\ \A t \in Stores : t # process.store => people'[t] = people[t]
      /\ DOMAIN people'[process.store] = DOMAIN people[process.store] \cup {key}
      /\ \A k \in DOMAIN people[process.store] :
           people'[process.store][k] = people[process.store][k]
  BY InsertsRow
<1>2. key[2] = c
  BY DEF KeyOf
<1>3. UNCHANGED <<process, mode, halls, audit>>
  BY DEF env
<1>4. ASSUME NEW t \in Stores, NEW k \in DOMAIN people[t]
      PROVE  k \in DOMAIN people'[t] /\ people'[t][k] = people[t][k]
  BY <1>1
<1>5. ASSUME NEW t \in Stores, NEW k \in DOMAIN people'[t]
      PROVE  k \in DOMAIN people[t] \/ k[2] = c
  BY <1>1, <1>2
<1> QED
  BY <1>3, <1>4, <1>5 DEF Grows

\* A row that may go in keeps what the tables promise.
LEMMA InsertsShared ==
  ASSUME IInv, NEW c \in Calls, call[c].pc = "insert", Inserts(c),
         UNCHANGED <<env, caches, halls, audit>>,
         \/ process.store = "memory"
         \/ Admitted(call[c].request.principal.tenant, NewPerson(c))
  PROVE  Shared'
<1> DEFINE r == call[c]
           key == KeyOf(c, r)
           store == process.store
           row == NewPerson(c)
<1>0. /\ Good(c, r) /\ store \in Stores /\ process.client \in Clients /\ Shared
      /\ r.request \in Requests
  BY StartOfStep DEF IInv
<1>1. /\ key \in Keys /\ row \in Person
      /\ \A t \in Stores : key \notin DOMAIN people[t]
      /\ \A t \in Stores : t # store => people'[t] = people[t]
      /\ DOMAIN people'[store] = DOMAIN people[store] \cup {key}
      /\ people'[store][key] = row
      /\ \A k \in DOMAIN people[store] : people'[store][k] = people[store][k]
  BY InsertsRow
<1>2. r.request.op = "create" /\ <<TenantOf(r), r.request.hall>> \in halls[store]
  BY <1>0 DEF Good, Placed, Housed, Early
<1>3. /\ row.hall = r.request.hall /\ row.ct.by = process.client
      /\ row.ct.text = r.request.ident /\ row.lookup = Lookup(r.pepper, r.request.ident)
      /\ key[1] = TenantOf(r)
  BY DEF NewPerson, Encrypted, KeyOf
<1>4. store = "postgres" =>
        \A k \in DOMAIN people["postgres"] :
          k[1] = TenantOf(r) => people["postgres"][k].lookup # row.lookup
  BY DEF Admitted, TenantOf
<1> HIDE DEF key, row
<1>5. HallsExist'
  <2>1. ASSUME NEW t \in Stores, NEW k \in DOMAIN people'[t]
        PROVE  <<k[1], people'[t][k].hall>> \in halls'[t]
    <3>1. CASE t = store /\ k = key
      BY <1>1, <1>2, <1>3, <3>1
    <3>2. CASE ~(t = store /\ k = key)
      <4>1. k \in DOMAIN people[t] /\ people'[t][k] = people[t][k]
        BY <1>1, <3>2
      <4> QED
        BY <1>0, <4>1 DEF Shared, HallsExist
    <3> QED
      BY <3>1, <3>2
  <2> QED
    BY <2>1 DEF HallsExist
<1>6. LookupsUnique'
  <2>1. CASE store = "postgres"
    <3> SUFFICES ASSUME NEW j \in DOMAIN people'["postgres"], NEW k \in DOMAIN people'["postgres"],
                        j[1] = k[1], people'["postgres"][j].lookup = people'["postgres"][k].lookup
                 PROVE  j = k
      BY DEF LookupsUnique
    <3>1. CASE j # key /\ k # key
      BY <1>0, <1>1, <2>1, <3>1 DEF Shared, LookupsUnique
    <3>2. CASE j = key \/ k = key
      BY <1>1, <1>3, <1>4, <2>1, <3>2
    <3> QED
      BY <3>1, <3>2
  <2>2. CASE store # "postgres"
    <3>1. people'["postgres"] = people["postgres"]
      BY <1>1, <2>2 DEF Stores
    <3> QED
      BY <1>0, <3>1 DEF Shared, LookupsUnique
  <2> QED
    BY <2>1, <2>2
<1>7. JournalKeyed'
  BY <1>0, <1>1 DEF Shared, JournalKeyed, Stores
<1>8. Finite'
  <2>1. CASE store = "postgres"
    <3>1. DOMAIN people'["postgres"] = DOMAIN people["postgres"] \cup {key}
      BY <1>1, <2>1
    <3> QED
      BY <1>0, <3>1, FS_AddElement DEF Shared, Finite
  <2>2. CASE store # "postgres"
    <3>1. people'["postgres"] = people["postgres"]
      BY <1>1, <2>2 DEF Stores
    <3> QED
      BY <1>0, <3>1 DEF Shared, Finite
  <2> QED
    BY <2>1, <2>2
<1>9. ASSUME OnePepper PROVE Genuine'
  <2>1. r.pepper = PepperOf(process.client)
    BY <1>0, <1>9 DEF Good, Peppered
  <2>2. ASSUME NEW t \in Stores, NEW k \in DOMAIN people'[t]
        PROVE  people'[t][k].lookup = Lookup(PepperOf(people'[t][k].ct.by), people'[t][k].ct.text)
    <3>1. CASE t = store /\ k = key
      BY <1>1, <1>3, <2>1, <3>1
    <3>2. CASE ~(t = store /\ k = key)
      <4>1. k \in DOMAIN people[t] /\ people'[t][k] = people[t][k]
        BY <1>1, <3>2
      <4> QED
        BY <1>0, <1>9, <4>1 DEF Shared, Genuine
    <3> QED
      BY <3>1, <3>2
  <2> QED
    BY <2>2 DEF Genuine
<1> QED
  BY <1>5, <1>6, <1>7, <1>8, <1>9 DEF Shared

\* After the INSERT the call reads its row back, or comes to nothing.
LEMMA SeatedMoves ==
  ASSUME IInv, NEW c \in Calls, call[c].pc = "insert", Inserts(c),
         UNCHANGED <<env, caches, halls, audit>>, Seated(c) \/ Fails(c)
  PROVE  Moves(c)
<1> DEFINE r == call[c]
           key == KeyOf(c, r)
           seated == [r EXCEPT !.pc = "read", !.pepper = NoPepper, !.rows = {key}]
<1>0. /\ r \in Call /\ Good(c, r) /\ Searched(r) /\ r.request \in Requests
      /\ process \in Process /\ process.start \in Nat /\ process.store \in Stores
      /\ UNCHANGED <<process, mode, halls, audit>>
  BY StartOfStep, ProcessType DEF env, IInv, TypeOK
<1>1. CASE Fails(c)
  <2> PICK s \in Call : s = Drop(r, "done", "error") /\ Good(c, s)' /\ Searched(s)
    <3>1. Droppable(r, "done", "error")
      BY DEF Droppable
    <3> QED
      BY <1>0, <3>1, DropGood
  <2> QED
    BY <1>1 DEF Moves, Fails
<1>2. CASE Seated(c)
  <2>1. /\ r.request.op = "create" /\ r.request.complete /\ r.on = process /\ r.shown = {}
        /\ mode \in r.seen /\ r.reply \notin {"ok", "forbidden"}
    BY <1>0 DEF Good, Placed, Bound, Gathered, Moded, Early, Spectating
  <2>2. /\ key \in Keys /\ key \in DOMAIN people'[process.store]
        /\ people'[process.store][key].ct = Encrypted(process.client, r.request.ident)
    <3>1. /\ key \in Keys /\ key \in DOMAIN people'[process.store]
          /\ people'[process.store][key] = NewPerson(c)
      BY InsertsRow
    <3>2. NewPerson(c).ct = Encrypted(process.client, r.request.ident)
      BY DEF NewPerson
    <3> QED
      BY <3>1, <3>2
  <2>3. seated \in Call
    <3>1. "read" \in PCs /\ {key} \subseteq Keys
      BY <2>2 DEF PCs
    <3> HIDE DEF key
    <3> QED
      BY <1>0, <3>1 DEF Call
  <2>4. PICK s \in Call : s = seated
    BY <2>3
  <2>5. PICK kept : kept = key
    OBVIOUS
  <2>6. /\ s.pc = "read" /\ s.request = r.request /\ s.rows = {kept} /\ s.shown = {}
        /\ s.on = r.on /\ s.seen = r.seen /\ s.before = r.before /\ s.reply = r.reply
        /\ KeyOf(c, s) = kept
    BY <1>0, <2>1, <2>4, <2>5 DEF Call, KeyOf, TenantOf
  <2>7. Becomes(c, s)
    BY <1>2, <2>4 DEF Seated, KeyOf, TenantOf
  <2>8. Placed(s)' /\ Bound(s)' /\ Housed(s)'
    BY <1>0, <2>1, <2>6 DEF Placed, Bound, Housed, Early, Showing, Spectating
  <2>9. Gathered(s)'
    BY <1>0, <2>1, <2>2, <2>5, <2>6 DEF Gathered, Early, Showing, Spectating
  <2>10. Written(c, s)'
    BY <1>0, <2>1, <2>2, <2>5, <2>6 DEF Written, Early, Showing
  <2>11. Moded(s)' /\ Logged(c, s)' /\ Peppered(s)' /\ Truthful(s)'
    BY <1>0, <2>1, <2>6 DEF Moded, Logged, Peppered, Truthful, Early, Showing
  <2>12. Searched(s)
    BY <1>0, <2>1, <2>6 DEF Searched, Finds
  <2> QED
    BY <1>0, <2>7, <2>8, <2>9, <2>10, <2>11, <2>12 DEF Moves, Good
<1> QED
  BY <1>1, <1>2

LEMMA RowGoesIn ==
  ASSUME IInv, NEW c \in Calls, call[c].pc = "insert", Inserts(c),
         UNCHANGED <<env, caches, halls, audit>>, Seated(c) \/ Fails(c),
         \/ process.store = "memory"
         \/ Admitted(call[c].request.principal.tenant, NewPerson(c))
  PROVE  IInv'
<1>1. call' \in [Calls -> Call] /\ AllGood'
  BY SeatedMoves, InsertsGrow, MovesFrame
<1>2. Shared'
  BY InsertsShared
<1>3. people' = [t \in Stores |-> people'[t]] /\ \A t \in Stores : IsTable(people'[t])
  BY InsertsRow
<1>4. TypeOK'
  BY <1>1, <1>3 DEF IInv, TypeOK, env, caches
<1> QED
  BY <1>1, <1>2, <1>4 DEF IInv, Cached, caches

LEMMA InsertMoves ==
  ASSUME IInv, NEW c \in Calls, Insert(c)
  PROVE  IInv'
<1>1. CASE Fails(c) /\ UNCHANGED people
  <2>1. call[c].pc = "insert" /\ UNCHANGED <<process, mode, halls, people, audit>>
        /\ UNCHANGED <<env, caches, tables, audit>>
    BY <1>1 DEF Insert, At, env, tables
  <2> QED
    BY <1>1, <2>1, FailMoves, QuietestStep
<1>2. CASE Admitted(call[c].request.principal.tenant, NewPerson(c)) /\ Inserts(c)
           /\ (Seated(c) \/ Fails(c))
  BY <1>2, RowGoesIn DEF Insert, At
<1> QED
  BY <1>1, <1>2 DEF Insert

LEMMA InsertInMemoryMoves ==
  ASSUME IInv, NEW c \in Calls, InsertInMemory(c)
  PROVE  IInv'
BY RowGoesIn DEF InsertInMemory, At

LEMMA HallInsertMoves ==
  ASSUME IInv, NEW c \in Calls, HallInsert(c)
  PROVE  IInv'
<1> DEFINE r == call[c]
           hall == <<r.request.principal.tenant, c>>
           made == [r EXCEPT !.pc = "done", !.reply = "ok",
                             !.shown = {[hall |-> c, count |-> 0]}]
<1>0. /\ r \in Call /\ Good(c, r) /\ Searched(r) /\ r.request \in Requests
      /\ r.pc = "hallInsert" /\ process.store \in Stores
      /\ process \in Process /\ process.start \in Nat
      /\ UNCHANGED <<process, mode, people, audit>> /\ UNCHANGED <<env, caches, people, audit>>
  BY StartOfStep, ProcessType DEF HallInsert, At, env, IInv, TypeOK
<1>1. CASE Fails(c) /\ UNCHANGED halls
  <2>1. UNCHANGED <<process, mode, halls, people, audit>>
        /\ UNCHANGED <<env, caches, tables, audit>>
    BY <1>0, <1>1 DEF tables
  <2> QED
    BY <1>0, <1>1, <2>1, FailMoves, QuietestStep
<1>2. CASE /\ halls' = [halls EXCEPT ![process.store] = @ \cup {hall}]
           /\ Becomes(c, made) \/ Fails(c)
  <2>1. c \in Halls /\ hall \in Tenants \X Halls
    BY <1>0, RequestType, SpectatorAssumption
  <2>2. halls \in [Stores -> SUBSET (Tenants \X Halls)]
    BY DEF IInv, TypeOK
  <2>3. /\ halls' \in [Stores -> SUBSET (Tenants \X Halls)]
        /\ \A t \in Stores : halls[t] \subseteq halls'[t]
    <3> HIDE DEF hall
    <3> QED
      BY <1>0, <1>2, <2>1, <2>2
  <2>4. Grows(c)
    BY <1>0, <2>3 DEF Grows
  <2>5. ASSUME Fails(c) PROVE Moves(c)
    <3> PICK s \in Call : s = Drop(r, "done", "error") /\ Good(c, s)' /\ Searched(s)
      <4>1. Droppable(r, "done", "error")
        BY DEF Droppable
      <4> QED
        BY <1>0, <4>1, DropGood
    <3> QED
      BY <1>0, <2>5 DEF Moves, Fails
  <2>6. ASSUME Becomes(c, made) PROVE Moves(c)
    <3>1. /\ r.request.op = "hallCreate" /\ r.rows = {} /\ r.on = process
      BY <1>0 DEF Good, Placed, Gathered, Bound, Early
    <3>2. {[hall |-> c, count |-> 0]} \subseteq ShownHall
      BY <2>1 DEF ShownHall
    <3>3. made \in Call
      <4>1. "done" \in PCs /\ "ok" \in Replies
        BY DEF PCs, Replies
      <4> QED
        BY <1>0, <3>2, <4>1 DEF Call
    <3>4. PICK s \in Call : s = made
      BY <3>3
    <3>5. /\ s.pc = "done" /\ s.reply = "ok" /\ s.request = r.request /\ s.rows = {}
          /\ s.on = r.on /\ s.before = r.before /\ s.shown \subseteq ShownHall
      BY <1>0, <3>1, <3>2, <3>4 DEF Call
    <3>6. Placed(s)' /\ Bound(s)' /\ Gathered(s)' /\ Housed(s)'
      BY <1>0, <3>1, <3>5 DEF Placed, Bound, Gathered, Housed, Early, Showing, Spectating
    <3>7. Written(c, s)' /\ Moded(s)' /\ Logged(c, s)' /\ Peppered(s)' /\ Truthful(s)'
      BY <3>1, <3>5 DEF Written, Moded, Logged, Peppered, Truthful, Early, Showing, Spectating
    <3>8. Searched(s)
      BY <1>0, <3>1, <3>5 DEF Searched, Finds
    <3> QED
      BY <1>0, <2>6, <3>4, <3>6, <3>7, <3>8 DEF Moves, Good
  <2>7. call' \in [Calls -> Call] /\ AllGood'
    BY <1>2, <2>4, <2>5, <2>6, MovesFrame
  <2>8. TypeOK'
    BY <1>0, <2>3, <2>7 DEF IInv, TypeOK, env, caches
  <2>9. Shared'
    BY <1>0, <2>3 DEF IInv, Shared, HallsExist, LookupsUnique, JournalKeyed, Finite, Genuine
  <2> QED
    BY <1>0, <2>7, <2>8, <2>9 DEF IInv, Cached, caches
<1> QED
  BY <1>1, <1>2 DEF HallInsert

-----------------------------------------------------------------------------
(* What the process does besides its calls.                                *)

\* The calls keep their answers: what searches are to find stays the same.
LEMMA SearchedStays ==
  ASSUME NEW r \in Call, Searched(r),
         \A x \in Calls : /\ call'[x].reply = call[x].reply /\ call'[x].request = call[x].request
                          /\ call'[x].on = call[x].on
  PROVE  Searched(r)'
<1> SUFFICES ASSUME NEW x \in r.before
             PROVE  /\ call'[x].reply = "ok" /\ call'[x].request.op = "create"
                    /\ Finds(r, x, call'[x])
  BY DEF Searched, Finds, TenantOf, KeyOf, SameDirectory
<1>1. x \in Calls
  BY DEF Call
<1>2. /\ call[x].reply = "ok" /\ call[x].request.op = "create" /\ Finds(r, x, call[x])
  BY DEF Searched
<1> QED
  BY <1>1, <1>2 DEF Finds, TenantOf, KeyOf, SameDirectory

\* A call that sees the mode change is good in the new mode.
LEMMA PatchedGood ==
  ASSUME IInv, Patch, NEW x \in Calls, NEW s \in Call, call'[x] = s
  PROVE  /\ Good(x, s)' /\ (Searched(call[x]) => Searched(s))
         /\ s.reply = call[x].reply /\ s.request = call[x].request /\ s.on = call[x].on
<1> DEFINE r == call[x]
<1>0. /\ r \in Call /\ Good(x, r) /\ mode' \in BOOLEAN
      /\ UNCHANGED <<process, halls, people, audit>>
  BY StartOfStep DEF Patch, tables
<1>1. s = (IF Deciding(x) THEN [r EXCEPT !.seen = @ \cup {mode'}] ELSE r)
  BY DEF Patch
<1>2. /\ s.pc = r.pc /\ s.request = r.request /\ s.rows = r.rows /\ s.shown = r.shown
      /\ s.on = r.on /\ s.before = r.before /\ s.reply = r.reply /\ s.text = r.text
      /\ s.id = r.id /\ s.forms = r.forms /\ s.unlogged = r.unlogged /\ s.pepper = r.pepper
      /\ r.seen \subseteq s.seen
  BY <1>0, <1>1 DEF Call
<1>3. r.pc \in Early \cup Showing /\ r.request.op \in Spectating => mode' \in s.seen
  <2> SUFFICES ASSUME r.pc \in Early \cup Showing, r.request.op \in Spectating
               PROVE  mode' \in s.seen
    OBVIOUS
  <2>1. mode \in r.seen
    BY <1>0 DEF Good, Moded
  <2>2. Deciding(x)
    BY <2>1 DEF Deciding, Early, Showing
  <2> QED
    BY <1>0, <1>1, <2>2 DEF Call
<1>4. Placed(s)' /\ Bound(s)' /\ Gathered(s)' /\ Housed(s)'
  BY <1>0, <1>2 DEF Good, Placed, Bound, Gathered, Housed, TenantOf
<1>5. Written(x, s)' /\ Logged(x, s)' /\ Peppered(s)' /\ Truthful(s)'
  <2>1. Written(x, s)'
    BY <1>0, <1>2 DEF Good, Written, TenantOf, KeyOf
  <2>2. Logged(x, s)' /\ Peppered(s)'
    BY <1>0, <1>2 DEF Good, Logged, Reported, Peppered
  <2>3. Truthful(s)'
    BY <1>0, <1>2 DEF Good, Truthful, Means, TenantOf
  <2> QED
    BY <2>1, <2>2, <2>3
<1>6. Moded(s)'
  <2>1. r.pc # "idle" /\ r.request.op \in Spectating => \A y \in s.shown : ModesOf(s, y)
    BY <1>0, <1>2 DEF Good, Moded, ModesOf
  <2>2. r.pc \in Showing \ {"read"} => \E m \in s.seen : s.forms = FormsOf(m, s.request.principal)
    BY <1>0, <1>2 DEF Good, Moded
  <2> QED
    BY <1>2, <1>3, <2>1, <2>2 DEF Moded
<1>7. Searched(r) => Searched(s)
  BY <1>2 DEF Searched, Finds, TenantOf
<1> QED
  BY <1>2, <1>4, <1>5, <1>6, <1>7 DEF Good

LEMMA PatchKeeps ==
  ASSUME IInv, Patch
  PROVE  IInv'
<1>1. call' \in [Calls -> Call]
  <2>1. ASSUME NEW x \in Calls PROVE [call[x] EXCEPT !.seen = @ \cup {mode'}] \in Call
    <3>1. call[x] \in Call /\ mode' \in BOOLEAN
      BY DEF IInv, TypeOK, Patch
    <3> QED
      BY <3>1 DEF Call
  <2> QED
    BY <2>1 DEF IInv, TypeOK, Patch
<1>2. AllGood'
  <2> SUFFICES ASSUME NEW x \in Calls, NEW s \in Call, call'[x] = s
               PROVE  Good(x, s)' /\ Searched(s)'
    BY DEF AllGood
  <2>1. \A y \in Calls : /\ call'[y].reply = call[y].reply
                         /\ call'[y].request = call[y].request /\ call'[y].on = call[y].on
    BY <1>1, PatchedGood
  <2>2. Searched(s)
    BY StartOfStep, PatchedGood
  <2> QED
    BY <2>1, <2>2, PatchedGood, SearchedStays
<1>3. TypeOK'
  BY <1>1 DEF IInv, TypeOK, Patch, caches, tables
<1>4. Shared' /\ Cached'
  BY DEF IInv, Shared, HallsExist, LookupsUnique, JournalKeyed, Finite, Genuine, Cached, Patch,
         caches, tables
<1> QED
  BY <1>2, <1>3, <1>4 DEF IInv

LEMMA CachesKeep ==
  ASSUME IInv, ClearAll \/ Forget
  PROVE  IInv'
<1>1. UNCHANGED <<process, mode, level, tables, call, audit>> /\ clearing' \in BOOLEAN
  BY DEF ClearAll, Forget, env, IInv, TypeOK
<1>2. pepper' \in {pepper, NoPepper} /\ plain' \subseteq plain
  BY DEF ClearAll, Forget
<1>3. TypeOK'
  BY <1>1, <1>2 DEF IInv, TypeOK, tables
<1>4. Shared' /\ Cached'
  BY <1>1, <1>2 DEF IInv, Shared, HallsExist, LookupsUnique, JournalKeyed, Finite, Genuine,
                    Cached, tables
<1>5. AllGood'
  <2> SUFFICES ASSUME NEW x \in Calls, NEW r \in Call, call[x] = r
               PROVE  Good(x, r)' /\ Searched(r)'
    BY <1>1 DEF AllGood
  <2>1. Good(x, r) /\ Searched(r)
    BY DEF IInv, AllGood
  <2> QED
    BY <1>1, <2>1, GoodStill DEF tables, Searched
<1> QED
  BY <1>3, <1>4, <1>5 DEF IInv

-----------------------------------------------------------------------------
(* Restarts.                                                               *)

LEMMA EmptyTable == DOMAIN <<>> = {} /\ IsTable(<<>>)
BY DEF IsTable

\* A call that had not begun, or was over, is as good under the next process.
LEMMA OverGood ==
  ASSUME IInv, Restart, NEW x \in Calls, ~Running(x)
  PROVE  \A r \in Call : call[x] = r => Good(x, r)'
<1> SUFFICES ASSUME NEW r \in Call, call[x] = r PROVE Good(x, r)'
  OBVIOUS
<1>0. /\ Good(x, r) /\ r.pc \in {"idle", "done"} /\ process \in Process
      /\ process.start \in Nat /\ process'.start = process.start + 1
      /\ people'["postgres"] = people["postgres"] /\ DOMAIN people'["memory"] = {}
      /\ audit' = audit
  BY StartOfStep, ProcessType, EmptyTable DEF Running, Restart, Wired, IInv, TypeOK, Stores
<1>1. r.on # NoProcess => r.on \in Process /\ r.on.start \in Nat /\ r.on.start <= process.start
  BY <1>0 DEF Good, Bound, Call, Process
<1>2. Placed(r)' /\ Gathered(r)' /\ Housed(r)' /\ Peppered(r)'
  BY <1>0 DEF Good, Placed, Gathered, Housed, Peppered, Early, Showing
<1>3. Bound(r)'
  BY <1>0, <1>1 DEF Bound, Early, Showing
<1>4. Written(x, r)'
  <2>1. r.pc = "idle" => \A t \in Stores : \A k \in DOMAIN people'[t] : k[2] # x
    BY <1>0 DEF Good, Written, Stores
  <2>2. ASSUME r.pc # "idle", r.request.op = "create", r.reply = "ok",
               r.on.store = "postgres" \/ r.on.start = process'.start
        PROVE  /\ KeyOf(x, r) \in DOMAIN people'[r.on.store]
               /\ people'[r.on.store][KeyOf(x, r)].ct = Encrypted(r.on.client, r.request.ident)
    <3>1. r.on \in Process
      BY <1>0, <2>2 DEF Good, Written
    <3>2. r.on # NoProcess
      BY <3>1, SpectatorAssumption
    <3>3. r.on.store = "postgres"
      BY <1>0, <1>1, <2>2, <3>2
    <3> QED
      BY <1>0, <2>2, <3>3 DEF Good, Written
  <2>3. r.pc # "idle" /\ r.request.op = "create" /\ r.reply = "ok" => r.on \in Process
    BY <1>0 DEF Good, Written
  <2> QED
    BY <1>0, <2>1, <2>2, <2>3 DEF Written, Early, Showing
<1>5. Moded(r)' /\ Logged(x, r)'
  BY <1>0 DEF Good, Moded, Logged, Early, Showing
<1>6. Truthful(r)'
  BY <1>0 DEF Good, Truthful, Showing
<1> QED
  BY <1>2, <1>3, <1>4, <1>5, <1>6 DEF Good

LEMMA RestartCalls ==
  ASSUME IInv, Restart
  PROVE  call' \in [Calls -> Call] /\ AllGood'
<1>0. call \in [Calls -> Call]
  BY DEF IInv, TypeOK
<1>1. call' = [x \in Calls |-> IF Running(x) THEN Drop(call[x], "done", "lost") ELSE call[x]]
  BY DEF Restart
<1>2. ASSUME NEW x \in Calls, Running(x)
      PROVE  \E s \in Call :
               s = Drop(call[x], "done", "lost") /\ Good(x, s)' /\ s.before = {}
  <2>1. call[x].request \in Requests
    BY <1>2, StartOfStep DEF Running
  <2>2. PICK r \in Call : r = call[x]
    BY <1>0
  <2>3. Droppable(r, "done", "lost")
    BY DEF Droppable
  <2>4. PICK s \in Call : s = Drop(r, "done", "lost") /\ Good(x, s)'
    BY <2>1, <2>2, <2>3, DropGood
  <2>5. s.before = {}
    BY <2>4 DEF Drop, Idle
  <2> QED
    BY <2>2, <2>4, <2>5
<1>3. call' \in [Calls -> Call]
  BY <1>0, <1>1, <1>2
<1>4. ASSUME NEW x \in Calls, NEW s \in Call, call'[x] = s PROVE Good(x, s)'
  <2>1. CASE Running(x)
    <3>1. PICK d \in Call : d = Drop(call[x], "done", "lost") /\ Good(x, d)'
      BY <1>2, <2>1
    <3> QED
      BY <1>1, <1>4, <2>1, <3>1
  <2>2. CASE ~Running(x)
    BY <1>1, <1>4, <2>2, OverGood
  <2> QED
    BY <2>1, <2>2
<1>5. ASSUME NEW x \in Calls, call[x].reply = "ok" PROVE call'[x] = call[x]
  <2>1. call[x].pc = "done"
    BY <1>5, StartOfStep DEF Good, Placed
  <2> QED
    BY <1>1, <2>1 DEF Running
<1>6. ASSUME NEW x \in Calls, NEW s \in Call, call'[x] = s PROVE Searched(s)'
  <2>1. CASE Running(x)
    <3>1. s.before = {}
      BY <1>1, <1>2, <1>6, <2>1
    <3> QED
      BY <3>1 DEF Searched
  <2>2. CASE ~Running(x)
    <3>1. Searched(s)
      BY <1>1, <1>6, <2>2, StartOfStep
    <3> SUFFICES ASSUME NEW y \in s.before
                 PROVE  /\ call'[y].reply = "ok" /\ call'[y].request.op = "create"
                        /\ Finds(s, y, call'[y])
      BY DEF Searched, Finds, TenantOf, KeyOf, SameDirectory
    <3>2. y \in Calls
      BY DEF Call
    <3> QED
      BY <1>5, <3>1, <3>2 DEF Searched
  <2> QED
    BY <2>1, <2>2
<1> QED
  BY <1>3, <1>4, <1>6 DEF AllGood

LEMMA RestartKeeps ==
  ASSUME IInv, Restart
  PROVE  IInv'
<1>0. /\ halls \in [Stores -> SUBSET (Tenants \X Halls)]
      /\ people = [t \in Stores |-> people[t]] /\ \A t \in Stores : IsTable(people[t])
  BY DEF IInv, TypeOK
<1>1. /\ people'["postgres"] = people["postgres"] /\ people'["memory"] = <<>>
      /\ halls'["postgres"] = halls["postgres"] /\ audit' = audit
      /\ pepper' = NoPepper /\ plain' = {}
  BY <1>0 DEF Restart, Stores
<1>2. call' \in [Calls -> Call] /\ AllGood'
  BY RestartCalls
<1>3. TypeOK'
  <2>1. process' \in Process
    <3>1. process.start \in Nat /\ process.start + 1 \in 1..MaxStarts
      BY ProcessType, SpectatorAssumption DEF Restart, IInv, TypeOK
    <3> QED
      BY <3>1 DEF Restart, Wired, Process
  <2>2. mode' \in BOOLEAN /\ level' \in Levels /\ clearing' \in BOOLEAN
    BY SpectatorAssumption DEF Restart
  <2>3. halls' \in [Stores -> SUBSET (Tenants \X Halls)]
    <3>1. {MemoryHall} \subseteq Tenants \X Halls
      BY SpectatorAssumption
    <3> QED
      BY <1>0, <3>1 DEF Restart
  <2>4. people' = [t \in Stores |-> people'[t]] /\ \A t \in Stores : IsTable(people'[t])
    <3>1. \A t \in Stores : IsTable(people'[t])
      BY <1>0, <1>1, EmptyTable DEF Stores
    <3> QED
      BY <1>0, <3>1 DEF Restart
  <2>5. audit' \subseteq Entry
    BY <1>1 DEF IInv, TypeOK
  <2> QED
    BY <1>1, <1>2, <2>1, <2>2, <2>3, <2>4, <2>5 DEF TypeOK
<1>4. Shared'
  <2>1. HallsExist'
    BY <1>1, EmptyTable DEF IInv, Shared, HallsExist, Stores
  <2>2. OnePepper => Genuine'
    BY <1>1, EmptyTable DEF IInv, Shared, Genuine, Stores
  <2>3. LookupsUnique' /\ JournalKeyed' /\ Finite'
    BY <1>1 DEF IInv, Shared, LookupsUnique, JournalKeyed, Finite
  <2> QED
    BY <2>1, <2>2, <2>3 DEF Shared
<1> QED
  BY <1>1, <1>2, <1>3, <1>4 DEF IInv, Cached

-----------------------------------------------------------------------------
(* The invariant.                                                          *)

LEMMA InitIInv ==
  ASSUME Init
  PROVE  IInv
<1>0. /\ people["postgres"] = SeedPeople /\ people["memory"] = <<>>
      /\ halls["postgres"] = SeedHalls /\ audit = {} /\ pepper = NoPepper /\ plain = {}
      /\ call = [x \in Calls |-> Idle]
  BY DEF Init, FreshCaches
<1>1. TypeOK
  <2>1. process \in Process
    BY SpectatorAssumption DEF Init, Wired, Process
  <2>2. mode \in BOOLEAN /\ level \in Levels /\ clearing \in BOOLEAN
    BY SpectatorAssumption DEF Init
  <2>3. halls \in [Stores -> SUBSET (Tenants \X Halls)]
    BY SpectatorAssumption DEF Init, Stores
  <2>4. people = [t \in Stores |-> people[t]] /\ \A t \in Stores : IsTable(people[t])
    BY <1>0, SpectatorAssumption, EmptyTable DEF Init, Stores
  <2> QED
    BY <1>0, <2>1, <2>2, <2>3, <2>4, IdleType DEF TypeOK
<1>2. Shared
  <2>1. HallsExist
    BY <1>0, SeedAssumption, EmptyTable DEF HallsExist, Stores
  <2>2. Genuine
    BY <1>0, SeedAssumption, EmptyTable DEF Genuine, Stores
  <2>3. LookupsUnique
    BY <1>0, SeedAssumption DEF LookupsUnique
  <2>4. JournalKeyed /\ Finite
    BY <1>0, SpectatorAssumption DEF JournalKeyed, Finite
  <2> QED
    BY <2>1, <2>2, <2>3, <2>4 DEF Shared
<1>3. AllGood
  <2> SUFFICES ASSUME NEW x \in Calls PROVE Good(x, Idle) /\ Searched(Idle)
    BY <1>0 DEF AllGood
  <2>1. /\ Idle.pc = "idle" /\ Idle.reply = "none" /\ Idle.on = NoProcess /\ Idle.rows = {}
        /\ Idle.shown = {} /\ Idle.before = {}
    BY DEF Idle
  <2>2. Placed(Idle) /\ Bound(Idle) /\ Gathered(Idle) /\ Housed(Idle)
    BY <2>1 DEF Placed, Bound, Gathered, Housed, Early, Showing
  <2>3. Written(x, Idle)
    BY <1>0, <2>1, SpectatorAssumption, EmptyTable DEF Written, Stores, Showing
  <2>4. Moded(Idle) /\ Logged(x, Idle) /\ Peppered(Idle) /\ Truthful(Idle) /\ Searched(Idle)
    BY <2>1 DEF Moded, Logged, Peppered, Truthful, Searched, Early, Showing
  <2> QED
    BY <2>2, <2>3, <2>4 DEF Good
<1> QED
  BY <1>0, <1>1, <1>2, <1>3 DEF IInv, Cached

LEMMA NextIInv ==
  ASSUME IInv, [Next]_vars
  PROVE  IInv'
<1>1. ASSUME NEW c \in Calls, Step(c) PROVE IInv'
  BY <1>1, FindHallMoves, AuthorizeMoves, AuthorizeHallMoves, EncryptMoves, GetPepperMoves,
     ReadPepperMoves, StorePepperMoves, InsertMoves, InsertInMemoryMoves, QueryMoves,
     HallInsertMoves, HallQueryMoves, HallReadMoves, ReadMoves, DecryptMoves, TransitMoves,
     StorePlainMoves, MaskMoves, AuditMoves, DenyAuditMoves DEF Step
<1>2. ASSUME NEW c \in Calls, NEW rq \in Requests, Begin(c, rq) PROVE IInv'
  BY <1>2, BeginMoves
<1>3. CASE Patch \/ ClearAll \/ Forget \/ Restart
  BY <1>3, PatchKeeps, CachesKeep, RestartKeeps
<1>4. CASE UNCHANGED vars
  <2>1. UNCHANGED <<process, mode, level, clearing, pepper, plain, halls, people, call, audit>>
    BY <1>4 DEF vars, env, caches, tables
  <2>2. TypeOK' /\ Shared' /\ Cached'
    BY <2>1 DEF IInv, TypeOK, Shared, HallsExist, LookupsUnique, JournalKeyed, Finite, Genuine,
                Cached
  <2>3. AllGood'
    <3> SUFFICES ASSUME NEW x \in Calls, NEW r \in Call, call[x] = r
                 PROVE  Good(x, r)' /\ Searched(r)'
      BY <2>1 DEF AllGood
    <3>1. Good(x, r) /\ Searched(r)
      BY DEF IInv, AllGood
    <3> QED
      BY <2>1, <3>1, GoodStill DEF Searched
  <2> QED
    BY <2>2, <2>3 DEF IInv
<1> QED
  BY <1>1, <1>2, <1>3, <1>4 DEF Next

-----------------------------------------------------------------------------
(* What follows from the invariant, for every specification of SeedPeople, *)
(* of the requests and of the policy.                                      *)

LEMMA Invariance ==
  Spec => []IInv
<1>1. Init => IInv
  BY InitIInv
<1>2. IInv /\ [Next]_vars => IInv'
  BY NextIInv
<1> QED
  BY <1>1, <1>2, PTL DEF Spec

\* Tables, caches, calls and journal have their types (the rows the
\* repositories scan, the answers the handlers give).
THEOREM TypeCorrect ==
  Spec => []TypeOK
<1>1. IInv => TypeOK
  BY DEF IInv
<1> QED
  BY <1>1, Invariance, PTL

\* Every spectator of either table sits in a hall of its tenant: what
\* SpectatorService.Create checks first still holds when the row goes in, and
\* no table loses a hall to a restart without losing its spectators too.
THEOREM RowsHoused ==
  Spec => []HallsExist
<1>1. IInv => HallsExist
  BY DEF IInv, Shared
<1> QED
  BY <1>1, Invariance, PTL

\* Fields and identifier of an answer are each those of a mode that was in
\* force during the call, however the settings change meanwhile.
THEOREM ModesRespected ==
  Spec => []OneModeAnswers
<1>1. IInv => OneModeAnswers
  <2> SUFFICES ASSUME IInv, NEW c \in Calls, NEW op \in {"create", "search"}, Answered(c, op),
                      NEW s \in call[c].shown
               PROVE  LET p == call[c].request.principal IN
                      /\ \E m \in call[c].seen : s.forms = FormsOf(m, p)
                      /\ \E m \in call[c].seen : s.whole = (~m \/ p.role = "admin")
    BY DEF OneModeAnswers
  <2>1. Good(c, call[c])
    BY StartOfStep
  <2> QED
    BY <2>1 DEF Good, Moded, ModesOf, Answered, At, Spectating
<1> QED
  BY <1>1, Invariance, PTL

\* When creations and searches use one pepper, as with the default path, no
\* identifier names two spectators of a tenant in PostgreSQL under one kind of
\* client: the unique index is on the digest, and equal identifiers have equal
\* digests.
THEOREM OneRowPerIdentifier ==
  ASSUME OnePepper
  PROVE  Spec => []IdentifiersUnique
<1>1. IInv => IdentifiersUnique
  <2> SUFFICES ASSUME IInv,
                      NEW j \in DOMAIN people["postgres"], NEW k \in DOMAIN people["postgres"],
                      j[1] = k[1], people["postgres"][j].ct.by = people["postgres"][k].ct.by,
                      Norm[people["postgres"][j].ct.text] = Norm[people["postgres"][k].ct.text]
               PROVE  j = k
    BY DEF IdentifiersUnique
  <2>1. people["postgres"][j].lookup = people["postgres"][k].lookup
    BY OnePepper DEF IInv, Shared, Genuine, Stores, Lookup
  <2> QED
    BY <2>1 DEF IInv, Shared, LookupsUnique
<1> QED
  BY <1>1, Invariance, PTL

\* A search shows only spectators of the caller's tenant with the identifier
\* that was asked for, and decrypts none that another kind of client wrote.
THEOREM SearchesTruthful ==
  ASSUME OnePepper
  PROVE  Spec => []AnswersTrue
<1>1. IInv => AnswersTrue
  <2> SUFFICES ASSUME IInv, NEW c \in Calls, Answered(c, "search"), NEW s \in call[c].shown
               PROVE  /\ s.id[1] = call[c].request.principal.tenant
                      /\ s.text # NoIdent =>
                           s.text \in Idents /\ Norm[s.text] = Norm[call[c].request.ident]
    BY DEF AnswersTrue
  <2>1. Good(c, call[c])
    BY StartOfStep
  <2> QED
    BY <2>1, OnePepper DEF Good, Truthful, Means, TenantOf, Answered, At
<1> QED
  BY <1>1, Invariance, PTL

\* An acknowledged creation is found by every later search of its tenant under
\* its identifier, across restarts that keep the kind of client and the table.
THEOREM SearchesFind ==
  ASSUME OnePepper
  PROVE  Spec => []SearchComplete
<1>1. IInv => SearchComplete
  <2> SUFFICES ASSUME IInv, NEW c \in Calls, Answered(c, "search"), NEW x \in call[c].before,
                      call[x].request.op = "create", SameDirectory(call[x].on, call[c].on),
                      call[x].request.principal.tenant = call[c].request.principal.tenant,
                      Norm[call[x].request.ident] = Norm[call[c].request.ident]
               PROVE  <<call[x].request.principal.tenant, x>> \in {s.id : s \in call[c].shown}
    BY DEF SearchComplete
  <2>1. Searched(call[c])
    BY StartOfStep
  <2> QED
    BY <2>1, OnePepper DEF Searched, Finds, KeyOf, TenantOf, Answered, At
<1> QED
  BY <1>1, Invariance, PTL

-----------------------------------------------------------------------------
(* The numbers of a list of halls.  IInv says nothing of them; AllNumbered  *)
(* does, and is inductive on top of it: a row of PostgreSQL stays as it is, *)
(* and a new one is of a creation that no list has seen acknowledged.       *)

\* The spectators of a hall, and those that were there when the call began.
Here(r, h) ==
  {k \in DOMAIN people["postgres"] : k[1] = TenantOf(r) /\ people["postgres"][k].hall = h}

Known(r, h) == {k \in Here(r, h) : k[2] \in Calls => k[2] \in r.before}

Numbered(r) ==
  r.pc # "idle" /\ r.request.op = "hallList" /\ r.on.store = "postgres" =>
    \A s \in r.shown :
      s.count = 0 \/ s.count \in Cardinality(Known(r, s.hall))..Cardinality(Here(r, s.hall))

AllNumbered == \A x \in Calls, r \in Call : call[x] = r => Numbered(r)

\* The bounds of a count are numbers in this order.
LEMMA HereFinite ==
  ASSUME Finite, NEW r, NEW h
  PROVE  /\ IsFiniteSet(Here(r, h))
         /\ Cardinality(Known(r, h)) \in Nat /\ Cardinality(Here(r, h)) \in Nat
         /\ Cardinality(Known(r, h)) <= Cardinality(Here(r, h))
<1>1. IsFiniteSet(Here(r, h))
  <2>1. Here(r, h) \subseteq DOMAIN people["postgres"]
    BY DEF Here
  <2> QED
    BY <2>1, FS_Subset DEF Finite
<1>2. Known(r, h) \subseteq Here(r, h)
  BY DEF Known
<1>3. IsFiniteSet(Known(r, h)) /\ Cardinality(Known(r, h)) <= Cardinality(Here(r, h))
  BY <1>1, <1>2, FS_Subset
<1> QED
  BY <1>1, <1>3, FS_CardinalityType

\* What the calls do to PostgreSQL: rows stay, and whoever adds one is not over.
AddsOnly(c) ==
  /\ \A k \in DOMAIN people["postgres"] :
       k \in DOMAIN people'["postgres"] /\ people'["postgres"][k] = people["postgres"][k]
  /\ \A k \in DOMAIN people'["postgres"] : k \in DOMAIN people["postgres"] \/ k[2] = c

LEMMA StepAddsOnly ==
  ASSUME IInv, NEW c \in Calls, Step(c)
  PROVE  /\ AddsOnly(c) /\ call[c].reply # "ok" /\ call[c].pc # "done"
         /\ Insert(c) \/ InsertInMemory(c) \/ UNCHANGED people
<1>0. ASSUME NEW pc, At(c, pc), pc # "done" PROVE call[c].pc # "done"
  BY <1>0 DEF At
<1>1. call[c].pc # "done"
  <2>1. CASE FindHall(c) \/ Authorize(c) \/ AuthorizeHall(c) \/ Encrypt(c) \/ GetPepper(c)
    BY <1>0, <2>1 DEF FindHall, Authorize, AuthorizeHall, Encrypt, GetPepper
  <2>2. CASE ReadPepper(c) \/ StorePepper(c) \/ Insert(c) \/ InsertInMemory(c) \/ Query(c)
    BY <1>0, <2>2 DEF ReadPepper, StorePepper, Insert, InsertInMemory, Query
  <2>3. CASE HallInsert(c) \/ HallQuery(c) \/ Decrypt(c)
    BY <1>0, <2>3 DEF HallInsert, HallQuery, Decrypt
  <2>4. CASE HallRead(c)
    BY <2>4 DEF HallRead, At
  <2>5. CASE Read(c)
    BY <2>5 DEF Read, At
  <2>6. CASE Transit(c) \/ StorePlain(c) \/ Mask(c) \/ Audit(c) \/ DenyAudit(c)
    BY <1>0, <2>6 DEF Transit, StorePlain, Mask, Audit, DenyAudit
  <2> QED
    BY <2>1, <2>2, <2>3, <2>4, <2>5, <2>6 DEF Step
<1>2. call[c].reply # "ok"
  BY <1>1, StartOfStep DEF Good, Placed
<1>3. ASSUME Insert(c) \/ InsertInMemory(c) PROVE AddsOnly(c)
  <2>1. CASE UNCHANGED people
    BY <1>2, <2>1 DEF AddsOnly
  <2>2. CASE ~UNCHANGED people
    <3>1. call[c].pc = "insert" /\ Inserts(c) /\ UNCHANGED <<env, caches, halls, audit>>
      BY <1>3, <2>2 DEF Insert, InsertInMemory, At
    <3>2. Grows(c)
      BY <3>1, InsertsGrow
    <3> QED
      BY <1>2, <3>2 DEF Grows, AddsOnly, Stores
  <2> QED
    BY <2>1, <2>2
<1>4. ASSUME ~(Insert(c) \/ InsertInMemory(c))
      PROVE  UNCHANGED people /\ AddsOnly(c)
  <2>1. UNCHANGED people
    <3>1. CASE FindHall(c) \/ Authorize(c) \/ AuthorizeHall(c) \/ Encrypt(c) \/ GetPepper(c)
      BY <3>1 DEF FindHall, Authorize, AuthorizeHall, Encrypt, GetPepper, tables
    <3>2. CASE ReadPepper(c) \/ StorePepper(c) \/ Query(c) \/ HallInsert(c) \/ HallQuery(c)
      BY <3>2 DEF ReadPepper, StorePepper, Query, HallInsert, HallQuery, tables
    <3>3. CASE Decrypt(c) \/ Transit(c) \/ StorePlain(c)
      BY <3>3 DEF Decrypt, Transit, StorePlain, tables
    <3>4. CASE HallRead(c)
      BY <3>4 DEF HallRead, tables
    <3>5. CASE Read(c)
      BY <3>5 DEF Read, tables
    <3>6. CASE Mask(c) \/ Audit(c) \/ DenyAudit(c)
      BY <3>6 DEF Mask, Audit, DenyAudit, tables
    <3> QED
      BY <1>4, <3>1, <3>2, <3>3, <3>4, <3>5, <3>6 DEF Step
  <2> QED
    BY <1>2, <2>1 DEF AddsOnly
<1>5. Insert(c) \/ InsertInMemory(c) \/ UNCHANGED people
  BY <1>4
<1> QED
  BY <1>1, <1>2, <1>3, <1>4, <1>5

\* A count that was within its bounds stays so: the lower bound does not move,
\* the upper one only up.
LEMMA NumberedStays ==
  ASSUME Finite, Finite', NEW c \in Calls, AddsOnly(c), NEW r, c \notin r.before, Numbered(r)
  PROVE  Numbered(r)'
<1> SUFFICES ASSUME r.pc # "idle", r.request.op = "hallList", r.on.store = "postgres",
                    NEW s \in r.shown, s.count # 0
             PROVE  s.count \in Cardinality(Known(r, s.hall)')..Cardinality(Here(r, s.hall)')
  BY DEF Numbered
<1> DEFINE h == s.hall
<1>1. s.count \in Cardinality(Known(r, h))..Cardinality(Here(r, h))
  BY DEF Numbered
<1>2. Known(r, h)' = Known(r, h)
  <2>1. ASSUME NEW k \in DOMAIN people'["postgres"], k[2] \in Calls => k[2] \in r.before
        PROVE  k \in DOMAIN people["postgres"]
    BY <2>1 DEF AddsOnly
  <2> QED
    BY <2>1 DEF Known, Here, AddsOnly
<1>3. Here(r, h) \subseteq Here(r, h)'
  BY DEF Here, AddsOnly
<1>4. IsFiniteSet(Here(r, h)') /\ Cardinality(Here(r, h)') \in Nat
  <2>1. IsFiniteSet(Here(r, h)')
    <3>1. Here(r, h)' \subseteq DOMAIN people'["postgres"]
      BY DEF Here
    <3> QED
      BY <3>1, FS_Subset DEF Finite
  <2> QED
    BY <2>1, FS_CardinalityType
<1>5. Cardinality(Here(r, h)) <= Cardinality(Here(r, h)')
  BY <1>3, <1>4, FS_Subset
<1>6. /\ Cardinality(Known(r, h)) \in Nat /\ Cardinality(Here(r, h)) \in Nat
  BY HereFinite
<1> QED
  BY <1>1, <1>2, <1>4, <1>5, <1>6

\* The same, for what another step makes of a call without touching its answer.
LEMMA NumberedSame ==
  ASSUME NEW r, NEW s, Numbered(r), people'["postgres"] = people["postgres"],
         s.shown = {} \/ (/\ s.pc = r.pc /\ s.request = r.request /\ s.on = r.on
                          /\ s.shown = r.shown /\ s.before = r.before)
  PROVE  Numbered(s)'
<1>1. CASE s.shown = {}
  BY <1>1 DEF Numbered
<1>2. CASE /\ s.pc = r.pc /\ s.request = r.request /\ s.on = r.on
           /\ s.shown = r.shown /\ s.before = r.before
  <2>1. ASSUME NEW h PROVE Here(s, h)' = Here(r, h) /\ Known(s, h)' = Known(r, h)
    BY <1>2 DEF Here, Known, TenantOf
  <2> QED
    BY <1>2, <2>1 DEF Numbered
<1> QED
  BY <1>1, <1>2

\* A step changes one call, and not what it asks.
LEMMA AsksTheSame ==
  ASSUME IInv, NEW c \in Calls, Step(c)
  PROVE  /\ call'[c].request = call[c].request
         /\ \A x \in Calls \ {c} : call'[x] = call[x]
<1> DEFINE r == call[c]
           Same == \E s : call' = [call EXCEPT ![c] = s] /\ s.request = call[c].request
<1>0. call \in [Calls -> Call] /\ r \in Call
  BY StartOfStep
<1>1. \A s : call' = [call EXCEPT ![c] = s] /\ s.request = r.request => Same
  OBVIOUS
<1>2. \A pc : call' = [call EXCEPT ![c] = [r EXCEPT !.pc = pc]] => Same
  BY <1>0, <1>1 DEF Call
<1>3. \A pc, reply : call' = [call EXCEPT ![c] = Drop(r, pc, reply)] => Same
  BY <1>1 DEF Drop, Idle
<1>4. \A pc, p : call' = [call EXCEPT ![c] = [r EXCEPT !.pepper = p, !.pc = pc]] => Same
  BY <1>0, <1>1 DEF Call
<1>5. \A pc, text : call' = [call EXCEPT ![c] = [r EXCEPT !.text = text, !.pc = pc]] => Same
  BY <1>0, <1>1 DEF Call
<1> SUFFICES Same
  BY <1>0
<1> HIDE DEF Same
<1>6. CASE FindHall(c) \/ AuthorizeHall(c) \/ Encrypt(c)
  BY <1>2, <1>3, <1>6 DEF FindHall, AuthorizeHall, Encrypt, Goes, Fails, Becomes
<1>7. CASE Authorize(c)
  BY <1>2, <1>3, <1>7 DEF Authorize, Goes, Becomes
<1>8. CASE GetPepper(c)
  BY <1>2, <1>4, <1>8 DEF GetPepper, HasPepper, Goes, Becomes
<1>9. CASE ReadPepper(c)
  BY <1>3, <1>4, <1>9 DEF ReadPepper, HasPepper, Fails, Becomes
<1>10. CASE StorePepper(c)
  BY <1>4, <1>10 DEF StorePepper, HasPepper, Becomes
<1>11. CASE Insert(c) \/ InsertInMemory(c)
  <2>1. ASSUME Seated(c) PROVE Same
    BY <1>0, <1>1, <2>1 DEF Seated, Becomes, Call
  <2> QED
    BY <1>3, <1>11, <2>1 DEF Insert, InsertInMemory, Fails, Becomes
<1>12. CASE Query(c)
  <2>1. \A pc, rows :
          call' = [call EXCEPT ![c] = [r EXCEPT !.pc = pc, !.rows = rows, !.pepper = NoPepper]]
            => Same
    BY <1>0, <1>1 DEF Call
  <2> QED
    BY <1>3, <1>12, <2>1 DEF Query, Fails, Becomes
<1>13. CASE HallInsert(c)
  <2>1. \A shown :
          call' = [call EXCEPT ![c] = [r EXCEPT !.pc = "done", !.reply = "ok", !.shown = shown]]
            => Same
    BY <1>0, <1>1 DEF Call
  <2> QED
    BY <1>3, <1>13, <2>1 DEF HallInsert, Fails, Becomes
<1>14. CASE HallQuery(c)
  <2>1. call' = [call EXCEPT ![c] = [r EXCEPT !.pc = "done", !.reply = "ok"]] => Same
    BY <1>0, <1>1 DEF Call
  <2>2. \A rows : call' = [call EXCEPT ![c] = [r EXCEPT !.pc = "hallRead", !.rows = rows]] => Same
    BY <1>0, <1>1 DEF Call
  <2> QED
    BY <1>3, <1>14, <2>1, <2>2 DEF HallQuery, Fails, Becomes
<1>15. CASE HallRead(c)
  <2>1. \A shown, pc, reply :
          call' = [call EXCEPT ![c] = [r EXCEPT !.shown = shown, !.pc = pc, !.reply = reply]]
            => Same
    BY <1>0, <1>1 DEF Call
  <2> QED
    BY <1>15, <2>1 DEF HallRead, Becomes
<1>16. CASE Read(c)
  <2> DEFINE d == Decided(r.request, "spectator.read")
             forms == [f \in FieldsOf("spectator") |-> SpectatorForm(d, f)]
  <2> HIDE DEF forms
  <2>1. PICK k \in r.rows, pc \in {"decrypt", "mask"} :
          Becomes(c, [r EXCEPT !.id = k, !.forms = forms, !.pc = pc])
    BY <1>16 DEF Read, forms
  <2>2. [r EXCEPT !.id = k, !.forms = forms, !.pc = pc].request = r.request
    BY <1>0 DEF Call
  <2> QED
    BY <1>1, <2>1, <2>2 DEF Becomes
<1>17. CASE Decrypt(c) \/ Transit(c) \/ StorePlain(c)
  BY <1>2, <1>3, <1>5, <1>17 DEF Decrypt, Transit, StorePlain, HasText, Goes, Fails, Becomes
<1>18. CASE Mask(c)
  <2>1. \A shown, pc :
          call' = [call EXCEPT ![c] = [r EXCEPT !.shown = shown, !.id = NoId,
                                         !.forms = NothingShown, !.text = NoIdent, !.pc = pc]]
            => Same
    BY <1>0, <1>1 DEF Call
  <2> QED
    BY <1>18, <2>1 DEF Mask, Becomes
<1>19. CASE Audit(c) \/ DenyAudit(c)
  <2>1. \A reply :
          call' = [call EXCEPT ![c] = [r EXCEPT !.pc = "done", !.reply = reply, !.rows = {}]] => Same
    BY <1>0, <1>1 DEF Call
  <2>2. \A reply :
          call' = [call EXCEPT ![c] = [[r EXCEPT !.pc = "done", !.reply = reply, !.rows = {}]
                                         EXCEPT !.unlogged = TRUE]] => Same
    BY <1>0, <1>1 DEF Call
  <2> QED
    BY <1>19, <2>1, <2>2 DEF Audit, DenyAudit, Journal, Becomes
<1> QED
  BY <1>6, <1>7, <1>8, <1>9, <1>10, <1>11, <1>12, <1>13, <1>14, <1>15, <1>16, <1>17, <1>18, <1>19
  DEF Step

\* A step of a list of halls.
LEMMA ListNumbered ==
  ASSUME IInv, NEW c \in Calls, call[c].request.op = "hallList", Step(c), Numbered(call[c]),
         NEW s \in Call, call'[c] = s
  PROVE  Numbered(s)'
<1> DEFINE r == call[c]
<1>0. /\ call \in [Calls -> Call] /\ r \in Call /\ Good(c, r)
  BY StartOfStep
<1>1. HallQuery(c) \/ HallRead(c)
  <2>1. r.pc \in {"hallQuery", "hallRead", "idle", "done"}
    BY <1>0 DEF Good, Placed, Spectating, Showing, Call, PCs
  <2> QED
    BY <2>1 DEF Step, At, FindHall, Authorize, AuthorizeHall, Encrypt, GetPepper, ReadPepper,
       StorePepper, Insert, InsertInMemory, Query, HallInsert, Read, Decrypt, Transit,
       StorePlain, Mask, Audit, DenyAudit
<1>2. CASE HallQuery(c)
  <2>1. r.pc = "hallQuery" /\ r.shown = {}
    BY <1>0, <1>2 DEF HallQuery, At, Good, Gathered, Early
  <2>2. \A x : call' = [call EXCEPT ![c] = x] /\ x.shown = {} => s.shown = {}
    BY <1>0
  <2>3. /\ [r EXCEPT !.pc = "done", !.reply = "ok"].shown = {}
        /\ \A rows : [r EXCEPT !.pc = "hallRead", !.rows = rows].shown = {}
    BY <1>0, <2>1 DEF Call
  <2>4. Drop(r, "done", "error").shown = {}
    BY DEF Drop, Idle
  <2>5. s.shown = {}
    BY <1>2, <2>2, <2>3, <2>4 DEF HallQuery, Fails, Becomes
  <2> QED
    BY <2>5 DEF Numbered
<1>3. CASE HallRead(c)
  <2>1. r.on = process /\ UNCHANGED people /\ r.pc = "hallRead"
    BY <1>0, <1>3 DEF HallRead, At, Good, Bound, tables
  <2>2. PICK h :
          \E n \in Counts(TenantOf(r), h) : \E pc, reply :
            Becomes(c, [r EXCEPT !.shown = @ \cup {[hall |-> h, count |-> n]},
                                 !.pc = pc, !.reply = reply])
    BY <1>3 DEF HallRead, TenantOf
  <2>2a. PICK n \in Counts(TenantOf(r), h) : \E pc, reply :
            Becomes(c, [r EXCEPT !.shown = @ \cup {[hall |-> h, count |-> n]},
                                 !.pc = pc, !.reply = reply])
    BY <2>2
  <2> DEFINE t == [hall |-> h, count |-> n]
  <2>3. /\ s.shown = r.shown \cup {t} /\ s.request = r.request /\ s.on = r.on
        /\ s.before = r.before
    <3>1. PICK pc, reply : s = [r EXCEPT !.shown = @ \cup {t}, !.pc = pc, !.reply = reply]
      BY <1>0, <2>2a DEF Becomes
    <3> QED
      BY <1>0, <3>1 DEF Call
  <2>4. Here(s, h) = Here(r, h) /\ Known(s, h) = Known(r, h)
    BY <2>3 DEF Here, Known, TenantOf
  <2> SUFFICES ASSUME s.on.store = "postgres", NEW x \in s.shown, x.count # 0
               PROVE  x.count \in
                        Cardinality(Known(s, x.hall)')..Cardinality(Here(s, x.hall)')
    BY DEF Numbered
  <2>5. Here(s, x.hall)' = Here(r, x.hall) /\ Known(s, x.hall)' = Known(r, x.hall)
    BY <2>1, <2>3 DEF Here, Known, TenantOf
  <2>6. CASE x \in r.shown
    BY <2>1, <2>3, <2>5, <2>6 DEF Numbered
  <2>7. CASE x = t
    <3>1. n = Cardinality(Here(r, h))
      <4>1. Counts(TenantOf(r), h) = {0, Cardinality(Here(r, h))}
        BY <2>1, <2>3 DEF Counts, SpectatorsIn, Here
      <4> QED
        BY <2>7, <4>1
    <3>2. /\ Cardinality(Known(r, h)) \in Nat /\ Cardinality(Here(r, h)) \in Nat
          /\ Cardinality(Known(r, h)) <= Cardinality(Here(r, h))
      BY HereFinite DEF IInv, Shared
    <3> QED
      BY <2>5, <2>7, <3>1, <3>2
  <2> QED
    BY <2>3, <2>6, <2>7
<1> QED
  BY <1>1, <1>2, <1>3

LEMMA StepNumbered ==
  ASSUME IInv, AllNumbered, NEW c \in Calls, Step(c), IInv'
  PROVE  AllNumbered'
<1>0. /\ call \in [Calls -> Call] /\ call' \in [Calls -> Call] /\ call[c] \in Call
      /\ Finite /\ Finite'
  BY DEF IInv, TypeOK, Shared
<1>1. AddsOnly(c) /\ call[c].reply # "ok"
  BY StepAddsOnly
<1>2. \A x \in Calls \ {c} : call'[x] = call[x]
  BY AsksTheSame
<1> SUFFICES ASSUME NEW x \in Calls, NEW s \in Call, call'[x] = s PROVE Numbered(s)'
  BY DEF AllNumbered
<1>3. CASE x # c
  <2>1. call[x] = s
    BY <1>2, <1>3
  <2>2. Numbered(s)
    BY <2>1 DEF AllNumbered
  <2>3. c \notin s.before
    BY <1>1, <2>1, StartOfStep DEF Searched
  <2> QED
    BY <1>0, <1>1, <2>2, <2>3, NumberedStays
<1>4. CASE x = c
  <2>1. CASE call[c].request.op = "hallList"
    <3>1. Numbered(call[c])
      BY <1>0 DEF AllNumbered
    <3> QED
      BY <1>4, <2>1, <3>1, ListNumbered
  <2>2. CASE call[c].request.op # "hallList"
    <3>1. s.request = call[c].request
      BY <1>4, AsksTheSame
    <3> QED
      BY <2>2, <3>1 DEF Numbered
  <2> QED
    BY <2>1, <2>2
<1> QED
  BY <1>3, <1>4

LEMMA NextNumbered ==
  ASSUME IInv, AllNumbered, [Next]_vars, IInv'
  PROVE  AllNumbered'
<1>0. /\ call \in [Calls -> Call] /\ people = [t \in Stores |-> people[t]]
  BY DEF IInv, TypeOK
<1>1. ASSUME NEW c \in Calls, Step(c) PROVE AllNumbered'
  BY <1>1, StepNumbered
<1> SUFFICES ASSUME ~\E c \in Calls : Step(c), NEW x \in Calls, NEW s \in Call, call'[x] = s
             PROVE  Numbered(s)'
  BY <1>1 DEF AllNumbered
<1> DEFINE r == call[x]
<1>2. r \in Call /\ Numbered(r)
  BY <1>0 DEF AllNumbered
<1>3. CASE Restart
  <2>1. people'["postgres"] = people["postgres"]
    BY <1>0, <1>3 DEF Restart, Stores
  <2>2. s = r \/ s.shown = {}
    BY <1>3 DEF Restart, Drop, Idle
  <2> QED
    BY <1>2, <2>1, <2>2, NumberedSame
<1>4. CASE ~Restart
  <2>1. UNCHANGED people
    BY <1>4 DEF Next, Patch, ClearAll, Forget, Begin, BeginCreate, BeginSearch, BeginHallCreate,
                BeginHallList, Enters, vars, tables
  <2>2. \/ s.shown = {}
        \/ /\ s.pc = r.pc /\ s.request = r.request /\ s.on = r.on
           /\ s.shown = r.shown /\ s.before = r.before
    <3>1. CASE ClearAll \/ Forget \/ UNCHANGED vars
      BY <3>1 DEF ClearAll, Forget, vars
    <3>2. CASE Patch
      <4>1. s = r \/ s = [r EXCEPT !.seen = @ \cup {mode'}]
        BY <1>0, <3>2 DEF Patch
      <4> QED
        BY <1>2, <4>1 DEF Call
    <3>3. ASSUME NEW c \in Calls, NEW rq \in Requests, NEW op, NEW pc, Enters(c, rq, op, pc)
          PROVE  s = r \/ s.shown = {}
      <4> DEFINE seen == IF op \in Spectating THEN {mode} ELSE {}
                 before == IF op \in {"search", "hallList"} THEN Acknowledged ELSE {}
                 refused == [Idle EXCEPT !.pc = "done", !.request = rq, !.reply = "invalid"]
                 begun == [Idle EXCEPT !.pc = pc, !.request = rq, !.on = process,
                                       !.seen = seen, !.before = before]
      <4>1. Becomes(c, refused) \/ Becomes(c, begun)
        BY <3>3 DEF Enters
      <4>2. refused.shown = {} /\ begun.shown = {}
        BY DEF Idle
      <4> HIDE DEF refused, begun
      <4>3. PICK t : call' = [call EXCEPT ![c] = t] /\ t.shown = {}
        BY <4>1, <4>2 DEF Becomes
      <4>4. x = c => s = t
        BY <1>0, <4>3
      <4>5. x # c => s = r
        BY <1>0, <4>3
      <4> QED
        BY <4>3, <4>4, <4>5
    <3>4. ASSUME NEW c \in Calls, NEW rq \in Requests, Begin(c, rq)
          PROVE  s = r \/ s.shown = {}
      BY <3>3, <3>4 DEF Begin, BeginCreate, BeginSearch, BeginHallCreate, BeginHallList
    <3> QED
      BY <1>4, <3>1, <3>2, <3>4 DEF Next
  <2> QED
    BY <1>2, <2>1, <2>2, NumberedSame
<1> QED
  BY <1>3, <1>4

\* The number of spectators a list of halls shows is a number there was during
\* the call, or the zero of a failed count: at least those whose creation was
\* acknowledged before the call began, and no more than there are.
THEOREM CountsAreReal ==
  Spec => []CountsReal
<1>1. Init => AllNumbered
  BY DEF Init, AllNumbered, Numbered, Idle
<1>2. IInv /\ AllNumbered /\ [Next]_vars => (IInv /\ AllNumbered)'
  BY NextIInv, NextNumbered
<1>3. IInv /\ AllNumbered => CountsReal
  <2> SUFFICES ASSUME IInv, AllNumbered, NEW c \in Calls, Answered(c, "hallList"),
                      call[c].on.store = "postgres", NEW s \in call[c].shown, s.count # 0
               PROVE  LET now == Here(call[c], s.hall)
                          known == Known(call[c], s.hall)
                      IN  s.count \in Cardinality(known)..Cardinality(now)
    BY DEF CountsReal, Here, Known, TenantOf
  <2>1. Numbered(call[c])
    BY StartOfStep DEF AllNumbered
  <2> QED
    BY <2>1 DEF Numbered, Answered, At
<1>4. Init => IInv
  BY InitIInv
<1> QED
  BY <1>1, <1>2, <1>3, <1>4, PTL DEF Spec

-----------------------------------------------------------------------------
(* The rows the journal does not know.  Accounted says of every row a call *)
(* has put into PostgreSQL that the journal names it, or why it does not.  *)

Explained(k, c, r) ==
  \/ \E e \in audit : e.id = k
  \/ r.pc \in Showing \cup {"audit"} /\ r.request.op = "create" /\ k = KeyOf(c, r)
  \/ r.pc = "done" /\ (r.reply \in {"error", "lost"} \/ (r.reply = "ok" /\ r.unlogged))

Accounted ==
  \A c \in Calls, k \in DOMAIN people["postgres"], r \in Call :
    call[c] = r /\ k[2] = c => Explained(k, c, r)

\* The journal never loses an entry.
LEMMA JournalGrows ==
  ASSUME NEW c, Step(c)
  PROVE  audit \subseteq audit'
<1>1. CASE FindHall(c) \/ Authorize(c) \/ AuthorizeHall(c) \/ Encrypt(c) \/ GetPepper(c)
  BY <1>1 DEF FindHall, Authorize, AuthorizeHall, Encrypt, GetPepper
<1>2. CASE ReadPepper(c) \/ StorePepper(c) \/ Insert(c) \/ InsertInMemory(c) \/ Query(c)
  BY <1>2 DEF ReadPepper, StorePepper, Insert, InsertInMemory, Query
<1>3. CASE HallInsert(c) \/ HallQuery(c) \/ Decrypt(c) \/ Transit(c) \/ StorePlain(c)
  BY <1>3 DEF HallInsert, HallQuery, Decrypt, Transit, StorePlain
<1>4. CASE HallRead(c)
  BY <1>4 DEF HallRead
<1>5. CASE Read(c)
  BY <1>5 DEF Read
<1>6. CASE Mask(c)
  BY <1>6 DEF Mask
<1>7. CASE Audit(c) \/ DenyAudit(c)
  BY <1>7 DEF Audit, DenyAudit, Journal
<1> QED
  BY <1>1, <1>2, <1>3, <1>4, <1>5, <1>6, <1>7 DEF Step

\* A creation that has its row goes on towards its answer, or fails.
LEMMA ShowingGoesOn ==
  ASSUME IInv, NEW c \in Calls, Step(c), NEW s \in Call, call'[c] = s,
         call[c].pc \in Showing \cup {"audit"}, call[c].request.op = "create"
  PROVE  \/ s.pc \in Showing \cup {"audit"}
         \/ s.pc = "done" /\ (s.reply = "error" \/ (s.reply = "ok" /\ s.unlogged))
         \/ \E e \in audit' : e.id = KeyOf(c, call[c])
<1> DEFINE r == call[c]
           Onward(x) == \/ x.pc \in Showing \cup {"audit"}
                        \/ x.pc = "done" /\ (x.reply = "error" \/ (x.reply = "ok" /\ x.unlogged))
<1>0. call \in [Calls -> Call] /\ r \in Call
  BY StartOfStep
<1>1. \A x : call' = [call EXCEPT ![c] = x] => s = x
  BY <1>0
<1>2. Read(c) \/ Decrypt(c) \/ Transit(c) \/ StorePlain(c) \/ Mask(c) \/ Audit(c)
  BY DEF Step, At, FindHall, Authorize, AuthorizeHall, Encrypt, GetPepper, ReadPepper,
     StorePepper, Insert, InsertInMemory, Query, HallInsert, HallQuery, HallRead,
     DenyAudit, Showing
<1>2a. ASSUME NEW t, Becomes(c, t), t.pc \in Showing \cup {"audit"} PROVE Onward(s)
  BY <1>1, <1>2a DEF Becomes
<1>3. ASSUME NEW pc \in Showing, Goes(c, pc) PROVE Onward(s)
  <2>1. PICK t : t = [r EXCEPT !.pc = pc]
    OBVIOUS
  <2>2. t.pc = pc
    BY <1>0, <2>1 DEF Call
  <2> QED
    BY <1>2a, <1>3, <2>1, <2>2 DEF Goes
<1>4. ASSUME NEW pc \in Showing, HasText(c, pc) PROVE Onward(s)
  <2>1. PICK t : t = [r EXCEPT !.text = Plaintext(process.client, Cipher(c)), !.pc = pc]
    OBVIOUS
  <2>2. t.pc = pc
    BY <1>0, <2>1 DEF Call
  <2> QED
    BY <1>2a, <1>4, <2>1, <2>2 DEF HasText
<1>4a. ASSUME Fails(c) PROVE Onward(s)
  <2>1. PICK t : t = Drop(r, "done", "error")
    OBVIOUS
  <2>2. t.pc = "done" /\ t.reply = "error"
    BY <2>1 DEF Drop, Idle
  <2>3. s = t
    BY <1>1, <1>4a, <2>1 DEF Fails, Becomes
  <2> QED
    BY <2>2, <2>3
<1>5. CASE Read(c)
  <2> DEFINE d == Decided(r.request, "spectator.read")
             forms == [f \in FieldsOf("spectator") |-> SpectatorForm(d, f)]
  <2> HIDE DEF forms
  <2>1. PICK k \in r.rows, pc \in {"decrypt", "mask"} :
          Becomes(c, [r EXCEPT !.id = k, !.forms = forms, !.pc = pc])
    BY <1>5 DEF Read, forms
  <2>2. PICK t : t = [r EXCEPT !.id = k, !.forms = forms, !.pc = pc]
    OBVIOUS
  <2>3. t.pc = pc
    BY <1>0, <2>2 DEF Call
  <2> QED
    BY <1>2a, <2>1, <2>2, <2>3 DEF Showing
<1>6. CASE Decrypt(c) \/ Transit(c) \/ StorePlain(c)
  <2>0. {"mask", "transit", "storePlain"} \subseteq Showing
    BY DEF Showing
  <2> HIDE DEF Onward
  <2> QED
    <3>1. Onward(s)
      BY <1>3, <1>4, <1>4a, <1>6, <2>0 DEF Decrypt, Transit, StorePlain
    <3> QED
      BY <3>1 DEF Onward
<1>7. CASE Mask(c)
  <2>1. PICK shown : \E pc \in {"audit", "read"} :
          Becomes(c, [r EXCEPT !.shown = shown, !.id = NoId, !.forms = NothingShown,
                               !.text = NoIdent, !.pc = pc])
    BY <1>7 DEF Mask
  <2>2. PICK pc \in {"audit", "read"} :
          Becomes(c, [r EXCEPT !.shown = shown, !.id = NoId, !.forms = NothingShown,
                               !.text = NoIdent, !.pc = pc])
    BY <2>1
  <2>3. PICK t : t = [r EXCEPT !.shown = shown, !.id = NoId, !.forms = NothingShown,
                               !.text = NoIdent, !.pc = pc]
    OBVIOUS
  <2>4. t.pc = pc
    BY <1>0, <2>3 DEF Call
  <2> QED
    BY <1>2a, <2>2, <2>3, <2>4 DEF Showing
<1>8. CASE Audit(c)
  <2> DEFINE entry == [call |-> c, outcome |-> "allow", touched |-> Touched(r),
                       id |-> KeyOf(c, r)]
             done == [r EXCEPT !.pc = "done", !.reply = "ok", !.rows = {}]
  <2>1. \/ audit' = audit \cup {entry}
        \/ Becomes(c, [done EXCEPT !.unlogged = TRUE])
    BY <1>8 DEF Audit, Journal, KeyOf, TenantOf
  <2>2. [done EXCEPT !.unlogged = TRUE].pc = "done" /\ [done EXCEPT !.unlogged = TRUE].reply = "ok"
        /\ [done EXCEPT !.unlogged = TRUE].unlogged
    BY <1>0 DEF Call
  <2>3. entry.id = KeyOf(c, r)
    OBVIOUS
  <2> HIDE DEF entry, done
  <2> QED
    BY <1>1, <2>1, <2>2, <2>3 DEF Becomes
<1> QED
  BY <1>2, <1>5, <1>6, <1>7, <1>8

\* A new row is that of a creation that goes on to its answer, or fails.
LEMMA NewRowSeated ==
  ASSUME IInv, NEW c \in Calls, Step(c), NEW s \in Call, call'[c] = s,
         NEW k \in DOMAIN people'["postgres"], k \notin DOMAIN people["postgres"]
  PROVE  Explained(k, c, s)'
<1> DEFINE r == call[c]
<1>0. call \in [Calls -> Call] /\ r \in Call /\ Good(c, r)
  BY StartOfStep
<1>1. r.pc = "insert" /\ Inserts(c) /\ (Seated(c) \/ Fails(c))
  BY StepAddsOnly DEF Insert, InsertInMemory, At
<1>2. k = KeyOf(c, r) /\ r.request.op = "create"
  <2>1. /\ \A t \in Stores \ {process.store} : people'[t] = people[t]
        /\ DOMAIN people'[process.store] = DOMAIN people[process.store] \cup {KeyOf(c, r)}
    BY <1>1, InsertsRow
  <2> QED
    BY <1>0, <1>1, <2>1 DEF Stores, Good, Placed
<1>3. CASE Seated(c)
  <2>1. \A rows : /\ [r EXCEPT !.pc = "read", !.pepper = NoPepper, !.rows = rows].pc = "read"
                  /\ [r EXCEPT !.pc = "read", !.pepper = NoPepper, !.rows = rows].request
                       = r.request
    BY <1>0 DEF Call
  <2>2. s.pc = "read" /\ s.request = r.request
    BY <1>0, <1>3, <2>1 DEF Seated, Becomes
  <2> QED
    BY <1>2, <2>2 DEF Explained, Showing, KeyOf, TenantOf
<1>4. CASE Fails(c)
  <2>1. s.pc = "done" /\ s.reply = "error"
    BY <1>0, <1>4 DEF Fails, Becomes, Drop, Idle
  <2> QED
    BY <2>1 DEF Explained
<1> QED
  BY <1>1, <1>3, <1>4

LEMMA StepAccounted ==
  ASSUME IInv, Accounted, NEW c \in Calls, Step(c)
  PROVE  Accounted'
<1> SUFFICES ASSUME NEW x \in Calls, NEW k \in DOMAIN people'["postgres"], NEW s \in Call,
                    call'[x] = s, k[2] = x
             PROVE  Explained(k, x, s)'
  BY DEF Accounted
<1> DEFINE r == call[c]
<1>0. /\ AddsOnly(c) /\ r.pc # "done" /\ r \in Call
      /\ \A y \in Calls \ {c} : call'[y] = call[y]
      /\ call'[c].request = r.request /\ audit \subseteq audit'
  BY StepAddsOnly, AsksTheSame, JournalGrows, StartOfStep
<1>1. CASE x # c
  <2>1. k \in DOMAIN people["postgres"] /\ call[x] = s
    BY <1>0, <1>1 DEF AddsOnly
  <2> QED
    BY <1>0, <2>1 DEF Accounted, Explained
<1>2. CASE x = c /\ k \in DOMAIN people["postgres"]
  <2>1. Explained(k, c, r)
    BY <1>0, <1>2 DEF Accounted
  <2>2. CASE \E e \in audit : e.id = k
    BY <1>0, <2>2 DEF Explained
  <2>3. CASE r.pc \in Showing \cup {"audit"} /\ r.request.op = "create" /\ k = KeyOf(c, r)
    <3>1. \/ s.pc \in Showing \cup {"audit"}
          \/ s.pc = "done" /\ (s.reply = "error" \/ (s.reply = "ok" /\ s.unlogged))
          \/ \E e \in audit' : e.id = KeyOf(c, r)
      BY <1>2, <2>3, ShowingGoesOn
    <3>2. KeyOf(c, s) = KeyOf(c, r) /\ s.request.op = "create"
      BY <1>0, <1>2, <2>3 DEF KeyOf, TenantOf
    <3> QED
      BY <1>2, <2>3, <3>1, <3>2 DEF Explained
  <2> QED
    BY <1>0, <2>1, <2>2, <2>3 DEF Explained
<1>3. CASE x = c /\ k \notin DOMAIN people["postgres"]
  BY <1>3, NewRowSeated
<1> QED
  BY <1>1, <1>2, <1>3

\* What is left of a call by everything that is not a step of it.
LEMMA NextAccounted ==
  ASSUME IInv, Accounted, [Next]_vars
  PROVE  Accounted'
<1>0. /\ call \in [Calls -> Call] /\ people = [t \in Stores |-> people[t]]
  BY DEF IInv, TypeOK
<1>1. ASSUME NEW c \in Calls, Step(c) PROVE Accounted'
  BY <1>1, StepAccounted
<1> SUFFICES ASSUME ~\E c \in Calls : Step(c),
                    NEW x \in Calls, NEW k \in DOMAIN people'["postgres"], NEW s \in Call,
                    call'[x] = s, k[2] = x
             PROVE  Explained(k, x, s)'
  BY <1>1 DEF Accounted
<1> DEFINE r == call[x]
<1>2. people'["postgres"] = people["postgres"] /\ UNCHANGED audit
  BY <1>0 DEF Next, Patch, ClearAll, Forget, Restart, Begin, BeginCreate, BeginSearch,
     BeginHallCreate, BeginHallList, Enters, vars, tables, Stores
<1>3. r \in Call /\ Good(x, r) /\ Explained(k, x, r)
  BY <1>0, <1>2, StartOfStep DEF Accounted
<1>4. r.pc # "idle"
  BY <1>2, <1>3 DEF Good, Written, Stores
<1>5. CASE Restart
  <2>1. s = r \/ (s.pc = "done" /\ s.reply = "lost")
    BY <1>5 DEF Restart, Drop, Idle
  <2> QED
    BY <1>2, <1>3, <2>1 DEF Explained
<1>6. CASE ~Restart
  <2>1. /\ s.pc = r.pc /\ s.request = r.request /\ s.reply = r.reply
        /\ s.unlogged = r.unlogged
    <3>1. CASE ClearAll \/ Forget \/ UNCHANGED vars
      BY <3>1 DEF ClearAll, Forget, vars
    <3>2. CASE Patch
      <4>1. s = r \/ s = [r EXCEPT !.seen = @ \cup {mode'}]
        BY <1>0, <3>2 DEF Patch
      <4> QED
        BY <1>3, <4>1 DEF Call
    <3>3. ASSUME NEW c \in Calls, NEW rq \in Requests, NEW op, NEW pc, Enters(c, rq, op, pc)
          PROVE  s = r
      <4>1. c # x
        BY <1>4, <3>3 DEF Enters, At
      <4> QED
        BY <1>0, <3>3, <4>1 DEF Enters, Becomes
    <3>4. ASSUME NEW c \in Calls, NEW rq \in Requests, Begin(c, rq)
          PROVE  s = r
      BY <3>3, <3>4 DEF Begin, BeginCreate, BeginSearch, BeginHallCreate, BeginHallList
    <3> QED
      BY <1>6, <3>1, <3>2, <3>4 DEF Next
  <2> QED
    BY <1>2, <1>3, <2>1 DEF Explained, KeyOf, TenantOf
<1> QED
  BY <1>5, <1>6

\* The journal of a process with a database (writeAuditLog) has every creation
\* and search that was answered or refused, unless writing it failed, with the
\* forms a creation showed and none for a search; it names no spectator that is
\* not in the table; and a spectator it does not name is of a call that still
\* runs, that was answered without a journal, or that ended in an error or with
\* its process.
THEOREM JournalTruthful ==
  Spec => []JournalAgrees
<1>1. Init => Accounted
  <2>1. ASSUME Init, NEW k \in DOMAIN people["postgres"] PROVE k[2] \notin Calls
    BY <2>1, SpectatorAssumption DEF Init
  <2> QED
    BY <2>1 DEF Accounted
<1>2. IInv /\ Accounted /\ [Next]_vars => (IInv /\ Accounted)'
  BY NextIInv, NextAccounted
<1>3. IInv /\ Accounted => JournalAgrees
  <2> SUFFICES ASSUME IInv, Accounted PROVE JournalAgrees
    OBVIOUS
  <2>1. ASSUME NEW c \in Calls, At(c, "done"), call[c].reply \in {"ok", "forbidden"},
               ~call[c].unlogged, call[c].request.op \in Spectating
        PROVE  \E e \in audit :
                 /\ e.call = c
                 /\ e.outcome = (IF call[c].reply = "ok" THEN "allow" ELSE "deny")
                 /\ e.touched = Reported(call[c])
    <3>1. Good(c, call[c])
      BY StartOfStep
    <3> QED
      BY <2>1, <3>1 DEF Good, Logged, At
  <2>2. JournalKeyed
    BY DEF IInv, Shared
  <2>3. ASSUME NEW k \in DOMAIN people["postgres"], k[2] \in Calls, \A e \in audit : e.id # k
        PROVE  \/ Running(k[2])
               \/ call[k[2]].reply \in {"error", "lost"}
               \/ call[k[2]].reply = "ok" /\ call[k[2]].unlogged
    <3>1. Explained(k, k[2], call[k[2]])
      BY <2>3, StartOfStep DEF Accounted
    <3> QED
      BY <2>3, <3>1 DEF Explained, Running, Showing
  <2> QED
    BY <2>1, <2>2, <2>3 DEF JournalAgrees, JournalKeyed, Reported
<1>4. Init => IInv
  BY InitIInv
<1> QED
  BY <1>1, <1>2, <1>3, <1>4, PTL DEF Spec
=============================================================================
