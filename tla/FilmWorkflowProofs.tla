--------------------------- MODULE FilmWorkflowProofs ---------------------------
(***************************************************************************)
(* Whatever fails between Vault, the database and the journal, and whenever*)
(* the server stops: the journal tells the truth, every answer is in it,   *)
(* no film holds anything but what an authorised call of its own tenant    *)
(* wrote, and the service keeps the promise of FilmLedger.                 *)
(***************************************************************************)
EXTENDS FilmWorkflow, DcsPolicyProofs

-----------------------------------------------------------------------------
(* The enforcer.                                                           *)

\* Whichever decision the enforcer takes, its verdict is that of the policy.
LEMMA VerdictOfDecision ==
  ASSUME NEW p, NEW action, NEW d \in DecisionsFor(p, action)
  PROVE  /\ d.allow = Verdict(action, p.role).allow
         /\ d.allow \in BOOLEAN
<1>1. PICK m : d \in Decisions(FilmInput(p, action, m))
  BY DEF DecisionsFor
<1> DEFINE in == FilmInput(p, action, m)
<1>2. PICK dcs \in BOOLEAN : d = Evaluate(dcs, in)
  BY <1>1 DEF Decisions
<1>3. /\ in.principal.tenant = in.tenant
      /\ in.action = action /\ in.principal = p
  BY DEF FilmInput
<1>4. Evaluate(dcs, in).allow = AllowWithoutDCS(in.action, in.principal.role)
  BY <1>3, ModeNeverChangesAllow
<1>5. d.allow = AllowWithoutDCS(action, p.role)
  BY <1>2, <1>3, <1>4
<1>6. AllowWithoutDCS(action, p.role) \in BOOLEAN
  BY DEF AllowWithoutDCS
<1>7. Verdict(action, p.role).allow = AllowWithoutDCS(action, p.role)
  BY VerdictAgreement
<1> QED
  BY <1>5, <1>6, <1>7, Zenon

LEMMA ReadFormsType ==
  ASSUME NEW p
  PROVE  ReadForms(p) \subseteq Forms
BY FormsType DEF ReadForms

-----------------------------------------------------------------------------
(* One call.                                                               *)

\* What holds of the local variables of a call, wherever it stands.
Identified(r) ==
  /\ r.pc = "idle" <=> r.request = NoRequest
  /\ r.pc = "idle" => ~r.wrote
  /\ r.wrote => Changes(r) /\ Allowed(r.request) /\ r.id \in Ids

Placed(r) ==
  /\ r.pc \in {"authorize", "encrypt", "write", "denyPerf", "denyAudit"} =>
       Changes(r) /\ ~r.wrote /\ r.id = r.request.id
  /\ r.pc \in {"encrypt", "write"} => Allowed(r.request)
  /\ r.pc = "written" => r.wrote
  /\ r.pc = "query" => r.request.op = "list"
  /\ r.pc \in {"read", "audit", "perf"} => (Changes(r) => r.wrote)

Displayed(r) ==
  /\ r.pc = "idle" => r.rows = {}
  /\ r.pc \in {"idle", "authorize", "encrypt", "write", "written", "query",
               "denyPerf", "denyAudit"} => r.shown = {}
  /\ r.pc = "read" => RowsShown(r) \subseteq r.rows
  /\ r.pc \in {"audit", "perf"} => RowsShown(r) = r.rows

Replied(r) ==
  /\ r.pc \notin {"denyPerf", "denyAudit", "done"} => r.reply = "none"
  /\ r.pc = "denyPerf" => r.reply \in {"forbidden", "error"}
  /\ r.pc = "denyAudit" => r.reply = "forbidden"
  /\ r.pc = "done" => r.reply # "none"
  /\ r.reply = "forbidden" => Changes(r) /\ ~Allowed(r.request) /\ ~r.wrote
  /\ r.reply = "ok" => RowsShown(r) = r.rows /\ (Changes(r) => r.wrote)
  /\ r.reply \notin {"none", "ok"} => r.shown = {}
  /\ r.reply = "notfound" => r.request.op = "update"

Good(r) == Identified(r) /\ Placed(r) /\ Displayed(r) /\ Replied(r)

\* What no step takes from a call: what it wrote; and, once it has passed the
\* journal, what the journal says of it.
Keeps(r, s) ==
  /\ r.wrote => s.wrote /\ s.request = r.request /\ s.id = r.id
  /\ r.pc = "done" => s = r
  /\ r.pc = "perf" =>
       \/ s = r
       \/ /\ s.pc = "done" /\ s.reply \in {"ok", "lost"}
          /\ s.request = r.request /\ s.id = r.id /\ s.wrote = r.wrote
          /\ s.unlogged = r.unlogged /\ (s.reply = "ok" => s.shown = r.shown)

AllGood == \A c \in Calls : Good(call[c])

AllKept == \A c \in Calls : Keeps(call[c], call'[c])

\* A step of one call.
Moves(c) == \E r \in Call : Becomes(c, r) /\ Good(r) /\ Keeps(call[c], r)

LEMMA BecomesFrame ==
  ASSUME call \in [Calls -> Call], NEW c \in Calls, NEW r \in Call, Becomes(c, r)
  PROVE  /\ call' \in [Calls -> Call]
         /\ call'[c] = r
         /\ \A x \in Calls \ {c} : call'[x] = call[x]
BY DEF Becomes

LEMMA KeepsItself ==
  ASSUME NEW r \in Call
  PROVE  Keeps(r, r)
BY DEF Keeps, Call

LEMMA MovesFrame ==
  ASSUME call \in [Calls -> Call], AllGood, NEW c \in Calls, Moves(c)
  PROVE  /\ call' \in [Calls -> Call]
         /\ AllGood'
         /\ AllKept
<1>1. PICK r \in Call : Becomes(c, r) /\ Good(r) /\ Keeps(call[c], r)
  BY DEF Moves
<1>2. /\ call' \in [Calls -> Call]
      /\ call'[c] = r
      /\ \A x \in Calls \ {c} : call'[x] = call[x]
  BY <1>1, BecomesFrame
<1>3. ASSUME NEW x \in Calls PROVE Good(call'[x]) /\ Keeps(call[x], call'[x])
  BY <1>1, <1>2, KeepsItself DEF AllGood
<1>4. AllGood'
  BY <1>3, SMTT(30)
  DEF AllGood, Good, Identified, Placed, Displayed, Replied, RowsShown, Changes, Allowed
<1> QED
  BY <1>2, <1>3, <1>4 DEF AllKept

LEMMA RequestType ==
  ASSUME NEW rq \in Requests
  PROVE  /\ rq.op \in Ops /\ rq.principal \in Principals
         /\ rq.id \in Ids \cup {NoId} /\ rq.time \in Times
         /\ rq # NoRequest
         /\ rq.op = "update" => rq.id \in Ids
BY WorkflowAssumption

-----------------------------------------------------------------------------
(* Each step of a call is a move.                                          *)

\* The call a step starts from.
LEMMA StartOfStep ==
  ASSUME call \in [Calls -> Call], AllGood, NEW c \in Calls
  PROVE  /\ call[c] \in Call /\ Good(call[c])
         /\ ~At(c, "idle") => call[c].request \in Requests
BY DEF AllGood, Good, Identified, At, Call

\* A record whose shown rows are gone or as they were.
LEMMA NoRowsShown ==
  ASSUME NEW r, r.shown = {}
  PROVE  RowsShown(r) = {}
BY DEF RowsShown

LEMMA BeginMoves ==
  ASSUME call \in [Calls -> Call], AllGood, NEW c \in Calls, NEW rq \in Requests, Begin(c, rq)
  PROVE  Moves(c)
<1> DEFINE s == [Idle EXCEPT !.pc = IF rq.op = "list" THEN "query" ELSE "authorize",
                             !.request = rq, !.id = rq.id]
<1>1. /\ s.pc = IF rq.op = "list" THEN "query" ELSE "authorize"
      /\ s.request = rq /\ s.id = rq.id /\ s.rows = {} /\ s.shown = {}
      /\ s.reply = "none" /\ s.wrote = FALSE
      /\ s \in Call
  BY RequestType DEF Idle, Call, PCs, Replies
<1>2. Good(s)
  <2>1. Identified(s)
    BY <1>1, RequestType DEF Identified
  <2>2. Placed(s)
    BY <1>1, RequestType DEF Placed, Changes, Ops
  <2>3. Displayed(s) /\ Replied(s)
    BY <1>1 DEF Displayed, Replied
  <2> QED
    BY <2>1, <2>2, <2>3 DEF Good
<1>3. Keeps(call[c], s)
  BY StartOfStep DEF Begin, At, Keeps, Good, Identified
<1> QED
  BY <1>1, <1>2, <1>3 DEF Begin, Moves

\* A call that only goes on.
LEMMA GoesMoves ==
  ASSUME call \in [Calls -> Call], AllGood, NEW c \in Calls, NEW pc \in PCs,
         call[c].pc \notin {"idle", "perf", "done"}, Goes(c, pc), pc # "idle",
         LET s == [call[c] EXCEPT !.pc = pc] IN Placed(s) /\ Displayed(s) /\ Replied(s)
  PROVE  Moves(c)
<1> DEFINE r == call[c]
           s == [call[c] EXCEPT !.pc = pc]
<1>0. r \in Call /\ Good(r)
  BY StartOfStep
<1>1. /\ s.pc = pc /\ s.request = r.request /\ s.id = r.id /\ s.wrote = r.wrote
      /\ s \in Call
  BY <1>0 DEF Call
<1>2. Good(s)
  BY <1>0, <1>1 DEF Good, Identified, Changes
<1>3. Keeps(r, s)
  BY <1>1 DEF Keeps
<1> QED
  BY <1>1, <1>2, <1>3 DEF Goes, Moves

\* A call that ends in an error.
LEMMA EndsMoves ==
  ASSUME call \in [Calls -> Call], AllGood, NEW c \in Calls,
         NEW reply \in {"error", "notfound", "lost"},
         call[c].pc \notin {"idle", "done"}, Ends(c, reply),
         reply = "notfound" => call[c].request.op = "update",
         call[c].pc = "perf" => reply = "lost"
  PROVE  Moves(c)
<1> DEFINE r == call[c]
           s == [call[c] EXCEPT !.pc = "done", !.reply = reply, !.shown = {}]
<1>0. r \in Call /\ Good(r)
  BY StartOfStep
<1>1. /\ s.pc = "done" /\ s.request = r.request /\ s.id = r.id /\ s.wrote = r.wrote
      /\ s.reply = reply /\ s.shown = {} /\ s.unlogged = r.unlogged
      /\ s \in Call
  BY <1>0 DEF Call, PCs, Replies
<1>2. Good(s)
  BY <1>0, <1>1 DEF Good, Identified, Placed, Displayed, Replied, Changes
<1>3. Keeps(r, s)
  BY <1>1 DEF Keeps
<1> QED
  BY <1>1, <1>2, <1>3 DEF Ends, Moves

LEMMA AuthorizeMoves ==
  ASSUME call \in [Calls -> Call], AllGood, NEW c \in Calls, Authorize(c)
  PROVE  Moves(c)
<1> DEFINE r == call[c]
           rq == r.request
<1>0. r \in Call /\ Good(r) /\ rq \in Requests /\ r.pc = "authorize"
  BY StartOfStep DEF Authorize, At
<1>1. PICK d \in DecisionsFor(rq.principal, ActionOf[rq.op]) :
        \/ d.allow /\ Goes(c, "encrypt")
        \/ /\ ~d.allow
           /\ Becomes(c, [r EXCEPT
                            !.pc = IF rq.op = "create" THEN "denyPerf" ELSE "denyAudit",
                            !.reply = "forbidden"])
  BY DEF Authorize
<1>2. Allowed(rq) = d.allow /\ d.allow \in BOOLEAN
  BY VerdictOfDecision DEF Allowed
<1>3. CASE d.allow
  <2>1. Goes(c, "encrypt") /\ Allowed(rq)
    BY <1>1, <1>2, <1>3
  <2>2. LET s == [r EXCEPT !.pc = "encrypt"] IN Placed(s) /\ Displayed(s) /\ Replied(s)
    BY <1>0, <2>1 DEF Good, Placed, Displayed, Replied, Changes, Call, RowsShown
  <2> QED
    BY <1>0, <2>1, <2>2, GoesMoves DEF PCs
<1>4. CASE ~d.allow
  <2> DEFINE s == [r EXCEPT !.pc = IF rq.op = "create" THEN "denyPerf" ELSE "denyAudit",
                            !.reply = "forbidden"]
  <2>1. Becomes(c, s) /\ ~Allowed(rq)
    BY <1>1, <1>2, <1>4
  <2>2. /\ s.pc \in {"denyPerf", "denyAudit"} /\ s.reply = "forbidden"
        /\ s.request = rq /\ s.id = r.id /\ s.wrote = r.wrote /\ s.shown = r.shown
        /\ s.rows = r.rows /\ s \in Call
    BY <1>0 DEF Call, PCs, Replies
  <2>3. Good(s)
    BY <1>0, <2>1, <2>2 DEF Good, Identified, Placed, Displayed, Replied, Changes
  <2>4. Keeps(r, s)
    BY <1>0, <2>2 DEF Keeps
  <2> QED
    BY <2>1, <2>2, <2>3, <2>4 DEF Moves
<1> QED
  BY <1>2, <1>3, <1>4

LEMMA EncryptMoves ==
  ASSUME call \in [Calls -> Call], AllGood, NEW c \in Calls, Encrypt(c)
  PROVE  Moves(c)
<1> DEFINE r == call[c]
<1>0. r \in Call /\ Good(r) /\ r.request \in Requests /\ r.pc = "encrypt"
  BY StartOfStep DEF Encrypt, At
<1>1. CASE Goes(c, "write")
  <2>1. LET s == [r EXCEPT !.pc = "write"] IN Placed(s) /\ Displayed(s) /\ Replied(s)
    BY <1>0 DEF Good, Placed, Displayed, Replied, Changes, Call, RowsShown
  <2> QED
    BY <1>0, <1>1, <2>1, GoesMoves DEF PCs
<1>2. CASE Becomes(c, [r EXCEPT !.pc = "denyPerf", !.reply = "error"])
  <2> DEFINE s == [r EXCEPT !.pc = "denyPerf", !.reply = "error"]
  <2>1. /\ s.pc = "denyPerf" /\ s.reply = "error" /\ s.request = r.request
        /\ s.id = r.id /\ s.wrote = r.wrote /\ s.shown = r.shown /\ s \in Call
    BY <1>0 DEF Call, PCs, Replies
  <2>2. Good(s)
    BY <1>0, <2>1 DEF Good, Identified, Placed, Displayed, Replied, Changes
  <2>3. Keeps(r, s)
    BY <1>0, <2>1 DEF Keeps
  <2> QED
    BY <1>2, <2>1, <2>2, <2>3 DEF Moves
<1>3. CASE Ends(c, "error")
  BY <1>0, <1>3, EndsMoves
<1> QED
  BY <1>1, <1>2, <1>3 DEF Encrypt

\* The rows a creation or an update may write are those of its own tenant.
LEMMA WriteMoves ==
  ASSUME TypeOK, AllGood, NEW c \in Calls, Write(c)
  PROVE  /\ Moves(c)
         /\ \E id \in Ids :
              LET rq == call[c].request
                  key == <<rq.principal.tenant, id>> IN
              /\ IF rq.op = "create" THEN key \notin DOMAIN films
                                     ELSE key \in DOMAIN films /\ id = rq.id
              /\ films' = [k \in DOMAIN films \cup {key} |->
                             IF k = key THEN rq.time ELSE films[k]]
              /\ Becomes(c, [call[c] EXCEPT !.pc = "written", !.id = id, !.wrote = TRUE,
                                            !.rows = {[id |-> id, time |-> rq.time]}])
<1> DEFINE r == call[c]
           rq == r.request
<1>0. call \in [Calls -> Call] /\ r \in Call /\ Good(r) /\ rq \in Requests /\ r.pc = "write"
  BY StartOfStep DEF Write, At, TypeOK
<1>1. PICK k \in IF rq.op = "create" THEN FreshKeys(rq) ELSE FilmsNamed(rq) :
        /\ films' = [x \in DOMAIN films \cup {k} |-> IF x = k THEN rq.time ELSE films[x]]
        /\ Becomes(c, [r EXCEPT !.pc = "written", !.id = k[2], !.wrote = TRUE,
                                !.rows = {[id |-> k[2], time |-> rq.time]}])
  BY DEF Write
<1>2. PICK id \in Ids :
        /\ k = <<rq.principal.tenant, id>> /\ k[2] = id
        /\ IF rq.op = "create" THEN k \notin DOMAIN films
                               ELSE k \in DOMAIN films /\ id = rq.id
  <2>1. CASE rq.op = "create"
    BY <1>1, <2>1 DEF FreshKeys
  <2>2. CASE rq.op # "create"
    <3>1. rq.op = "update" /\ rq.id \in Ids
      BY <1>0, <2>2, RequestType DEF Good, Placed, Changes
    <3> QED
      BY <1>1, <2>2, <3>1 DEF FilmsNamed
  <2> QED
    BY <2>1, <2>2
<1> DEFINE s == [r EXCEPT !.pc = "written", !.id = id, !.wrote = TRUE,
                          !.rows = {[id |-> id, time |-> rq.time]}]
<1>3. Becomes(c, s)
  BY <1>1, <1>2
<1>4. /\ s.pc = "written" /\ s.request = rq /\ s.id = id /\ s.wrote = TRUE
      /\ s.shown = r.shown /\ s.reply = r.reply /\ s \in Call
  <2>1. {[id |-> id, time |-> rq.time]} \in SUBSET Row
    BY <1>0, <1>2, RequestType DEF Row
  <2> QED
    BY <1>0, <1>2, <2>1 DEF Call, PCs
<1>5. Good(s)
  BY <1>0, <1>2, <1>4 DEF Good, Identified, Placed, Displayed, Replied, Changes
<1>6. Keeps(r, s)
  BY <1>0, <1>4 DEF Keeps, Good, Placed
<1>7. Moves(c)
  BY <1>3, <1>4, <1>5, <1>6 DEF Moves
<1> QED
  BY <1>1, <1>2, <1>3, <1>7

LEMMA WriteEndsMove ==
  ASSUME call \in [Calls -> Call], AllGood, NEW c \in Calls,
         WriteFails(c) \/ WriteReturns(c)
  PROVE  Moves(c)
<1> DEFINE r == call[c]
<1>0. r \in Call /\ Good(r) /\ r.request \in Requests /\ r.pc \in {"write", "written"}
  BY StartOfStep DEF WriteFails, WriteReturns, At
<1>1. CASE WriteFails(c)
  <2>1. r.request.op \in {"create", "update"}
    BY <1>0 DEF Good, Identified, Placed, Changes
  <2>2. CASE r.request.op = "create"
    BY <1>0, <1>1, <2>2, EndsMoves DEF WriteFails
  <2>3. CASE r.request.op = "update"
    BY <1>0, <1>1, <2>3, EndsMoves DEF WriteFails
  <2> QED
    BY <2>1, <2>2, <2>3
<1>2. CASE WriteReturns(c)
  <2>1. r.pc = "written" /\ Goes(c, "read")
    BY <1>2 DEF WriteReturns, At
  <2>2. LET s == [r EXCEPT !.pc = "read"] IN Placed(s) /\ Displayed(s) /\ Replied(s)
    <3> DEFINE s == [r EXCEPT !.pc = "read"]
    <3>1. /\ s.pc = "read" /\ s.shown = {} /\ s.wrote = r.wrote /\ s.reply = "none"
          /\ s.request = r.request
      BY <1>0, <2>1 DEF Good, Displayed, Replied, Call
    <3> QED
      BY <1>0, <2>1, <3>1, NoRowsShown DEF Good, Placed, Displayed, Replied, Changes
  <2> QED
    BY <1>0, <2>1, <2>2, GoesMoves DEF PCs
<1> QED
  BY <1>1, <1>2

LEMMA QueryMoves ==
  ASSUME TypeOK, AllGood, NEW c \in Calls, Query(c)
  PROVE  Moves(c)
<1> DEFINE r == call[c]
           mine == {k \in DOMAIN films : k[1] = r.request.principal.tenant}
           rows == {[id |-> k[2], time |-> films[k]] : k \in mine}
           s == [r EXCEPT !.pc = IF mine = {} THEN "audit" ELSE "read", !.rows = rows]
<1>0. call \in [Calls -> Call] /\ r \in Call /\ Good(r) /\ r.request \in Requests /\ r.pc = "query"
  BY StartOfStep DEF Query, At, TypeOK
<1>1. CASE Becomes(c, s)
  <2>1. rows \in SUBSET Row
    <3>1. /\ DOMAIN films \in SUBSET (Tenants \X Ids)
          /\ films \in [DOMAIN films -> Times]
      BY PartialMapElim DEF TypeOK
    <3>2. ASSUME NEW k \in mine PROVE [id |-> k[2], time |-> films[k]] \in Row
      BY <3>1 DEF Row
    <3> QED
      BY <3>2
  <2>2. mine = {} => rows = {}
    OBVIOUS
  <2> HIDE DEF rows, mine
  <2>3. /\ s.pc = IF mine = {} THEN "audit" ELSE "read"
        /\ s.request = r.request /\ s.id = r.id /\ s.wrote = r.wrote /\ s.shown = {}
        /\ s.rows = rows /\ s.reply = "none" /\ s \in Call
    BY <1>0, <2>1 DEF Call, PCs, Good, Displayed, Replied
  <2> HIDE DEF s
  <2>4. RowsShown(s) = {}
    BY <2>3, NoRowsShown
  <2>5. Good(s)
    <3>1. ~Changes(s) /\ ~s.wrote
      BY <1>0, <2>3 DEF Good, Identified, Placed, Changes
    <3>2. Identified(s) /\ Placed(s)
      BY <1>0, <2>3, <3>1 DEF Good, Identified, Placed
    <3>3. Displayed(s) /\ Replied(s)
      BY <2>2, <2>3, <2>4 DEF Displayed, Replied
    <3> QED
      BY <3>2, <3>3 DEF Good
  <2>6. Keeps(r, s)
    BY <1>0, <2>3 DEF Keeps
  <2> QED
    BY <1>1, <2>3, <2>5, <2>6 DEF Moves
<1>2. CASE Ends(c, "error")
  BY <1>0, <1>2, EndsMoves
<1> QED
  BY <1>1, <1>2 DEF Query

\* A row is shown at most once, and the last one completes the view.
LEMMA OneMoreRow ==
  ASSUME NEW r, NEW s, NEW row \in Unread(r), NEW form,
         s.rows = r.rows,
         s.shown = r.shown \cup {[id |-> row.id, time |-> row.time, form |-> form]},
         RowsShown(r) \subseteq r.rows, r.rows \subseteq Row
  PROVE  /\ RowsShown(s) \subseteq s.rows
         /\ Unread(r) = {row} => RowsShown(s) = s.rows
<1>1. row \in r.rows /\ row = [id |-> row.id, time |-> row.time]
  BY DEF Unread, Row
<1> DEFINE one == [id |-> row.id, time |-> row.time, form |-> form]
<1>2. RowsShown(s) = RowsShown(r) \cup {row}
  <2>1. row = [id |-> one.id, time |-> one.time]
    BY <1>1
  <2>2. s.shown = r.shown \cup {one}
    OBVIOUS
  <2> HIDE DEF one
  <2>3. \A x \in s.shown : x \in r.shown \/ x = one
    BY <2>2
  <2>4. RowsShown(s) \subseteq RowsShown(r) \cup {row}
    BY <2>1, <2>3 DEF RowsShown
  <2>5. one \in s.shown /\ r.shown \subseteq s.shown
    BY <2>2
  <2>6. RowsShown(r) \cup {row} \subseteq RowsShown(s)
    BY <2>1, <2>5 DEF RowsShown
  <2> QED
    BY <2>4, <2>6
<1>3. ASSUME Unread(r) = {row}, NEW x \in r.rows PROVE x \in RowsShown(s)
  <2>1. CASE x \in Unread(r)
    BY <1>2, <1>3, <2>1
  <2>2. CASE x \notin Unread(r)
    <3>1. PICK y \in r.shown : y.id = x.id /\ y.time = x.time
      BY <2>2 DEF Unread, SameRow
    <3>2. x = [id |-> y.id, time |-> y.time]
      BY <3>1 DEF Row
    <3>3. x \in RowsShown(r)
      BY <3>1, <3>2 DEF RowsShown
    <3> QED
      BY <1>2, <3>3
  <2> QED
    BY <2>1, <2>2
<1> QED
  BY <1>1, <1>2, <1>3

LEMMA ReadRowMoves ==
  ASSUME call \in [Calls -> Call], AllGood, NEW c \in Calls, ReadRow(c)
  PROVE  Moves(c)
<1> DEFINE r == call[c]
<1>0. r \in Call /\ Good(r) /\ r.request \in Requests /\ r.pc = "read"
  BY StartOfStep DEF ReadRow, At
<1>1. PICK row \in Unread(r), form \in ReadForms(r.request.principal) :
        Becomes(c, [r EXCEPT
                      !.shown = @ \cup {[id |-> row.id, time |-> row.time, form |-> form]},
                      !.pc = IF Unread(r) = {row} THEN "audit" ELSE "read"])
  BY DEF ReadRow
<1> DEFINE one == [id |-> row.id, time |-> row.time, form |-> form]
           s == [r EXCEPT !.shown = @ \cup {one},
                          !.pc = IF Unread(r) = {row} THEN "audit" ELSE "read"]
<1>2. Becomes(c, s)
  BY <1>1
<1>3. one \in Shown
  <2>1. row \in Row
    BY <1>0 DEF Unread, Call
  <2> QED
    BY <2>1, ReadFormsType DEF Row, Shown
<1> HIDE DEF one
<1>4. /\ s.pc = IF Unread(r) = {row} THEN "audit" ELSE "read"
      /\ s.request = r.request /\ s.id = r.id /\ s.wrote = r.wrote
      /\ s.rows = r.rows /\ s.reply = "none" /\ s.shown = r.shown \cup {one}
      /\ s \in Call
  BY <1>0, <1>3 DEF Call, PCs, Good, Replied
<1> HIDE DEF s
<1>5. RowsShown(s) \subseteq s.rows /\ (Unread(r) = {row} => RowsShown(s) = s.rows)
  <2>1. RowsShown(r) \subseteq r.rows /\ r.rows \subseteq Row
    BY <1>0 DEF Good, Displayed, Call
  <2> QED
    BY <1>4, <2>1, OneMoreRow DEF one
<1>6. Good(s)
  BY <1>0, <1>4, <1>5 DEF Good, Identified, Placed, Displayed, Replied, Changes
<1>7. Keeps(r, s)
  BY <1>0, <1>4 DEF Keeps
<1> QED
  BY <1>2, <1>4, <1>6, <1>7 DEF Moves

LEMMA ReadFailsMoves ==
  ASSUME call \in [Calls -> Call], AllGood, NEW c \in Calls, ReadFails(c)
  PROVE  Moves(c)
BY EndsMoves DEF ReadFails, At

\* Writing the journal changes where a call stands, and whether it is logged.
LEMMA JournalBecomes ==
  ASSUME call \in [Calls -> Call], NEW c \in Calls, NEW outcome, NEW touched,
         NEW pc \in PCs, Journal(c, outcome, touched, pc)
  PROVE  \E s \in Call :
           /\ Becomes(c, s)
           /\ s.pc = pc /\ s.request = call[c].request /\ s.id = call[c].id
           /\ s.rows = call[c].rows /\ s.shown = call[c].shown
           /\ s.reply = call[c].reply /\ s.wrote = call[c].wrote
           /\ \/ /\ audit' = audit \cup {[call |-> c, outcome |-> outcome, id |-> call[c].id,
                                           touched |-> touched]}
                 /\ s.unlogged = call[c].unlogged
              \/ s.unlogged /\ audit' = audit
<1> DEFINE r == call[c]
<1>0. r \in Call
  OBVIOUS
<1>1. CASE /\ audit' = audit \cup {[call |-> c, outcome |-> outcome, id |-> r.id,
                                    touched |-> touched]}
           /\ Goes(c, pc)
  <2> DEFINE s == [r EXCEPT !.pc = pc]
  <2>1. Becomes(c, s)
    BY <1>1 DEF Goes
  <2>2. /\ s \in Call
        /\ s.pc = pc /\ s.request = r.request /\ s.id = r.id /\ s.rows = r.rows
        /\ s.shown = r.shown /\ s.reply = r.reply /\ s.wrote = r.wrote
        /\ s.unlogged = r.unlogged
    BY <1>0 DEF Call
  <2> QED
    BY <1>1, <2>1, <2>2
<1>2. CASE Becomes(c, [r EXCEPT !.pc = pc, !.unlogged = TRUE]) /\ UNCHANGED audit
  <2> DEFINE s == [r EXCEPT !.pc = pc, !.unlogged = TRUE]
  <2>1. Becomes(c, s)
    BY <1>2
  <2>2. /\ s \in Call
        /\ s.pc = pc /\ s.request = r.request /\ s.id = r.id /\ s.rows = r.rows
        /\ s.shown = r.shown /\ s.reply = r.reply /\ s.wrote = r.wrote
        /\ s.unlogged
    BY <1>0 DEF Call
  <2> QED
    BY <1>2, <2>1, <2>2
<1> QED
  BY <1>1, <1>2 DEF Journal

\* What is shown is shown, wherever the record stands.
LEMMA SameRowsShown ==
  ASSUME NEW r, NEW s, s.shown = r.shown
  PROVE  RowsShown(s) = RowsShown(r)
BY DEF RowsShown

LEMMA LogsMove ==
  ASSUME call \in [Calls -> Call], AllGood, NEW c \in Calls, Audit(c) \/ DenyAudit(c)
  PROVE  Moves(c)
<1> DEFINE r == call[c]
           pc == IF At(c, "audit") THEN "perf" ELSE "done"
<1>0. r \in Call /\ Good(r) /\ r.request \in Requests /\ r.pc \in {"audit", "denyAudit"}
  BY StartOfStep DEF Audit, DenyAudit, At
<1>1. \E outcome, touched : Journal(c, outcome, touched, pc)
  BY DEF Audit, DenyAudit, At
<1>2. PICK s \in Call :
        /\ Becomes(c, s)
        /\ s.pc = pc /\ s.request = r.request /\ s.id = r.id
        /\ s.rows = r.rows /\ s.shown = r.shown
        /\ s.reply = r.reply /\ s.wrote = r.wrote
  <2>1. pc \in PCs
    BY DEF PCs
  <2> QED
    BY <1>1, <2>1, JournalBecomes
<1>3. Good(s)
  BY <1>0, <1>2, SameRowsShown
  DEF At, Good, Identified, Placed, Displayed, Replied, Changes
<1>4. Keeps(r, s)
  BY <1>0, <1>2 DEF Keeps
<1> QED
  BY <1>2, <1>3, <1>4 DEF Moves

LEMMA PerfMoves ==
  ASSUME call \in [Calls -> Call], AllGood, NEW c \in Calls, Perf(c)
  PROVE  Moves(c)
<1> DEFINE r == call[c]
           s == [r EXCEPT !.pc = "done", !.reply = "ok"]
<1>0. r \in Call /\ Good(r) /\ r.request \in Requests /\ r.pc = "perf"
  BY StartOfStep DEF Perf, At
<1>1. /\ s.pc = "done" /\ s.reply = "ok" /\ s.request = r.request /\ s.id = r.id
      /\ s.rows = r.rows /\ s.shown = r.shown /\ s.wrote = r.wrote
      /\ s.unlogged = r.unlogged /\ s \in Call
  BY <1>0 DEF Call, PCs, Replies
<1>2. Becomes(c, s)
  BY DEF Perf
<1> HIDE DEF s
<1>3. Good(s)
  BY <1>0, <1>1, SameRowsShown DEF Good, Identified, Placed, Displayed, Replied, Changes
<1>4. Keeps(r, s)
  BY <1>0, <1>1 DEF Keeps
<1> QED
  BY <1>1, <1>2, <1>3, <1>4 DEF Moves

LEMMA DenyPerfMoves ==
  ASSUME call \in [Calls -> Call], AllGood, NEW c \in Calls, DenyPerf(c)
  PROVE  Moves(c)
<1> DEFINE r == call[c]
           pc == IF r.reply = "forbidden" THEN "denyAudit" ELSE "done"
           s == [r EXCEPT !.pc = pc]
<1>0. r \in Call /\ Good(r) /\ r.request \in Requests /\ r.pc = "denyPerf"
  BY StartOfStep DEF DenyPerf, At
<1>1. Goes(c, pc) /\ pc \in PCs /\ pc # "idle"
  BY DEF DenyPerf, PCs
<1>2. s.pc = pc /\ s.request = r.request /\ s.id = r.id /\ s.shown = r.shown
      /\ s.rows = r.rows /\ s.wrote = r.wrote /\ s.reply = r.reply
  BY <1>0 DEF Call
<1>3. Placed(s) /\ Displayed(s) /\ Replied(s)
  BY <1>0, <1>2 DEF Good, Placed, Displayed, Replied, Changes
<1> QED
  BY <1>0, <1>1, <1>3, GoesMoves

LEMMA CrashFrame ==
  ASSUME call \in [Calls -> Call], AllGood, Crash
  PROVE  /\ call' \in [Calls -> Call]
         /\ AllGood'
         /\ AllKept
<1>1. ASSUME NEW c \in Calls
      PROVE  call'[c] \in Call /\ Good(call'[c]) /\ Keeps(call[c], call'[c])
  <2> DEFINE r == call[c]
             s == [r EXCEPT !.pc = "done", !.reply = "lost", !.shown = {}]
  <2>0. r \in Call /\ Good(r)
    BY StartOfStep
  <2>1. CASE Running(c)
    <3>1. call'[c] = s /\ r.pc \notin {"idle", "done"}
      BY <2>1 DEF Crash, Running
    <3>2. /\ s.pc = "done" /\ s.reply = "lost" /\ s.shown = {}
          /\ s.request = r.request /\ s.id = r.id /\ s.wrote = r.wrote
          /\ s.unlogged = r.unlogged /\ s \in Call
      BY <2>0 DEF Call, PCs, Replies
    <3> HIDE DEF s
    <3>3. Good(s)
      BY <2>0, <3>1, <3>2 DEF Good, Identified, Placed, Displayed, Replied, Changes
    <3>4. Keeps(r, s)
      BY <3>1, <3>2 DEF Keeps
    <3> QED
      BY <3>1, <3>2, <3>3, <3>4
  <2>2. CASE ~Running(c)
    BY <2>0, <2>2, KeepsItself DEF Crash
  <2> QED
    BY <2>1, <2>2
<1>2. call' = [c \in Calls |-> call'[c]]
  BY DEF Crash
<1>3. call' \in [Calls -> Call]
  BY <1>1, <1>2
<1>4. AllGood'
  BY <1>1 DEF AllGood, Good, Identified, Placed, Displayed, Replied, RowsShown, Changes, Allowed
<1> QED
  BY <1>1, <1>3, <1>4 DEF AllKept

-----------------------------------------------------------------------------
(* Types and the calls.                                                    *)

Calling == TypeOK /\ AllGood

\* A step of one call is a move.
LEMMA StepMoves ==
  ASSUME Calling, NEW c \in Calls, Step(c) \/ \E rq \in Requests : Begin(c, rq)
  PROVE  Moves(c)
<1>1. TypeOK /\ AllGood /\ call \in [Calls -> Call]
  BY DEF Calling, TypeOK
<1> QED
  BY <1>1, BeginMoves, AuthorizeMoves, EncryptMoves, WriteMoves, WriteEndsMove, QueryMoves,
     ReadRowMoves, ReadFailsMoves, LogsMove, PerfMoves, DenyPerfMoves
  DEF Step

\* Whatever happens to the calls, no step takes anything back.
LEMMA NextKeeps ==
  ASSUME Calling, [Next]_vars
  PROVE  call' \in [Calls -> Call] /\ AllGood' /\ AllKept
<1>1. TypeOK /\ AllGood /\ call \in [Calls -> Call]
  BY DEF Calling, TypeOK
<1>2. ASSUME NEW c \in Calls, Step(c) \/ \E rq \in Requests : Begin(c, rq)
      PROVE  call' \in [Calls -> Call] /\ AllGood' /\ AllKept
  BY <1>1, <1>2, StepMoves, MovesFrame
<1>3. CASE Crash
  BY <1>1, <1>3, CrashFrame
<1>4. CASE UNCHANGED vars
  BY <1>1, <1>4, KeepsItself
  DEF vars, AllGood, AllKept, Good, Identified, Placed, Displayed, Replied, RowsShown,
      Changes, Allowed
<1> QED
  BY <1>2, <1>3, <1>4 DEF Next

\* Only a write changes the films, only the logs change the logs.
LEMMA TablesTyped ==
  ASSUME Calling, [Next]_vars
  PROVE  /\ films' \in PartialMaps(Tenants \X Ids, Times)
         /\ audit' \subseteq Entry
         /\ perf' \subseteq Calls
<1>1. /\ films \in PartialMaps(Tenants \X Ids, Times)
      /\ audit \subseteq Entry /\ perf \subseteq Calls
      /\ call \in [Calls -> Call] /\ TypeOK /\ AllGood
  BY DEF Calling, TypeOK
<1>2. ASSUME NEW c \in Calls, Write(c)
      PROVE  films' \in PartialMaps(Tenants \X Ids, Times)
  <2> DEFINE rq == call[c].request
  <2>1. PICK id \in Ids :
          films' = [k \in DOMAIN films \cup {<<rq.principal.tenant, id>>} |->
                      IF k = <<rq.principal.tenant, id>> THEN rq.time ELSE films[k]]
    BY <1>1, <1>2, WriteMoves
  <2>2. rq \in Requests
    BY <1>1, <1>2, StartOfStep DEF Write, At
  <2>3. rq.time \in Times /\ rq.principal.tenant \in Tenants
    BY <2>2, RequestType DEF Principals
  <2> DEFINE key == <<rq.principal.tenant, id>>
             D == DOMAIN films \cup {key}
  <2>4. DOMAIN films \in SUBSET (Tenants \X Ids) /\ films \in [DOMAIN films -> Times]
    BY <1>1, PartialMapElim
  <2>5. key \in Tenants \X Ids
    BY <2>3
  <2> HIDE DEF key
  <2>6. films' = [k \in D |-> IF k = key THEN rq.time ELSE films[k]]
    BY <2>1 DEF key
  <2>7. D \in SUBSET (Tenants \X Ids)
    BY <2>4, <2>5
  <2>8. films' \in [D -> Times]
    BY <2>3, <2>4, <2>6
  <2> QED
    BY <2>7, <2>8, PartialMapIntro
<1>3. ASSUME NEW c \in Calls, Audit(c) \/ DenyAudit(c)
      PROVE  audit' \subseteq Entry
  <2> DEFINE r == call[c]
  <2>1. PICK outcome \in {"allow", "deny"}, touched \in SUBSET Forms, pc \in PCs :
          Journal(c, outcome, touched, pc)
    <3>1. Touched(r) \in SUBSET Forms
      BY <1>1 DEF Touched, Call, Shown
    <3> QED
      BY <1>3, <3>1 DEF Audit, DenyAudit, PCs
  <2>2. [call |-> c, outcome |-> outcome, id |-> r.id, touched |-> touched] \in Entry
    BY <1>1 DEF Entry, Call
  <2> QED
    BY <1>1, <2>1, <2>2 DEF Journal
<1>4. films' = films \/ \E c \in Calls : Write(c)
  BY DEF Next, Step, vars, Authorize, Encrypt, WriteFails, WriteReturns, Query, ReadRow,
         ReadFails, Audit, DenyAudit, Perf, DenyPerf, Crash, Begin
<1>5. audit' = audit \/ \E c \in Calls : Audit(c) \/ DenyAudit(c)
  BY DEF Next, Step, vars, Authorize, Encrypt, Write, WriteFails, WriteReturns, Query, ReadRow,
         ReadFails, Perf, DenyPerf, Crash, Begin
<1>6. perf' = perf \/ \E c \in Calls : perf' \in {perf, perf \cup {c}}
  BY DEF Next, Step, vars, Authorize, Encrypt, Write, WriteFails, WriteReturns, Query, ReadRow,
         ReadFails, Audit, DenyAudit, Perf, DenyPerf, Crash, Begin
<1> QED
  BY <1>1, <1>2, <1>3, <1>4, <1>5, <1>6

LEMMA InitCalling == Init => Calling
<1> SUFFICES ASSUME Init PROVE Calling
  OBVIOUS
<1>1. Idle \in Call /\ Good(Idle)
  <2>1. Idle \in Call
    BY DEF Idle, Call, PCs, Replies
  <2>2. Good(Idle)
    BY DEF Idle, Good, Identified, Placed, Displayed, Replied
  <2> QED
    BY <2>1, <2>2
<1>2. \A c \in Calls : call[c] = Idle
  BY DEF Init
<1>3. AllGood
  BY <1>1, <1>2 DEF AllGood
<1>4. TypeOK
  BY <1>1, WorkflowAssumption DEF Init, TypeOK
<1> QED
  BY <1>3, <1>4 DEF Calling

LEMMA NextCalling == Calling /\ [Next]_vars => Calling'
BY NextKeeps, TablesTyped DEF Calling, TypeOK

LEMMA AlwaysCalling == Spec => []Calling
BY InitCalling, NextCalling, PTL DEF Spec

\* The tables and the calls have their types, whatever fails.
THEOREM TypeCorrect == Spec => []TypeOK
<1>1. Calling => TypeOK
  BY DEF Calling
<1> QED
  BY <1>1, AlwaysCalling, PTL

-----------------------------------------------------------------------------
(* What the films hold.                                                    *)

\* The call that accounts for a film goes on accounting for it.
LEMMA FilmsStayAuthorised ==
  ASSUME Calling, FilmsAuthorised, [Next]_vars
  PROVE  FilmsAuthorised'
<1>1. AllKept /\ call \in [Calls -> Call] /\ AllGood /\ TypeOK
  BY NextKeeps DEF Calling, TypeOK
<1>2. ASSUME NEW k \in DOMAIN films, k \in DOMAIN films', films'[k] = films[k]
      PROVE  \/ k \in DOMAIN Seed /\ films'[k] = Seed[k]
             \/ \E c \in Calls :
                  LET r == call'[c] IN
                  /\ r.wrote /\ Allowed(r.request)
                  /\ k = <<r.request.principal.tenant, r.id>>
                  /\ films'[k] = r.request.time
  <2>1. CASE k \in DOMAIN Seed /\ films[k] = Seed[k]
    BY <1>2, <2>1
  <2>2. ASSUME NEW c \in Calls, call[c].wrote, Allowed(call[c].request),
               k = <<call[c].request.principal.tenant, call[c].id>>,
               films[k] = call[c].request.time
        PROVE  \E x \in Calls :
                 LET r == call'[x] IN
                 /\ r.wrote /\ Allowed(r.request)
                 /\ k = <<r.request.principal.tenant, r.id>>
                 /\ films'[k] = r.request.time
    <3>1. call'[c].wrote /\ call'[c].request = call[c].request /\ call'[c].id = call[c].id
      BY <1>1, <2>2 DEF AllKept, Keeps
    <3> QED
      BY <1>2, <2>2, <3>1
  <2> QED
    BY <2>1, <2>2 DEF FilmsAuthorised
<1>3. CASE films' = films
  BY <1>2, <1>3 DEF FilmsAuthorised, Allowed
<1>4. ASSUME NEW c \in Calls, Write(c)
      PROVE  FilmsAuthorised'
  <2> DEFINE rq == call[c].request
  <2>1. PICK id \in Ids :
          /\ films' = [k \in DOMAIN films \cup {<<rq.principal.tenant, id>>} |->
                         IF k = <<rq.principal.tenant, id>> THEN rq.time ELSE films[k]]
          /\ Becomes(c, [call[c] EXCEPT !.pc = "written", !.id = id, !.wrote = TRUE,
                                        !.rows = {[id |-> id, time |-> rq.time]}])
    BY <1>1, <1>4, WriteMoves
  <2> DEFINE key == <<rq.principal.tenant, id>>
  <2>2. Allowed(rq) /\ call[c] \in Call
    BY <1>1, <1>4 DEF Write, At, AllGood, Good, Placed
  <2>3. call'[c].wrote /\ call'[c].request = rq /\ call'[c].id = id
    BY <1>1, <2>1, <2>2 DEF Becomes, Call
  <2>4. ASSUME NEW k \in DOMAIN films'
        PROVE  \/ k \in DOMAIN Seed /\ films'[k] = Seed[k]
               \/ \E x \in Calls :
                    LET r == call'[x] IN
                    /\ r.wrote /\ Allowed(r.request)
                    /\ k = <<r.request.principal.tenant, r.id>>
                    /\ films'[k] = r.request.time
    <3>1. CASE k = key
      <4>1. films'[k] = rq.time
        BY <2>1, <3>1
      <4> QED
        BY <2>2, <2>3, <3>1, <4>1
    <3>2. CASE k # key
      <4>1. k \in DOMAIN films /\ films'[k] = films[k]
        BY <2>1, <3>2
      <4> QED
        BY <1>2, <4>1
    <3> QED
      BY <3>1, <3>2
  <2> QED
    BY <2>4 DEF FilmsAuthorised, Allowed
<1>5. films' = films \/ \E c \in Calls : Write(c)
  BY DEF Next, Step, vars, Authorize, Encrypt, WriteFails, WriteReturns, Query, ReadRow,
         ReadFails, Audit, DenyAudit, Perf, DenyPerf, Crash, Begin
<1> QED
  BY <1>3, <1>4, <1>5

\* Every film is as it was at the start or as an authorised call of its own
\* tenant left it.
THEOREM FilmsAreAuthorised == Spec => []FilmsAuthorised
<1>1. Init => FilmsAuthorised
  BY DEF Init, FilmsAuthorised
<1>2. Calling /\ FilmsAuthorised /\ [Next]_vars => FilmsAuthorised'
  BY FilmsStayAuthorised
<1> QED
  BY <1>1, <1>2, AlwaysCalling, PTL DEF Spec

-----------------------------------------------------------------------------
(* What the journal says.                                                  *)

\* An entry of the journal and the call it is about, which is past it.
Truthful(e, r) ==
  /\ e.outcome = "allow" =>
       /\ r.pc \in {"perf", "done"}
       /\ Changes(r) => Allowed(r.request) /\ r.wrote /\ e.id = r.id
  /\ e.outcome = "deny" =>
       r.pc = "done" /\ Changes(r) /\ ~Allowed(r.request) /\ ~r.wrote

JournalTrue == \A e \in audit : Truthful(e, call[e.call])

LEMMA TruthfulIsKept ==
  ASSUME NEW e, NEW r, NEW s, e.outcome \in {"allow", "deny"}, Truthful(e, r), Keeps(r, s)
  PROVE  Truthful(e, s)
BY DEF Truthful, Keeps, Changes

\* What is added to the journal, and what becomes of the call meanwhile.
LEMMA NewEntry ==
  ASSUME Calling, [Next]_vars, NEW e \in audit', e \notin audit
  PROVE  LET r == call[e.call]
             s == call'[e.call] IN
         /\ e.call \in Calls /\ r \in Call /\ Good(r) /\ e.id = r.id
         /\ s.request = r.request /\ s.id = r.id /\ s.wrote = r.wrote
         /\ \/ /\ r.pc = "audit" /\ s.pc = "perf" /\ e.outcome = "allow"
            \/ /\ r.pc = "denyAudit" /\ s.pc = "done" /\ e.outcome = "deny"
<1>1. call \in [Calls -> Call] /\ AllGood
  BY DEF Calling, TypeOK
<1>2. PICK c \in Calls : Audit(c) \/ DenyAudit(c)
  BY DEF Next, Step, vars, Authorize, Encrypt, Write, WriteFails, WriteReturns, Query, ReadRow,
         ReadFails, Perf, DenyPerf, Crash, Begin
<1> DEFINE outcome == IF At(c, "audit") THEN "allow" ELSE "deny"
           touched == IF At(c, "audit") THEN Touched(call[c]) ELSE {}
           pc      == IF At(c, "audit") THEN "perf" ELSE "done"
<1>3. /\ Journal(c, outcome, touched, pc) /\ pc \in PCs
      /\ call[c].pc \in {"audit", "denyAudit"}
  BY <1>2 DEF Audit, DenyAudit, At, PCs
<1>4. PICK s \in Call :
        /\ Becomes(c, s)
        /\ s.pc = pc /\ s.request = call[c].request /\ s.id = call[c].id
        /\ s.wrote = call[c].wrote
        /\ \/ audit' = audit \cup {[call |-> c, outcome |-> outcome, id |-> call[c].id,
                                    touched |-> touched]}
           \/ audit' = audit
  <2> HIDE DEF outcome, touched, pc
  <2> QED
    BY <1>1, <1>3, JournalBecomes
<1>5. call'[c] = s
  BY <1>1, <1>4, BecomesFrame
<1>6. e.call = c /\ e.outcome = outcome /\ e.id = call[c].id
  BY <1>4
<1>7. call[c] \in Call /\ Good(call[c])
  BY <1>1, StartOfStep
<1> QED
  BY <1>3, <1>4, <1>5, <1>6, <1>7 DEF At

LEMMA JournalStaysTrue ==
  ASSUME Calling, JournalTrue, [Next]_vars
  PROVE  JournalTrue'
<1>1. AllKept /\ audit \subseteq Entry
  BY NextKeeps DEF Calling, TypeOK
<1>2. ASSUME NEW e \in audit' PROVE Truthful(e, call'[e.call])
  <2>1. CASE e \in audit
    <3>1. e.call \in Calls /\ e.outcome \in {"allow", "deny"}
      BY <1>1, <2>1 DEF Entry
    <3>2. Truthful(e, call[e.call]) /\ Keeps(call[e.call], call'[e.call])
      BY <1>1, <2>1, <3>1 DEF JournalTrue, AllKept
    <3> QED
      BY <3>1, <3>2, TruthfulIsKept
  <2>2. CASE e \notin audit
    <3> DEFINE r == call[e.call]
               s == call'[e.call]
    <3>1. /\ Good(r) /\ e.id = r.id
          /\ s.request = r.request /\ s.id = r.id /\ s.wrote = r.wrote
          /\ \/ r.pc = "audit" /\ s.pc = "perf" /\ e.outcome = "allow"
             \/ r.pc = "denyAudit" /\ s.pc = "done" /\ e.outcome = "deny"
      BY <2>2, NewEntry
    <3> HIDE DEF r, s
    <3>2. Truthful(e, s)
      BY <3>1 DEF Truthful, Good, Identified, Placed, Replied, Changes
    <3> QED
      BY <3>2 DEF s
  <2> QED
    BY <2>1, <2>2
<1> QED
  BY <1>2 DEF JournalTrue, Truthful, Changes, Allowed

\* The journal tells the truth about every change, whatever fails before,
\* between or after.
THEOREM JournalIsTruthful == Spec => []AuditTruthful
<1>1. Init => JournalTrue
  BY DEF Init, JournalTrue
<1>2. Calling /\ JournalTrue /\ [Next]_vars => JournalTrue'
  BY JournalStaysTrue
<1>3. Calling /\ JournalTrue => AuditTruthful
  BY DEF JournalTrue, Truthful, AuditTruthful
<1> QED
  BY <1>1, <1>2, <1>3, AlwaysCalling, PTL DEF Spec

-----------------------------------------------------------------------------
(* What is in the journal.                                                 *)

\* A call that is past the journal, and what it should have left there.
Past(r) == r.pc = "perf" \/ (r.pc = "done" /\ r.reply \in {"ok", "forbidden"})

LoggedBy(c, r, e) ==
  /\ e.call = c
  /\ e.outcome = IF r.pc = "perf" \/ r.reply = "ok" THEN "allow" ELSE "deny"
  /\ r.request.op # "update" => {s.form : s \in r.shown} \ {"cipher"} = e.touched

Logged(c) == Past(call[c]) /\ ~call[c].unlogged => \E e \in audit : LoggedBy(c, call[c], e)

AllLogged == \A c \in Calls : Logged(c)

SameWork(r, s) == s.request = r.request /\ s.wrote = r.wrote /\ s.rows = r.rows

LEMMA GoesTo ==
  ASSUME call \in [Calls -> Call], NEW c \in Calls, NEW pc \in PCs, Goes(c, pc)
  PROVE  /\ call'[c].pc = pc /\ call'[c].reply = call[c].reply
         /\ SameWork(call[c], call'[c])
BY DEF SameWork, Goes, Becomes, Call

LEMMA EndsIn ==
  ASSUME call \in [Calls -> Call], NEW c \in Calls, NEW reply \in Replies, Ends(c, reply)
  PROVE  /\ call'[c].pc = "done" /\ call'[c].reply = reply
         /\ SameWork(call[c], call'[c])
BY DEF SameWork, Ends, Becomes, Call

\* Only the journal takes a call past the journal.
LEMMA PastByLogs ==
  ASSUME Calling, [Next]_vars, NEW c \in Calls,
         call[c].pc \notin {"perf", "done"}, Past(call'[c])
  PROVE  Audit(c) \/ DenyAudit(c)
<1> DEFINE r == call[c]
           s == call'[c]
<1>1. call \in [Calls -> Call] /\ r \in Call /\ Good(r) /\ TypeOK /\ AllGood
  BY StartOfStep DEF Calling, TypeOK
<1>2. ~Past(r)
  BY <1>1 DEF Past
<1>3. ASSUME NEW x \in Calls, x # c, Step(x) \/ \E rq \in Requests : Begin(x, rq)
      PROVE  FALSE
  <2>1. PICK t \in Call : Becomes(x, t)
    BY <1>3, StepMoves DEF Moves
  <2>2. call'[c] = call[c]
    BY <1>1, <1>3, <2>1, BecomesFrame
  <2> QED
    BY <1>2, <2>2
<1>4. CASE Crash
  <2>1. s.reply = "lost" \/ s = r
    BY <1>1, <1>4 DEF Crash, Call
  <2>2. s.reply = "lost" => s.pc = "done" \/ s = r
    BY <1>1, <1>4 DEF Crash, Call
  <2> QED
    BY <1>2, <2>1, <2>2 DEF Past
<1>5. CASE UNCHANGED vars
  BY <1>2, <1>5 DEF vars
<1>6. ASSUME NEW rq \in Requests, Begin(c, rq) PROVE FALSE
  BY <1>1, <1>6 DEF Begin, Becomes, Idle, Call, Past
<1>7. CASE Authorize(c)
  <2>1. s.pc \in {"encrypt", "denyPerf", "denyAudit"}
    <3>1. CASE Goes(c, "encrypt")
      BY <1>1, <3>1, GoesTo DEF PCs
    <3>2. CASE ~Goes(c, "encrypt")
      <4>1. PICK pc \in {"denyPerf", "denyAudit"} :
              Becomes(c, [r EXCEPT !.pc = pc, !.reply = "forbidden"])
        BY <1>7, <3>2 DEF Authorize
      <4> QED
        BY <1>1, <4>1 DEF Becomes, Call
    <3> QED
      BY <3>1, <3>2
  <2> QED
    BY <2>1 DEF Past
<1>8. CASE Encrypt(c)
  <2>1. s.pc \in {"write", "denyPerf"} \/ (s.pc = "done" /\ s.reply = "error")
    <3>1. CASE Goes(c, "write")
      BY <1>1, <3>1, GoesTo DEF PCs
    <3>2. CASE Becomes(c, [r EXCEPT !.pc = "denyPerf", !.reply = "error"])
      BY <1>1, <3>2 DEF Becomes, Call
    <3>3. CASE Ends(c, "error")
      BY <1>1, <3>3, EndsIn DEF Replies
    <3> QED
      BY <1>8, <3>1, <3>2, <3>3 DEF Encrypt
  <2> QED
    BY <2>1 DEF Past
<1>9. CASE Write(c)
  <2>1. s.pc = "written"
    <3>1. PICK t : Becomes(c, [r EXCEPT !.pc = "written", !.id = t, !.wrote = TRUE,
                                 !.rows = {[id |-> t, time |-> r.request.time]}])
      BY <1>9 DEF Write
    <3> QED
      BY <1>1, <3>1 DEF Becomes, Call
  <2> QED
    BY <2>1 DEF Past
<1>10. CASE WriteFails(c)
  <2>1. PICK reply \in {"error", "notfound"} : Ends(c, reply)
    BY <1>10 DEF WriteFails
  <2>2. s.pc = "done" /\ s.reply = reply
    BY <1>1, <2>1, EndsIn DEF Replies
  <2> QED
    BY <2>2 DEF Past
<1>11. CASE WriteReturns(c)
  <2>1. s.pc = "read"
    BY <1>1, <1>11, GoesTo DEF WriteReturns, PCs
  <2> QED
    BY <2>1 DEF Past
<1>12. CASE Query(c)
  <2>1. s.pc \in {"audit", "read"} \/ (s.pc = "done" /\ s.reply = "error")
    <3>1. CASE Ends(c, "error")
      BY <1>1, <3>1, EndsIn DEF Replies
    <3>2. CASE ~Ends(c, "error")
      <4>1. PICK rows : \E pc \in {"audit", "read"} :
                            Becomes(c, [r EXCEPT !.pc = pc, !.rows = rows])
        BY <1>12, <3>2 DEF Query
      <4> QED
        BY <1>1, <4>1 DEF Becomes, Call
    <3> QED
      BY <3>1, <3>2
  <2> QED
    BY <2>1 DEF Past
<1>13. CASE ReadRow(c)
  <2>1. PICK shown : \E pc \in {"audit", "read"} :
                        Becomes(c, [r EXCEPT !.shown = shown, !.pc = pc])
    BY <1>13 DEF ReadRow
  <2>2. s.pc \in {"audit", "read"}
    BY <1>1, <2>1 DEF Becomes, Call
  <2> QED
    BY <2>2 DEF Past
<1>14. CASE ReadFails(c)
  <2>1. s.pc = "done" /\ s.reply = "error"
    BY <1>1, <1>14, EndsIn DEF ReadFails, Replies
  <2> QED
    BY <2>1 DEF Past
<1>15. CASE Perf(c)
  BY <1>15 DEF Perf, At
<1>16. CASE DenyPerf(c)
  <2>1. s.reply = r.reply /\ s.pc = IF r.reply = "forbidden" THEN "denyAudit" ELSE "done"
    BY <1>1, <1>16, GoesTo DEF DenyPerf, PCs
  <2>2. r.reply \in {"forbidden", "error"}
    BY <1>1, <1>16 DEF DenyPerf, At, Good, Replied
  <2> QED
    BY <2>1, <2>2 DEF Past
<1> QED
  BY <1>3, <1>4, <1>5, <1>6, <1>7, <1>8, <1>9, <1>10, <1>11, <1>12, <1>13, <1>14, <1>15, <1>16
  DEF Next, Step

\* The journal gets its entry, or the call remembers that it did not.
LEMMA LogsLog ==
  ASSUME Calling, NEW c \in Calls, Audit(c) \/ DenyAudit(c), ~call'[c].unlogged
  PROVE  \E e \in audit' : LoggedBy(c, call'[c], e)
<1> DEFINE r == call[c]
           outcome == IF At(c, "audit") THEN "allow" ELSE "deny"
           touched == IF At(c, "audit") THEN Touched(r) ELSE {}
           pc      == IF At(c, "audit") THEN "perf" ELSE "done"
<1>1. call \in [Calls -> Call] /\ r \in Call /\ Good(r)
  BY StartOfStep DEF Calling, TypeOK
<1>2. /\ Journal(c, outcome, touched, pc) /\ pc \in PCs
      /\ At(c, "audit") \/ At(c, "denyAudit")
  BY DEF Audit, DenyAudit, At, PCs
<1>3. PICK s \in Call :
        /\ Becomes(c, s)
        /\ s.pc = pc /\ s.request = r.request /\ s.id = r.id
        /\ s.shown = r.shown /\ s.reply = r.reply
        /\ \/ /\ audit' = audit \cup {[call |-> c, outcome |-> outcome, id |-> r.id,
                                       touched |-> touched]}
           \/ s.unlogged
  <2> HIDE DEF outcome, touched, pc
  <2> QED
    BY <1>1, <1>2, JournalBecomes
<1> DEFINE e == [call |-> c, outcome |-> outcome, id |-> r.id, touched |-> touched]
<1>4. call'[c] = s
  BY <1>1, <1>3, BecomesFrame
<1>5. e \in audit'
  BY <1>3, <1>4
<1>6. LoggedBy(c, s, e)
  <2>1. e.call = c /\ e.outcome = outcome /\ e.touched = touched
    OBVIOUS
  <2>2. e.outcome = IF s.pc = "perf" \/ s.reply = "ok" THEN "allow" ELSE "deny"
    <3>1. CASE At(c, "audit")
      BY <1>3, <2>1, <3>1
    <3>2. CASE At(c, "denyAudit")
      <4>1. r.reply = "forbidden"
        BY <1>1, <3>2 DEF At, Good, Replied
      <4> QED
        BY <1>3, <2>1, <3>2, <4>1 DEF At
    <3> QED
      BY <1>2, <3>1, <3>2
  <2>3. s.request.op # "update" => {x.form : x \in s.shown} \ {"cipher"} = e.touched
    <3>1. CASE At(c, "audit")
      BY <1>3, <2>1, <3>1 DEF Touched
    <3>2. CASE At(c, "denyAudit")
      <4>1. r.shown = {}
        BY <1>1, <3>2 DEF At, Good, Displayed
      <4> QED
        BY <1>3, <2>1, <3>2, <4>1 DEF At
    <3> QED
      BY <1>2, <3>1, <3>2
  <2> HIDE DEF e
  <2> QED
    BY <2>1, <2>2, <2>3 DEF LoggedBy
<1> QED
  BY <1>4, <1>5, <1>6

LEMMA LoggedStays ==
  ASSUME Calling, AllLogged, [Next]_vars
  PROVE  AllLogged'
<1>1. AllKept /\ call \in [Calls -> Call] /\ AllGood
  BY NextKeeps DEF Calling, TypeOK
<1>2. audit \subseteq audit'
  BY DEF Next, Step, vars, Authorize, Encrypt, Write, WriteFails, WriteReturns, Query, ReadRow,
         ReadFails, Perf, DenyPerf, Crash, Begin, Audit, DenyAudit, Journal
<1>3. ASSUME NEW c \in Calls, Past(call'[c]), ~call'[c].unlogged
      PROVE  \E e \in audit' : LoggedBy(c, call'[c], e)
  <2> DEFINE r == call[c]
             s == call'[c]
  <2>1. Keeps(r, s) /\ r \in Call
    BY <1>1 DEF AllKept
  <2>2. CASE r.pc \notin {"perf", "done"}
    BY <1>3, <2>2, PastByLogs, LogsLog
  <2>3. CASE s = r
    <3>1. PICK e \in audit : LoggedBy(c, r, e)
      BY <1>3, <2>3 DEF AllLogged, Logged
    <3> QED
      BY <1>2, <2>3, <3>1
  <2>4. CASE r.pc = "perf" /\ s # r
    <3>1. /\ s.pc = "done" /\ s.reply = "ok" /\ s.request = r.request
          /\ s.unlogged = r.unlogged /\ s.shown = r.shown
      BY <1>3, <2>1, <2>4 DEF Keeps, Past
    <3>2. PICK e \in audit : LoggedBy(c, r, e)
      BY <1>3, <2>4, <3>1 DEF AllLogged, Logged, Past
    <3>3. LoggedBy(c, s, e)
      BY <2>4, <3>1, <3>2 DEF LoggedBy
    <3> QED
      BY <1>2, <3>2, <3>3
  <2> QED
    BY <2>1, <2>2, <2>3, <2>4 DEF Keeps
<1> QED
  BY <1>3 DEF AllLogged, Logged, LoggedBy, Past

\* Every answer and every refusal is in the journal, with the forms in which
\* the time left, unless writing the journal failed.
THEOREM AnswersAreJournalled == Spec => []AnswersJournalled
<1>1. Init => AllLogged
  <2>1. \A c \in Calls : Init => call[c].pc = "idle"
    BY DEF Init, Idle
  <2> QED
    BY <2>1 DEF AllLogged, Logged, Past
<1>2. Calling /\ AllLogged /\ [Next]_vars => AllLogged'
  BY LoggedStays
<1>3. AllLogged => AnswersJournalled
  <2> SUFFICES ASSUME AllLogged, NEW c \in Calls, At(c, "done"),
                      call[c].reply \in {"ok", "forbidden"}, ~call[c].unlogged
               PROVE  \E e \in audit :
                        /\ e.call = c
                        /\ e.outcome = IF call[c].reply = "ok" THEN "allow" ELSE "deny"
                        /\ call[c].request.op # "update" =>
                             {s.form : s \in call[c].shown} \ {"cipher"} = e.touched
    BY DEF AnswersJournalled
  <2>1. PICK e \in audit : LoggedBy(c, call[c], e)
    BY DEF AllLogged, Logged, Past, At
  <2> QED
    BY <2>1 DEF LoggedBy, At
<1> QED
  BY <1>1, <1>2, <1>3, AlwaysCalling, PTL DEF Spec

-----------------------------------------------------------------------------
(* The promise.                                                            *)

\* What a caller sees of a call.
AnswerOf(r) ==
  IF r.pc = "done" THEN [outcome |-> r.reply, rows |-> RowsShown(r)]
                   ELSE [outcome |-> "none", rows |-> {}]

LEMMA InitKeepsPromise == Init => Ledger!Init
<1> SUFFICES ASSUME Init PROVE Ledger!Init
  OBVIOUS
<1>1. \A c \in Calls : /\ call[c].pc = "idle" /\ call[c].request = NoRequest
                       /\ call[c].rows = {} /\ call[c].wrote = FALSE
  BY DEF Init, Idle
<1>2. films = Seed
  BY DEF Init
<1> QED
  BY <1>1, <1>2 DEF Ledger!Init, Ledger!Unanswered, At

\* Apart from the statements that reach the films, a step only brings a call
\* nearer to its answer.
LEMMA StepIsInternal ==
  ASSUME Calling, NEW c \in Calls, Step(c), ~Write(c), Query(c) => Ends(c, "error")
  PROVE  /\ SameWork(call[c], call'[c]) /\ call'[c].reply # "lost"
         /\ call[c].pc \notin {"idle", "done"}
         /\ films' = films
<1> DEFINE r == call[c]
           s == call'[c]
<1>1. call \in [Calls -> Call] /\ r \in Call /\ Good(r)
  BY StartOfStep DEF Calling, TypeOK
<1>2. films' = films /\ r.pc \notin {"idle", "done"}
  BY DEF Step, Authorize, Encrypt, WriteFails, WriteReturns, Query, ReadRow, ReadFails,
         Audit, DenyAudit, Perf, DenyPerf, At
<1>3. r.reply # "lost"
  BY <1>1, <1>2 DEF Good, Replied
<1>4. CASE \E pc \in PCs : Goes(c, pc)
  BY <1>1, <1>2, <1>3, <1>4, GoesTo
<1>5. CASE \E reply \in {"error", "notfound"} : Ends(c, reply)
  <2>1. PICK reply \in {"error", "notfound"} : Ends(c, reply)
    BY <1>5
  <2>2. reply \in Replies /\ reply # "lost"
    BY DEF Replies
  <2> QED
    BY <1>1, <1>2, <2>1, <2>2, EndsIn
<1>6. CASE \E pc \in PCs, reply \in {"forbidden", "error", "ok"} :
             Becomes(c, [r EXCEPT !.pc = pc, !.reply = reply])
  <2>1. PICK pc \in PCs, reply \in {"forbidden", "error", "ok"} :
          Becomes(c, [r EXCEPT !.pc = pc, !.reply = reply])
    BY <1>6
  <2> QED
    BY <1>1, <1>2, <2>1 DEF Becomes, SameWork, Call
<1>7. CASE ReadRow(c)
  <2>1. PICK pc, shown : Becomes(c, [r EXCEPT !.shown = shown, !.pc = pc])
    BY <1>7 DEF ReadRow
  <2> QED
    BY <1>1, <1>2, <1>3, <2>1 DEF Becomes, SameWork, Call
<1>8. CASE Audit(c) \/ DenyAudit(c)
  <2>1. \E outcome, touched : \E pc \in PCs : Journal(c, outcome, touched, pc)
    BY <1>8 DEF Audit, DenyAudit, PCs
  <2>2. PICK t \in Call : /\ Becomes(c, t)
                          /\ t.request = r.request /\ t.rows = r.rows
                          /\ t.reply = r.reply /\ t.wrote = r.wrote
    BY <1>1, <2>1, JournalBecomes
  <2>3. s = t
    BY <1>1, <2>2, BecomesFrame
  <2> QED
    BY <1>2, <1>3, <2>2, <2>3 DEF SameWork
<1>9. CASE Authorize(c)
  BY <1>4, <1>6, <1>9 DEF Authorize, PCs
<1>10. CASE Encrypt(c)
  BY <1>4, <1>5, <1>6, <1>10 DEF Encrypt, PCs
<1>11. CASE WriteFails(c)
  BY <1>5, <1>11 DEF WriteFails
<1>12. CASE WriteReturns(c) \/ DenyPerf(c)
  BY <1>4, <1>12 DEF WriteReturns, DenyPerf, PCs
<1>13. CASE Query(c) \/ ReadFails(c)
  BY <1>5, <1>13 DEF ReadFails
<1>14. CASE Perf(c)
  BY <1>6, <1>14 DEF Perf, PCs
<1> QED
  BY <1>7, <1>8, <1>9, <1>10, <1>11, <1>12, <1>13, <1>14 DEF Step

\* A step of a call leaves the others as they are.
LEMMA StepAlone ==
  ASSUME Calling, NEW c \in Calls, Step(c) \/ \E rq \in Requests : Begin(c, rq)
  PROVE  /\ call' \in [Calls -> Call]
         /\ Good(call'[c])
         /\ \A x \in Calls \ {c} : call'[x] = call[x]
<1>1. call \in [Calls -> Call]
  BY DEF Calling, TypeOK
<1>2. PICK t \in Call : Becomes(c, t) /\ Good(t)
  BY StepMoves DEF Moves
<1> QED
  BY <1>1, <1>2, BecomesFrame

\* Such a step answers the caller or stays hidden from it.
LEMMA InternalKeepsPromise ==
  ASSUME Calling, NEW c \in Calls, Step(c), ~Write(c), Query(c) => Ends(c, "error")
  PROVE  Ledger!Reply(c) \/ UNCHANGED Ledger!vars
<1> DEFINE r == call[c]
           s == call'[c]
<1>1. /\ \A x \in Calls \ {c} : call'[x] = call[x]
      /\ r \in Call /\ s \in Call /\ Good(r) /\ Good(s)
      /\ call \in [Calls -> Call]
  BY StepAlone, StartOfStep DEF Calling, TypeOK
<1>2. /\ SameWork(r, s) /\ s.reply # "lost"
      /\ r.pc \notin {"idle", "done"} /\ films' = films
  BY StepIsInternal
<1>3. \A x \in Calls : /\ call'[x].request = call[x].request
                       /\ call'[x].wrote = call[x].wrote
                       /\ call'[x].rows = call[x].rows
                       /\ AnswerOf(call'[x]) = IF x = c THEN AnswerOf(s) ELSE AnswerOf(call[x])
  BY <1>1, <1>2 DEF SameWork
<1>4. AnswerOf(r) = [outcome |-> "none", rows |-> {}] /\ r.request # NoRequest
  BY <1>1, <1>2 DEF AnswerOf, Good, Identified
<1>5. CASE s.pc # "done"
  <2>1. AnswerOf(s) = AnswerOf(r)
    BY <1>2, <1>5 DEF AnswerOf
  <2>2. \A x \in Calls : AnswerOf(call'[x]) = AnswerOf(call[x])
    BY <1>3, <2>1
  <2> QED
    BY <1>2, <1>3, <2>2 DEF Ledger!vars, AnswerOf, At, RowsShown
<1>6. CASE s.pc = "done"
  <2>1. \/ /\ s.reply = "ok" /\ RowsShown(s) = r.rows
           /\ r.request.op = "list" \/ (Allowed(r.request) /\ r.wrote)
        \/ /\ s.reply = "forbidden" /\ RowsShown(s) = {}
           /\ r.request.op # "list" /\ ~Allowed(r.request) /\ ~r.wrote
        \/ /\ s.reply \in {"error", "notfound"} /\ RowsShown(s) = {}
           /\ s.reply = "notfound" => r.request.op = "update"
    <3>1. s.reply \in {"ok", "forbidden", "error", "notfound"}
      BY <1>1, <1>2, <1>6 DEF Good, Replied, Call, Replies
    <3>2. r.request.op \in Ops
      BY <1>1, <1>4, RequestType DEF Call
    <3>3. CASE s.reply = "ok"
      BY <1>1, <1>2, <3>2, <3>3 DEF Good, Replied, Identified, SameWork, Changes, Ops
    <3>4. CASE s.reply = "forbidden"
      BY <1>1, <1>2, <3>4, NoRowsShown DEF Good, Replied, SameWork, Changes
    <3>5. CASE s.reply \in {"error", "notfound"}
      BY <1>1, <1>2, <3>5, NoRowsShown DEF Good, Replied, SameWork
    <3> QED
      BY <3>1, <3>3, <3>4, <3>5
  <2>2. AnswerOf(s) = [outcome |-> s.reply, rows |-> RowsShown(s)]
    BY <1>6 DEF AnswerOf
  <2> DEFINE asked == [x \in Calls |-> call[x].request]
             view == [x \in Calls |-> call[x].rows]
             changed == {x \in Calls : call[x].wrote}
             answer == [x \in Calls |-> AnswerOf(call[x])]
             next == [x \in Calls |-> AnswerOf(call'[x])]
  <2>3. /\ asked[c] = r.request /\ view[c] = r.rows
        /\ c \in changed <=> r.wrote
    BY <1>1 DEF Call
  <2>4. Ledger!Running(c)
    BY <1>4 DEF Ledger!Running, Ledger!Unanswered, AnswerOf, At, RowsShown
  <2>5. next = [answer EXCEPT ![c] = [outcome |-> s.reply, rows |-> RowsShown(s)]]
    BY <1>3, <2>2
  <2>6. /\ [x \in Calls |-> call'[x].request] = asked
        /\ {x \in Calls : call'[x].wrote} = changed
        /\ [x \in Calls |-> call'[x].rows] = view
    BY <1>3
  <2> HIDE DEF asked, view, changed, answer, next, r, s
  <2>7. \/ /\ asked[c].op = "list" \/ (Allowed(asked[c]) /\ c \in changed)
           /\ next = [answer EXCEPT ![c] = [outcome |-> "ok", rows |-> view[c]]]
        \/ /\ asked[c].op # "list" /\ ~Allowed(asked[c]) /\ c \notin changed
           /\ next = [answer EXCEPT ![c] = [outcome |-> "forbidden", rows |-> {}]]
        \/ \E outcome \in {"error", "notfound"} :
             /\ outcome = "notfound" => asked[c].op = "update"
             /\ next = [answer EXCEPT ![c] = [outcome |-> outcome, rows |-> {}]]
    BY <2>1, <2>3, <2>5
  <2>8. films' = films
    BY <1>2
  <2>9. Ledger!Reply(c)
    BY <2>4, <2>6, <2>7, <2>8
    DEF Ledger!Reply, AnswerOf, At, RowsShown, asked, view, changed, answer, next
  <2> QED
    BY <2>9
<1> QED
  BY <1>5, <1>6

LEMMA BeginAsks ==
  ASSUME Calling, NEW c \in Calls, NEW rq \in Requests, Begin(c, rq)
  PROVE  Ledger!Ask(c, rq)
<1> DEFINE r == call[c]
           s == call'[c]
<1>1. /\ \A x \in Calls \ {c} : call'[x] = call[x]
      /\ r \in Call /\ Good(r) /\ call \in [Calls -> Call]
  BY StepAlone, StartOfStep DEF Calling, TypeOK
<1>2. /\ s.request = rq /\ s.rows = {} /\ s.wrote = FALSE /\ s.pc # "done"
      /\ films' = films /\ r.pc = "idle"
  BY <1>1 DEF Begin, Becomes, Idle, At
<1>3. r.request = NoRequest /\ ~r.wrote
  BY <1>1, <1>2 DEF Good, Identified
<1>4. r.rows = {}
  BY <1>1, <1>2 DEF Good, Displayed, Identified
<1>5. \A x \in Calls : /\ call'[x].request = IF x = c THEN rq ELSE call[x].request
                       /\ call'[x].wrote = call[x].wrote
                       /\ call'[x].rows = call[x].rows
                       /\ AnswerOf(call'[x]) = AnswerOf(call[x])
  BY <1>1, <1>2, <1>3, <1>4 DEF AnswerOf, Call
<1> QED
  BY <1>2, <1>3, <1>5 DEF Ledger!Ask, AnswerOf, At, RowsShown

LEMMA QueryLooks ==
  ASSUME Calling, NEW c \in Calls, Query(c), ~Ends(c, "error")
  PROVE  Ledger!Look(c)
<1> DEFINE r == call[c]
           s == call'[c]
           rows == {[id |-> k[2], time |-> films[k]] :
                      k \in {x \in DOMAIN films : x[1] = r.request.principal.tenant}}
<1>1. /\ \A x \in Calls \ {c} : call'[x] = call[x]
      /\ r \in Call /\ Good(r) /\ call \in [Calls -> Call]
  BY StepAlone, StartOfStep DEF Calling, TypeOK, Step
<1>2. PICK pc \in {"audit", "read"} : Becomes(c, [r EXCEPT !.pc = pc, !.rows = rows])
  BY DEF Query
<1> HIDE DEF rows
<1>3. /\ s.request = r.request /\ s.wrote = r.wrote /\ s.rows = rows
      /\ r.pc = "query" /\ s.pc # "done" /\ films' = films
  BY <1>1, <1>2 DEF Query, Becomes, At, Call
<1>4. r.request # NoRequest /\ r.request.op = "list"
  BY <1>1, <1>3 DEF Good, Identified, Placed
<1>5. \A x \in Calls : /\ call'[x].request = call[x].request
                       /\ call'[x].wrote = call[x].wrote
                       /\ call'[x].rows = IF x = c THEN rows ELSE call[x].rows
                       /\ AnswerOf(call'[x]) = AnswerOf(call[x])
  BY <1>1, <1>3 DEF AnswerOf
<1>6. AnswerOf(r) = [outcome |-> "none", rows |-> {}]
  BY <1>3 DEF AnswerOf
<1> QED
  BY <1>3, <1>4, <1>5, <1>6
  DEF Ledger!Look, Ledger!Running, Ledger!Unanswered, AnswerOf, At, RowsShown, rows

LEMMA WriteChanges ==
  ASSUME Calling, NEW c \in Calls, Write(c)
  PROVE  Ledger!Change(c)
<1> DEFINE r == call[c]
           s == call'[c]
           rq == r.request
<1>1. /\ \A x \in Calls \ {c} : call'[x] = call[x]
      /\ r \in Call /\ Good(r) /\ call \in [Calls -> Call] /\ TypeOK /\ AllGood
  BY StepAlone, StartOfStep DEF Calling, TypeOK, Step
<1>2. PICK id \in Ids :
        LET key == <<rq.principal.tenant, id>> IN
        /\ IF rq.op = "create" THEN key \notin DOMAIN films
                               ELSE key \in DOMAIN films /\ id = rq.id
        /\ films' = [k \in DOMAIN films \cup {key} |->
                       IF k = key THEN rq.time ELSE films[k]]
        /\ Becomes(c, [r EXCEPT !.pc = "written", !.id = id, !.wrote = TRUE,
                                !.rows = {[id |-> id, time |-> rq.time]}])
  BY <1>1, WriteMoves
<1> DEFINE rows == {[id |-> id, time |-> rq.time]}
<1>3. /\ s.request = rq /\ s.wrote = TRUE /\ s.rows = rows
      /\ r.pc = "write" /\ s.pc = "written"
  BY <1>1, <1>2 DEF Write, Becomes, At, Call
<1>4. /\ rq # NoRequest /\ rq.op \in {"create", "update"}
      /\ ~r.wrote /\ Allowed(rq)
  BY <1>1, <1>3 DEF Good, Identified, Placed, Changes
<1>5. \A x \in Calls : /\ call'[x].request = call[x].request
                       /\ call'[x].wrote = IF x = c THEN TRUE ELSE call[x].wrote
                       /\ call'[x].rows = IF x = c THEN rows ELSE call[x].rows
                       /\ AnswerOf(call'[x]) = AnswerOf(call[x])
  BY <1>1, <1>3 DEF AnswerOf
<1>6. AnswerOf(r) = [outcome |-> "none", rows |-> {}]
  BY <1>3 DEF AnswerOf
<1>7. Ledger!Running(c)
  BY <1>4, <1>6 DEF Ledger!Running, Ledger!Unanswered, AnswerOf, At, RowsShown
<1> DEFINE asked == [x \in Calls |-> call[x].request]
<1>8. \E i \in Ids :
        LET key == <<asked[c].principal.tenant, i>> IN
        /\ IF asked[c].op = "create" THEN key \notin DOMAIN films
                                     ELSE key \in DOMAIN films /\ i = asked[c].id
        /\ films' = [k \in DOMAIN films \cup {key} |->
                       IF k = key THEN asked[c].time ELSE films[k]]
        /\ [x \in Calls |-> call'[x].rows]
             = [[x \in Calls |-> call[x].rows]
                  EXCEPT ![c] = {[id |-> i, time |-> asked[c].time]}]
  <2>1. asked[c] = rq
    OBVIOUS
  <2>2. [x \in Calls |-> call'[x].rows]
             = [[x \in Calls |-> call[x].rows] EXCEPT ![c] = {[id |-> id, time |-> rq.time]}]
    BY <1>5
  <2> HIDE DEF asked
  <2> WITNESS id \in Ids
  <2> QED
    BY <1>2, <2>1, <2>2
<1>9. {x \in Calls : call'[x].wrote} = {x \in Calls : call[x].wrote} \cup {c}
  BY <1>5
<1>10. [x \in Calls |-> call'[x].request] = asked
  BY <1>5
<1>11. [x \in Calls |-> AnswerOf(call'[x])] = [x \in Calls |-> AnswerOf(call[x])]
  BY <1>5
<1>12. /\ asked[c].op \in {"create", "update"} /\ Allowed(asked[c])
       /\ c \notin {x \in Calls : call[x].wrote}
  BY <1>4
<1> QED
  BY <1>7, <1>8, <1>9, <1>10, <1>11, <1>12 DEF Ledger!Change, AnswerOf, At, RowsShown

LEMMA CrashCrashes ==
  ASSUME Calling, Crash
  PROVE  Ledger!Crash
<1>1. \A x \in Calls : call[x] \in Call /\ Good(call[x])
  BY StartOfStep DEF Calling, TypeOK
<1>2. films' = films
  BY DEF Crash
<1>3. ASSUME NEW x \in Calls
      PROVE  /\ call'[x].request = call[x].request
             /\ call'[x].wrote = call[x].wrote
             /\ call'[x].rows = call[x].rows
             /\ AnswerOf(call'[x]) =
                  IF call[x].request # NoRequest
                       /\ AnswerOf(call[x]) = [outcome |-> "none", rows |-> {}]
                  THEN [outcome |-> "lost", rows |-> {}] ELSE AnswerOf(call[x])
  <2> DEFINE r == call[x]
             s == call'[x]
  <2>1. CASE Running(x)
    <3>1. /\ s.pc = "done" /\ s.reply = "lost" /\ s.shown = {}
          /\ s.request = r.request /\ s.wrote = r.wrote /\ s.rows = r.rows
      BY <1>1, <2>1 DEF Crash, Call
    <3>2. AnswerOf(s) = [outcome |-> "lost", rows |-> {}]
      BY <3>1, NoRowsShown DEF AnswerOf
    <3>3. r.request # NoRequest /\ AnswerOf(r) = [outcome |-> "none", rows |-> {}]
      BY <1>1, <2>1 DEF Running, Good, Identified, AnswerOf
    <3> QED
      BY <3>1, <3>2, <3>3
  <2>2. CASE ~Running(x)
    <3>1. s = r
      BY <2>2 DEF Crash
    <3>2. r.request = NoRequest \/ AnswerOf(r).outcome # "none"
      BY <1>1, <2>2 DEF Running, Good, Identified, Replied, AnswerOf
    <3> QED
      BY <3>1, <3>2
  <2> QED
    BY <2>1, <2>2
<1> QED
  BY <1>2, <1>3 DEF Ledger!Crash, Ledger!Running, Ledger!Unanswered, AnswerOf, At, RowsShown

LEMMA NextKeepsPromise ==
  Calling /\ [Next]_vars => [Ledger!Next]_Ledger!vars
<1> SUFFICES ASSUME Calling, [Next]_vars PROVE [Ledger!Next]_Ledger!vars
  OBVIOUS
<1>1. ASSUME NEW c \in Calls, Step(c) PROVE [Ledger!Next]_Ledger!vars
  <2>1. CASE Write(c)
    BY <2>1, WriteChanges DEF Ledger!Next
  <2>2. CASE Query(c) /\ ~Ends(c, "error")
    BY <2>2, QueryLooks DEF Ledger!Next
  <2>3. CASE ~Write(c) /\ (Query(c) => Ends(c, "error"))
    BY <1>1, <2>3, InternalKeepsPromise DEF Ledger!Next
  <2> QED
    BY <2>1, <2>2, <2>3
<1>2. ASSUME NEW c \in Calls, NEW rq \in Requests, Begin(c, rq) PROVE Ledger!Next
  BY <1>2, BeginAsks DEF Ledger!Next
<1>3. CASE Crash
  BY <1>3, CrashCrashes DEF Ledger!Next
<1>4. CASE UNCHANGED vars
  BY <1>4 DEF vars, Ledger!vars, At, RowsShown
<1> QED
  BY <1>1, <1>2, <1>3, <1>4 DEF Next

\* The service keeps the promise of FilmLedger, for any number of calls, any
\* policy and whatever fails.
THEOREM WorkflowImplementsLedger == Spec => ImplementsLedger
BY InitKeepsPromise, NextKeepsPromise, AlwaysCalling, PTL
DEF Spec, ImplementsLedger, Ledger!Spec
=============================================================================
