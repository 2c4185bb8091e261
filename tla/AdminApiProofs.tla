--------------------------- MODULE AdminApiProofs ---------------------------
(***************************************************************************)
(* Who is let in, whose rows the two logs hold and what their readers are  *)
(* shown, for any number of calls, any users and roles, however requests,  *)
(* withdrawals of roles and the expiry of tokens overlap.                  *)
(***************************************************************************)
EXTENDS AdminApi, FiniteSetTheorems, TLAPS

\* The tokens of earlier processes were given no longer a life than this one's.
OneLifetime == \A token \in SeedTokens : token.expires <= token.made + TTL

-----------------------------------------------------------------------------
(* The invariant of a call: what holds of its local variables, depending   *)
(* on where it stands.                                                     *)

Granted == {"handle", "showMode", "showLevel", "journal", "fillMode", "fillLevel", "measure",
            "query"}

\* The middlewares have let the call through, and it has not failed since.
Through(r) ==
  r.pc \in Granted \/ (r.pc = "done" /\ r.reply = "ok" /\ r.request.route # "login")

\* Where a call stands says what was asked.
Placed(r) ==
  /\ r.pc # "idle" => r.request \in Requests
  /\ r.pc # "done" => r.reply = "none"
  /\ r.pc \in {"login", "lookup", "sign"} => r.request.route = "login"
  /\ r.pc \in Granted \cup {"guard"} => r.request.route # "login"
  /\ r.pc = "showMode" => r.request.route = "patchSettings"
  /\ r.pc = "showLevel" => r.request.route \in {"patchSettings", "getSettings"}
  /\ r.pc \in {"journal", "fillMode", "fillLevel", "measure"} => r.request.route = "work"
  /\ r.pc = "query" => r.request.route \in {"audit", "perf", "summary"}
  /\ r.pc = "measure" => r.level \in Levels

\* On whose behalf it acts.
Admitted(r) ==
  Through(r) =>
    /\ r.request.auth # "forged"
    /\ r.request.auth = "bearer" => r.token \in issued
    /\ r.request.auth # "bearer" => r.token = NoToken
    /\ r.who = Caller(r.request, r.token)
    /\ r.request.route \in AdminRoutes => r.request.auth = "bearer" /\ r.token.role = "admin"

\* The password was right, and the table has said what is about to be signed.
Signing(r) ==
  r.pc = "sign" =>
    /\ r.request.ok /\ <<r.who.tenant, r.who.user>> = LoginKey(r.request)
    /\ <<LoginKey(r.request), r.who.role, r.stamp>> \in held /\ r.stamp <= now

\* A token was there and alive when it was accepted.
Accepted(r) == r.token # NoToken => r.token \in issued /\ r.checked < r.token.expires

\* Rows are never lost.
Remembered(r) ==
  r.pc # "idle" =>
    /\ r.request.route \in {"perf", "summary"} => r.before \subseteq perf
    /\ r.request.route = "audit" => r.before \subseteq audit

\* The answer to a list is the newest of what there was.
Newest(r) ==
  LET mine == {x \in r.before : /\ x.tenant = r.token.tenant
                                /\ r.request.route = "perf" => Wanted(r.request, x)} IN
  /\ \A x \in mine \ r.shown : /\ Cardinality(r.shown) = r.request.limit
                              /\ \A y \in r.shown : y.ts >= x.ts
  /\ \A y \in r.shown : y.tenant = r.token.tenant

\* The rows of the caller that a group of a summary counts.
Counted(r, rows, g) ==
  {x \in rows : /\ x.tenant = r.token.tenant /\ Wanted(r.request, x)
                /\ x.dcs = g.dcs /\ x.level = g.level}

Summed(r) ==
  /\ \A x \in r.before :
       Counted(r, {x}, x) # {} => \E g \in r.shown : g.dcs = x.dcs /\ g.level = x.level
  /\ \A g \in r.shown :
       g.count \in Cardinality(Counted(r, r.before, g))..Cardinality(Counted(r, perf, g))

OfAllLevels(r) == r.request.route = "summary" /\ r.request.level = All

Shown(r) ==
  /\ r.reply = "ok" /\ r.request.route \in {"audit", "perf"} => Newest(r)
  /\ r.pc = "query" /\ OfAllLevels(r) => r.level = All
  /\ r.reply = "ok" /\ OfAllLevels(r) => Summed(r)

Good(r) ==
  Placed(r) /\ Admitted(r) /\ Signing(r) /\ Accepted(r) /\ Remembered(r) /\ Shown(r)

-----------------------------------------------------------------------------
(* The invariant of the tokens and of the tables.                          *)

\* A login of this process returned the token.
Earned(token) ==
  LET key == <<token.tenant, token.user>> IN
  /\ token.expires = token.made + TTL /\ token.read <= token.made
  /\ <<key, token.role, token.read>> \in held
  /\ \E d \in Calls : /\ Answered(d, {"login"}) /\ call[d].request.ok
                     /\ LoginKey(call[d].request) = key

Tokens == \A token \in issued : token \in SeedTokens \/ Earned(token)

Own == audit \cup {y \in perf : y.call # Shared}

\* The row is of the call it names, and of the tenant that call acts for.
Attributed(x) ==
  LET r == call[x.call] IN
  Through(r) /\ r.request.route = "work" /\ x.tenant = r.who.tenant

Rows == \A x \in Own : Attributed(x)

HeldNow == \A u \in Users : <<u, users[u], now>> \in held

Finite == IsFiniteSet(audit) /\ IsFiniteSet(perf)

AllGood == \A c \in Calls, r \in Call : call[c] = r => Good(r)

IInv == TypeOK /\ HeldNow /\ Finite /\ Tokens /\ Rows /\ AllGood

-----------------------------------------------------------------------------
(* Steps of a call in general.                                             *)

\* What a step leaves of the rest.
Grows ==
  /\ issued \subseteq issued' /\ held \subseteq held' /\ now <= now'
  /\ audit \subseteq audit' /\ perf \subseteq perf' /\ IsFiniteSet(perf')

Working(r) == Through(r) /\ r.request.route = "work"

\* A call that has done its work keeps to the tenant it did it for.
Follows(r, s) ==
  Working(r) => Through(s) /\ s.request = r.request /\ s.who = r.who

Moves(c) ==
  /\ call[c].pc # "done"
  /\ \E s \in Call : Becomes(c, s) /\ Good(s)' /\ Follows(call[c], s)

LEMMA RequestType ==
  ASSUME NEW rq \in Requests
  PROVE  /\ rq.route \in Routes /\ rq.auth \in Auths /\ rq.who \in Person
         /\ rq.ok \in BOOLEAN /\ rq.limit \in Nat \ {0} /\ rq # NoRequest
         /\ rq.mode \in BOOLEAN \cup {Keep} /\ rq.level \in Levels \cup {Keep, Current, All}
         /\ rq.route = "patchSettings" /\ rq.ok => rq.level \in Levels \cup {Keep}
BY AdminApiAssumption

\* Counting what is shared by two sets, the second of which is finite.
LEMMA MoreCounted ==
  ASSUME NEW S, NEW T, IsFiniteSet(T), S \subseteq T
  PROVE  /\ Cardinality(S) \in Nat /\ Cardinality(T) \in Nat
         /\ Cardinality(S) <= Cardinality(T)
BY FS_Subset, FS_CardinalityType

LEMMA CountedMore ==
  ASSUME NEW r, NEW S, NEW T, S \subseteq T, IsFiniteSet(T), NEW g
  PROVE  /\ Cardinality(Counted(r, S, g)) \in Nat /\ Cardinality(Counted(r, T, g)) \in Nat
         /\ Cardinality(Counted(r, S, g)) <= Cardinality(Counted(r, T, g))
<1>1. Counted(r, S, g) \subseteq Counted(r, T, g) /\ Counted(r, T, g) \subseteq T
  BY DEF Counted
<1>2. IsFiniteSet(Counted(r, T, g))
  BY <1>1, FS_Subset
<1> QED
  BY <1>1, <1>2, MoreCounted

\* The invariant of a call does not suffer from what others add.
LEMMA GoodStays ==
  ASSUME Finite, now \in Nat, now' \in Nat, Grows, NEW r \in Call, Good(r)
  PROVE  Good(r)'
<1>1. Placed(r)' /\ Accepted(r)'
  BY DEF Good, Placed, Accepted, Grows
<1>2. Admitted(r)'
  BY DEF Good, Admitted, Grows
<1>3. Signing(r)'
  <2>1. r.stamp \in Nat
    BY DEF Call, Time
  <2> QED
    BY <2>1 DEF Good, Signing, Grows
<1>4. Remembered(r)'
  BY DEF Good, Remembered, Grows
<1>5. Shown(r)'
  <2>1. ASSUME Summed(r), r.before \subseteq perf PROVE Summed(r)'
    <3> SUFFICES ASSUME NEW g \in r.shown
                 PROVE  g.count \in Cardinality(Counted(r, r.before, g))
                                    ..Cardinality(Counted(r, perf', g))
      BY <2>1 DEF Summed
    <3>1. g.count \in Cardinality(Counted(r, r.before, g))..Cardinality(Counted(r, perf, g))
      BY <2>1 DEF Summed
    <3>2. /\ Cardinality(Counted(r, perf, g)) \in Nat
          /\ Cardinality(Counted(r, perf', g)) \in Nat
          /\ Cardinality(Counted(r, perf, g)) <= Cardinality(Counted(r, perf', g))
      BY CountedMore DEF Grows
    <3>3. Cardinality(Counted(r, r.before, g)) \in Nat
      BY <2>1, CountedMore DEF Finite
    <3> QED
      BY <3>1, <3>2, <3>3
  <2>2. Newest(r) => Newest(r)'
    BY DEF Newest
  <2>3. r.reply = "ok" /\ OfAllLevels(r) => r.before \subseteq perf
    BY DEF Good, Placed, Remembered, OfAllLevels
  <2> QED
    BY <2>1, <2>2, <2>3 DEF Good, Shown, OfAllLevels
<1> QED
  BY <1>1, <1>2, <1>3, <1>4, <1>5 DEF Good

LEMMA GrowsStill ==
  ASSUME TypeOK, Finite, UNCHANGED <<now, held, issued, tables>>
  PROVE  Grows
BY DEF TypeOK, Finite, Grows, Time, tables

\* A call of a step, and what the invariant says of it.
LEMMA StartOfStep ==
  ASSUME IInv, NEW c \in Calls
  PROVE  /\ call \in [Calls -> Call] /\ call[c] \in Call /\ Good(call[c])
         /\ call[c].pc # "idle" => call[c].request \in Requests
         /\ call[c].pc # "done" => call[c].reply = "none"
         /\ now \in Nat
BY DEF IInv, TypeOK, AllGood, Good, Placed, Time

\* What a step of one call leaves of the other parts of the invariant.
LEMMA MovesFrame ==
  ASSUME IInv, NEW c \in Calls, Moves(c), Grows, now' \in Nat
  PROVE  /\ call' \in [Calls -> Call] /\ AllGood'
         /\ \A x : x.call \in Calls /\ Attributed(x) => Attributed(x)'
         /\ \A token : Earned(token) => Earned(token)'
<1>1. call \in [Calls -> Call] /\ call[c] \in Call /\ call[c].reply # "ok" /\ now \in Nat
  BY StartOfStep DEF Moves
<1>2. PICK s \in Call : Becomes(c, s) /\ Good(s)' /\ Follows(call[c], s)
  BY DEF Moves
<1>3. /\ call' \in [Calls -> Call] /\ call'[c] = s
      /\ \A x \in Calls \ {c} : call'[x] = call[x]
  BY <1>1, <1>2 DEF Becomes
<1>4. ASSUME NEW x \in Calls, NEW r \in Call, call'[x] = r PROVE Good(r)'
  <2>1. CASE x = c
    BY <1>2, <1>3, <1>4, <2>1
  <2>2. CASE x # c
    <3>1. Good(r) /\ Finite
      BY <1>3, <1>4, <2>2 DEF IInv, AllGood
    <3> QED
      BY <1>1, <3>1, GoodStays
  <2> QED
    BY <2>1, <2>2
<1>5. ASSUME NEW x, x.call \in Calls, Attributed(x) PROVE Attributed(x)'
  <2>1. CASE x.call = c
    BY <1>2, <1>3, <1>5, <2>1 DEF Attributed, Follows, Working, Through
  <2>2. CASE x.call # c
    BY <1>3, <1>5, <2>2 DEF Attributed, Through
  <2> QED
    BY <2>1, <2>2
<1>6. ASSUME NEW token, Earned(token) PROVE Earned(token)'
  <2>1. PICK d \in Calls : /\ Answered(d, {"login"}) /\ call[d].request.ok
                          /\ LoginKey(call[d].request) = <<token.tenant, token.user>>
    BY <1>6 DEF Earned
  <2>2. call'[d] = call[d]
    BY <1>1, <1>3, <2>1 DEF Answered
  <2> QED
    BY <1>6, <2>1, <2>2 DEF Earned, Answered, Grows
<1> QED
  BY <1>3, <1>4, <1>5, <1>6 DEF AllGood

\* A step that issues nothing and inserts nothing.
LEMMA QuietStep ==
  ASSUME IInv, NEW c \in Calls, Moves(c), UNCHANGED <<world, issued, tables>>,
         mode' \in BOOLEAN, level' \in Levels
  PROVE  IInv'
<1>0. UNCHANGED <<database, now, users, changes, held, issued, audit, perf>>
  BY DEF world, tables
<1>1. Grows /\ now' \in Nat
  BY <1>0, StartOfStep, GrowsStill DEF IInv, tables
<1>2. /\ call' \in [Calls -> Call] /\ AllGood'
      /\ \A x : x.call \in Calls /\ Attributed(x) => Attributed(x)'
      /\ \A token : Earned(token) => Earned(token)'
  BY <1>1, MovesFrame
<1>3. TypeOK' /\ HeldNow' /\ Finite'
  BY <1>0, <1>2 DEF IInv, TypeOK, HeldNow, Finite
<1>4. Tokens'
  BY <1>0, <1>2 DEF IInv, Tokens
<1>5. Rows'
  <2>1. \A x \in Own : x.call \in Calls
    BY DEF IInv, TypeOK, Own, AuditRow, PerfRow
  <2> QED
    BY <1>0, <1>2, <2>1 DEF IInv, Rows, Own
<1> QED
  BY <1>2, <1>3, <1>4, <1>5 DEF IInv

\* Such a step, seen from the call it moves.
LEMMA StillMoves ==
  ASSUME IInv, NEW c \in Calls, NEW s \in Call, call[c].pc # "done", Becomes(c, s), Good(s),
         Follows(call[c], s), UNCHANGED <<world, issued, tables>>
  PROVE  Moves(c)
<1>1. Grows /\ now \in Nat /\ now' = now /\ Finite
  BY StartOfStep, GrowsStill DEF IInv, world, tables
<1>2. Good(s)'
  BY <1>1, GoodStays
<1> QED
  BY <1>2 DEF Moves

-----------------------------------------------------------------------------
(* Calls that end, and calls that go on.                                   *)

LEMMA EndsFields ==
  ASSUME NEW r \in Call, NEW reply \in Replies
  PROVE  LET s == [r EXCEPT !.pc = "done", !.reply = reply] IN
         /\ s \in Call /\ s.pc = "done" /\ s.reply = reply
         /\ s.request = r.request /\ s.who = r.who /\ s.token = r.token
         /\ s.checked = r.checked /\ s.before = r.before /\ s.shown = r.shown
BY DEF Call, PCs

LEMMA AnsweredFields ==
  ASSUME NEW r \in Call
  PROVE  LET s == [r EXCEPT !.pc = "done", !.reply = "ok"] IN
         /\ s \in Call /\ s.pc = "done" /\ s.reply = "ok"
         /\ s.request = r.request /\ s.who = r.who /\ s.token = r.token
         /\ s.checked = r.checked /\ s.before = r.before /\ s.shown = r.shown
<1>1. "ok" \in Replies
  BY DEF Replies
<1> QED
  BY <1>1, EndsFields

\* A call may be refused or fail wherever it has left nothing in the logs.
LEMMA FailedMoves ==
  ASSUME IInv, NEW c \in Calls, call[c].pc \notin {"idle", "done"}, ~Working(call[c]),
         NEW reply \in Replies \ {"none", "ok"}, Ends(c, reply),
         UNCHANGED <<world, issued, tables>>
  PROVE  Moves(c)
<1> DEFINE r == call[c]
           s == [r EXCEPT !.pc = "done", !.reply = reply]
<1>1. r \in Call /\ Good(r) /\ Becomes(c, s)
  BY StartOfStep DEF Ends
<1>2. /\ s \in Call /\ s.pc = "done" /\ s.reply = reply
      /\ s.request = r.request /\ s.who = r.who /\ s.token = r.token
      /\ s.checked = r.checked /\ s.before = r.before /\ s.shown = r.shown
  BY <1>1, EndsFields
<1> HIDE DEF s
<1>3. Placed(s) /\ Admitted(s) /\ Signing(s)
  BY <1>1, <1>2 DEF Good, Placed, Admitted, Signing, Through, Granted
<1>4. Accepted(s) /\ Remembered(s) /\ Shown(s)
  BY <1>1, <1>2 DEF Good, Accepted, Remembered, Shown
<1>5. Follows(r, s)
  BY DEF Follows
<1> QED
  BY <1>1, <1>2, <1>3, <1>4, <1>5, StillMoves DEF Good

\* Between the middlewares and the answer a call stays who it is.
LEMMA OnwardGood ==
  ASSUME NEW r \in Call, Good(r), r.pc \in Granted, NEW s \in Call, s.pc \in Granted,
         s.request = r.request, s.who = r.who, s.token = r.token, s.checked = r.checked,
         s.before = r.before, s.reply = r.reply, Placed(s),
         s.pc = "query" /\ OfAllLevels(s) => s.level = All
  PROVE  Good(s) /\ Follows(r, s)
<1>1. Admitted(s) /\ Signing(s) /\ Accepted(s) /\ Remembered(s)
  BY DEF Good, Admitted, Signing, Accepted, Remembered, Through, Granted
<1>2. Shown(s)
  BY DEF Good, Placed, Shown, Granted
<1>3. Follows(r, s)
  BY DEF Follows, Through
<1> QED
  BY <1>1, <1>2, <1>3 DEF Good

\* What an answer adds is what it shows.
LEMMA AnsweredGood ==
  ASSUME NEW r \in Call, Good(r), r.pc \in Granted, NEW s \in Call, s.pc = "done",
         s.reply = "ok", s.request = r.request, s.who = r.who, s.token = r.token,
         s.checked = r.checked, s.before = r.before, Shown(s)
  PROVE  Good(s) /\ Follows(r, s)
<1>1. Placed(s) /\ r.request.route # "login"
  BY DEF Good, Placed, Granted
<1>2. Admitted(s) /\ Signing(s) /\ Accepted(s) /\ Remembered(s)
  BY <1>1 DEF Good, Admitted, Signing, Accepted, Remembered, Through, Granted
<1>3. Follows(r, s)
  BY <1>1 DEF Follows, Through
<1> QED
  BY <1>1, <1>2, <1>3 DEF Good

LEMMA AnswersMoves ==
  ASSUME IInv, NEW c \in Calls, call[c].pc \in Granted, NEW shown, Answers(c, shown),
         shown \in Shows,
         Shown([call[c] EXCEPT !.pc = "done", !.reply = "ok", !.shown = shown]),
         UNCHANGED <<world, issued, tables>>
  PROVE  Moves(c)
<1> DEFINE r == call[c]
           s == [r EXCEPT !.pc = "done", !.reply = "ok", !.shown = shown]
<1>1. r \in Call /\ Good(r) /\ Becomes(c, s)
  BY StartOfStep DEF Answers
<1>2. /\ s \in Call /\ s.pc = "done" /\ s.reply = "ok" /\ s.request = r.request
      /\ s.who = r.who /\ s.token = r.token /\ s.checked = r.checked /\ s.before = r.before
  <2>1. "done" \in PCs /\ "ok" \in Replies
    BY DEF PCs, Replies
  <2> QED
    BY <1>1, <2>1 DEF Call
<1>3. Good(s) /\ Follows(r, s)
  <2>1. Shown(s)
    OBVIOUS
  <2> HIDE DEF s
  <2> QED
    BY <1>1, <1>2, <2>1, AnsweredGood
<1> QED
  BY <1>1, <1>2, <1>3, StillMoves DEF Granted

-----------------------------------------------------------------------------
(* Login and the middlewares.                                              *)

LEMMA IdleType == Idle \in Call
<1>1. {} \in Logs /\ {} \in Shows
  BY DEF Logs, Shows
<1>2. 0 \in Time
  BY AdminApiAssumption DEF Time
<1> QED
  BY <1>1, <1>2 DEF Idle, Call, PCs, Replies

LEMMA BeginMoves ==
  ASSUME IInv, NEW c \in Calls, NEW rq \in Requests, Begin(c, rq)
  PROVE  Moves(c)
<1> DEFINE s == [Idle EXCEPT !.pc = IF rq.route = "login" THEN "login" ELSE "guard",
                             !.request = rq,
                             !.before = IF rq.route \in {"perf", "summary"} THEN perf
                                        ELSE IF rq.route = "audit" THEN audit ELSE {}]
<1>1. Becomes(c, s) /\ call[c].pc = "idle" /\ UNCHANGED <<world, settings, issued, tables>>
  BY DEF Begin, At
<1>2. Idle \in Call
  BY IdleType
<1>3. s \in Call
  <2>1. audit \in Logs /\ perf \in Logs /\ {} \in Logs
    BY DEF IInv, TypeOK, Logs
  <2> DEFINE pc == IF rq.route = "login" THEN "login" ELSE "guard"
             before == IF rq.route \in {"perf", "summary"} THEN perf
                       ELSE IF rq.route = "audit" THEN audit ELSE {}
  <2>2. pc \in PCs /\ before \in Logs
    BY <2>1 DEF PCs
  <2> HIDE DEF pc, before
  <2>3. [Idle EXCEPT !.pc = pc, !.request = rq, !.before = before] \in Call
    BY <1>2, <2>2 DEF Call
  <2> QED
    BY <2>3 DEF pc, before
<1>4. /\ s.pc = (IF rq.route = "login" THEN "login" ELSE "guard")
      /\ s.request = rq /\ s.token = NoToken /\ s.reply = "none"
      /\ rq.route \in {"perf", "summary"} => s.before = perf
      /\ rq.route = "audit" => s.before = audit
  BY <1>2 DEF Idle
<1> HIDE DEF s
<1>5. Good(s)
  BY <1>4 DEF Good, Placed, Admitted, Signing, Accepted, Remembered, Shown, Through, Granted
<1>6. Follows(call[c], s)
  BY <1>1 DEF Follows, Working, Through, Granted
<1> QED
  BY <1>1, <1>3, <1>5, <1>6, StillMoves

LEMMA LoginMoves ==
  ASSUME IInv, NEW c \in Calls, Login(c)
  PROVE  Moves(c)
<1> DEFINE r == call[c]
           s == [r EXCEPT !.pc = "lookup"]
<1>1. /\ r \in Call /\ Good(r) /\ r.pc = "login" /\ UNCHANGED <<world, issued, tables>>
      /\ ~Working(r)
  BY StartOfStep DEF Login, At, Working, Through, Granted
<1>2. CASE Ends(c, "unavailable")
  BY <1>1, <1>2, FailedMoves DEF Replies
<1>3. CASE Becomes(c, s)
  <2>1. /\ s \in Call /\ s.pc = "lookup" /\ s.request = r.request /\ s.token = r.token
        /\ s.checked = r.checked /\ s.before = r.before /\ s.reply = r.reply
    BY <1>1 DEF Call, PCs
  <2> HIDE DEF s
  <2>2. Placed(s) /\ Admitted(s) /\ Signing(s)
    BY <1>1, <2>1 DEF Good, Placed, Admitted, Signing, Through, Granted
  <2>3. Accepted(s) /\ Remembered(s) /\ Shown(s)
    BY <1>1, <2>1 DEF Good, Placed, Accepted, Remembered, Shown
  <2>4. Follows(r, s)
    BY <1>1 DEF Follows
  <2> QED
    BY <1>1, <1>3, <2>1, <2>2, <2>3, <2>4, StillMoves DEF Good
<1> QED
  BY <1>2, <1>3 DEF Login

LEMMA LookUpMoves ==
  ASSUME IInv, NEW c \in Calls, LookUp(c)
  PROVE  Moves(c)
<1> DEFINE r == call[c]
           key == LoginKey(r.request)
           s == [r EXCEPT !.pc = "sign", !.stamp = now, !.who = UserAt(key)]
<1>1. /\ r \in Call /\ Good(r) /\ r.pc = "lookup" /\ UNCHANGED <<world, issued, tables>>
      /\ ~Working(r)
  BY StartOfStep DEF LookUp, At, Working, Through, Granted
<1>2. CASE Ends(c, "error") \/ Ends(c, "unauthorized")
  BY <1>1, <1>2, FailedMoves DEF Replies
<1>3. CASE key \in Users /\ r.request.ok /\ Becomes(c, s)
  <2>0. key \in STRING \X STRING /\ users[key] \in STRING /\ UserAt(key) \in Person
    BY <1>3, AdminApiAssumption DEF IInv, TypeOK, UserAt, Person
  <2>1. /\ s \in Call /\ s.pc = "sign" /\ s.request = r.request /\ s.token = r.token
        /\ s.checked = r.checked /\ s.before = r.before /\ s.reply = r.reply
        /\ s.stamp = now /\ s.who = UserAt(key)
    BY <1>1, <2>0 DEF Call, PCs, IInv, TypeOK
  <2> HIDE DEF s
  <2>2. Placed(s) /\ Admitted(s)
    BY <1>1, <2>1 DEF Good, Placed, Admitted, Through, Granted
  <2>3. Signing(s)
    <3>1. <<key, users[key], now>> \in held /\ now \in Nat
      BY <1>3, StartOfStep DEF IInv, HeldNow
    <3> QED
      BY <1>3, <2>0, <2>1, <3>1 DEF Signing, UserAt
  <2>4. Accepted(s) /\ Remembered(s) /\ Shown(s)
    BY <1>1, <2>1 DEF Good, Placed, Accepted, Remembered, Shown
  <2>5. Follows(r, s)
    BY <1>1 DEF Follows
  <2> QED
    BY <1>1, <1>3, <2>1, <2>2, <2>3, <2>4, <2>5, StillMoves DEF Good
<1> QED
  BY <1>2, <1>3 DEF LookUp

LEMMA GuardMoves ==
  ASSUME IInv, NEW c \in Calls, Guard(c)
  PROVE  Moves(c)
<1> DEFINE r == call[c]
           rq == r.request
<1>1. /\ r \in Call /\ Good(r) /\ r.pc = "guard" /\ UNCHANGED <<world, issued, tables>>
      /\ ~Working(r) /\ rq \in Requests /\ rq.auth \in Auths
  BY StartOfStep, RequestType DEF Guard, At, Working, Through, Granted
<1>2. CASE Ends(c, "unauthorized") \/ Ends(c, "forbidden")
  BY <1>1, <1>2, FailedMoves DEF Replies
<1>3. ASSUME NEW token \in (IF rq.auth = "bearer" THEN issued ELSE {NoToken}),
             ~Refused(rq, token),
             rq.route \in AdminRoutes => Caller(rq, token).role = "admin",
             Becomes(c, [r EXCEPT !.pc = "handle", !.who = Caller(rq, token),
                                  !.token = token, !.checked = now])
      PROVE  Moves(c)
  <2> DEFINE s == [r EXCEPT !.pc = "handle", !.who = Caller(rq, token), !.token = token,
                            !.checked = now]
  <2>0. /\ rq.auth = "bearer" => token \in issued /\ token \in Token /\ token # NoToken
        /\ rq.auth # "bearer" => token = NoToken
    BY AdminApiAssumption DEF IInv, TypeOK
  <2>1. Caller(rq, token) \in Person
    BY <1>1, <2>0, RequestType DEF Caller, Person, Token
  <2>2. /\ s \in Call /\ s.pc = "handle" /\ s.request = rq /\ s.token = token
        /\ s.checked = now /\ s.before = r.before /\ s.reply = r.reply
        /\ s.who = Caller(rq, token) /\ Becomes(c, s)
    BY <1>1, <1>3, <2>0, <2>1 DEF Call, PCs, IInv, TypeOK
  <2> HIDE DEF s
  <2>3. Placed(s) /\ Signing(s)
    BY <1>1, <2>2 DEF Good, Placed, Signing, Granted
  <2>4. Admitted(s)
    BY <1>3, <2>0, <2>2 DEF Admitted, Refused, Caller
  <2>5. Accepted(s)
    BY <1>3, <2>0, <2>2 DEF Accepted, Refused, Valid
  <2>6. Remembered(s) /\ Shown(s)
    BY <1>1, <2>2 DEF Good, Placed, Remembered, Shown
  <2>7. Follows(r, s)
    BY <1>1 DEF Follows
  <2> QED
    BY <1>1, <2>2, <2>3, <2>4, <2>5, <2>6, <2>7, StillMoves DEF Good
<1> QED
  BY <1>2, <1>3 DEF Guard

-----------------------------------------------------------------------------
(* The settings.                                                           *)

LEMMA PatchSettingsMoves ==
  ASSUME IInv, NEW c \in Calls, PatchSettings(c)
  PROVE  Moves(c) /\ mode' \in BOOLEAN /\ level' \in Levels
<1> DEFINE r == call[c]
           rq == r.request
           s == [r EXCEPT !.pc = "showMode"]
<1>1. /\ r \in Call /\ Good(r) /\ r.pc = "handle" /\ rq.route = "patchSettings"
      /\ rq \in Requests /\ UNCHANGED <<world, issued, tables>> /\ ~Working(r)
  BY StartOfStep DEF PatchSettings, At, Working
<1>2. CASE Ends(c, "invalid") /\ UNCHANGED settings
  BY <1>1, <1>2, FailedMoves DEF Replies, settings, IInv, TypeOK
<1>3. CASE /\ rq.ok /\ Becomes(c, s)
           /\ mode' = IF rq.mode = Keep THEN mode ELSE rq.mode
           /\ level' = IF rq.level = Keep THEN level ELSE rq.level
  <2>1. mode' \in BOOLEAN /\ level' \in Levels
    BY <1>1, <1>3, RequestType DEF IInv, TypeOK
  <2>2. /\ s \in Call /\ s.pc = "showMode" /\ s.request = rq /\ s.token = r.token
        /\ s.checked = r.checked /\ s.before = r.before /\ s.reply = r.reply /\ s.who = r.who
    BY <1>1 DEF Call, PCs
  <2> HIDE DEF s
  <2>3. Placed(s)
    BY <1>1, <2>2 DEF Good, Placed, Granted
  <2>4. Good(s) /\ Follows(r, s)
    BY <1>1, <2>2, <2>3, OnwardGood DEF Granted
  <2> QED
    BY <1>1, <1>3, <2>1, <2>2, <2>4, StillMoves
<1> QED
  BY <1>2, <1>3 DEF PatchSettings

LEMMA ShowModeMoves ==
  ASSUME IInv, NEW c \in Calls, ShowMode(c)
  PROVE  Moves(c)
<1> DEFINE r == call[c]
           s == [r EXCEPT !.pc = "showLevel", !.dcs = mode]
<1>1. /\ r \in Call /\ Good(r) /\ r.pc \in {"handle", "showMode"} /\ r.request \in Requests
      /\ r.pc = "handle" => r.request.route = "getSettings"
      /\ Becomes(c, s) /\ UNCHANGED <<world, issued, tables>>
  BY StartOfStep DEF ShowMode, At
<1>2. /\ s \in Call /\ s.pc = "showLevel" /\ s.request = r.request /\ s.token = r.token
      /\ s.checked = r.checked /\ s.before = r.before /\ s.reply = r.reply /\ s.who = r.who
  BY <1>1 DEF Call, PCs, IInv, TypeOK
<1> HIDE DEF s
<1>3. Placed(s)
  BY <1>1, <1>2 DEF Good, Placed, Granted
<1>4. Good(s) /\ Follows(r, s)
  BY <1>1, <1>2, <1>3, OnwardGood DEF Granted
<1> QED
  BY <1>1, <1>2, <1>4, StillMoves

LEMMA ShowLevelMoves ==
  ASSUME IInv, NEW c \in Calls, ShowLevel(c)
  PROVE  Moves(c)
<1> DEFINE r == call[c]
           shown == {[dcs |-> r.dcs, level |-> level]}
           s == [r EXCEPT !.pc = "done", !.reply = "ok", !.shown = shown]
<1>1. /\ r \in Call /\ Good(r) /\ r.pc = "showLevel" /\ Answers(c, shown)
      /\ UNCHANGED <<world, issued, tables>>
  BY StartOfStep DEF ShowLevel, At
<1>2. shown \in Shows
  BY <1>1 DEF Call, Shows, Settings, IInv, TypeOK
<1>3. s.request.route \in {"patchSettings", "getSettings"}
  BY <1>1 DEF Good, Placed, Call
<1>4. Shown(s)
  <2> HIDE DEF s
  <2> QED
    BY <1>3 DEF Shown, OfAllLevels
<1> QED
  BY <1>1, <1>2, <1>4, AnswersMoves DEF Granted

-----------------------------------------------------------------------------
(* What an operation leaves in the logs.                                   *)

\* Work without a database leaves nothing.
LEMMA WorkMoves ==
  ASSUME IInv, NEW c \in Calls, Work(c)
  PROVE  Moves(c)
<1> DEFINE r == call[c]
<1>1. /\ r \in Call /\ Good(r) /\ r.pc = "handle" /\ r.request.route = "work"
      /\ r.request \in Requests /\ UNCHANGED <<world, issued, tables>>
  BY StartOfStep DEF Work, At
<1>2. CASE Becomes(c, [r EXCEPT !.pc = "journal", !.stamp = now])
  <2> DEFINE s == [r EXCEPT !.pc = "journal", !.stamp = now]
  <2>1. /\ s \in Call /\ s.pc = "journal" /\ s.request = r.request /\ s.token = r.token
        /\ s.checked = r.checked /\ s.before = r.before /\ s.reply = r.reply /\ s.who = r.who
        /\ Becomes(c, s)
    BY <1>1, <1>2 DEF Call, PCs, IInv, TypeOK
  <2> HIDE DEF s
  <2>2. Placed(s)
    BY <1>1, <2>1 DEF Good, Placed, Granted
  <2>3. Good(s) /\ Follows(r, s)
    BY <1>1, <2>1, <2>2, OnwardGood DEF Granted
  <2> QED
    BY <1>1, <2>1, <2>3, StillMoves
<1>3. CASE Ends(c, "ok")
  <2> DEFINE s == [r EXCEPT !.pc = "done", !.reply = "ok"]
  <2>1. /\ s \in Call /\ s.pc = "done" /\ s.reply = "ok" /\ s.request = r.request
        /\ s.who = r.who /\ s.token = r.token /\ s.checked = r.checked /\ s.before = r.before
        /\ Becomes(c, s)
    <3>1. Becomes(c, s)
      BY <1>3 DEF Ends
    <3> QED
      BY <1>1, <3>1, AnsweredFields
  <2> HIDE DEF s
  <2>2. Shown(s)
    BY <1>1, <2>1 DEF Shown, OfAllLevels
  <2>3. Good(s) /\ Follows(r, s)
    BY <1>1, <2>1, <2>2, AnsweredGood DEF Granted
  <2> QED
    BY <1>1, <2>1, <2>3, StillMoves
<1> QED
  BY <1>2, <1>3 DEF Work

LEMMA FillModeMoves ==
  ASSUME IInv, NEW c \in Calls, FillMode(c)
  PROVE  Moves(c)
<1> DEFINE r == call[c]
           s == [r EXCEPT !.pc = "fillLevel", !.dcs = mode]
<1>1. /\ r \in Call /\ Good(r) /\ r.pc = "fillMode" /\ r.request \in Requests
      /\ Becomes(c, s) /\ UNCHANGED <<world, issued, tables>>
  BY StartOfStep DEF FillMode, At
<1>2. /\ s \in Call /\ s.pc = "fillLevel" /\ s.request = r.request /\ s.token = r.token
      /\ s.checked = r.checked /\ s.before = r.before /\ s.reply = r.reply /\ s.who = r.who
  BY <1>1 DEF Call, PCs, IInv, TypeOK
<1> HIDE DEF s
<1>3. Placed(s)
  BY <1>1, <1>2 DEF Good, Placed, Granted
<1>4. Good(s) /\ Follows(r, s)
  BY <1>1, <1>2, <1>3, OnwardGood DEF Granted
<1> QED
  BY <1>1, <1>2, <1>4, StillMoves

LEMMA FillLevelMoves ==
  ASSUME IInv, NEW c \in Calls, FillLevel(c)
  PROVE  Moves(c)
<1> DEFINE r == call[c]
           s == [r EXCEPT !.pc = "measure", !.stamp = now, !.level = level]
<1>1. /\ r \in Call /\ Good(r) /\ r.pc = "fillLevel" /\ r.request \in Requests
      /\ Becomes(c, s) /\ UNCHANGED <<world, issued, tables>>
  BY StartOfStep DEF FillLevel, At
<1>2. /\ s \in Call /\ s.pc = "measure" /\ s.request = r.request /\ s.token = r.token
      /\ s.checked = r.checked /\ s.before = r.before /\ s.reply = r.reply /\ s.who = r.who
      /\ s.level \in Levels
  BY <1>1 DEF Call, PCs, IInv, TypeOK
<1> HIDE DEF s
<1>3. Placed(s)
  BY <1>1, <1>2 DEF Good, Placed, Granted
<1>4. Good(s) /\ Follows(r, s)
  BY <1>1, <1>2, <1>3, OnwardGood DEF Granted
<1> QED
  BY <1>1, <1>2, <1>4, StillMoves

-----------------------------------------------------------------------------
(* Readings of the logs.                                                   *)

LEMMA AsksMoves ==
  ASSUME IInv, NEW c \in Calls, NEW route \in {"audit", "perf", "summary"},
         NEW asked \in Levels \cup {Keep, Current, All}, Asks(c, route, asked),
         route = "summary" /\ call[c].request.level = All => asked = All
  PROVE  Moves(c)
<1> DEFINE r == call[c]
           s == [r EXCEPT !.pc = "query", !.level = asked]
<1>1. /\ r \in Call /\ Good(r) /\ r.pc = "handle" /\ r.request.route = route
      /\ r.request \in Requests /\ UNCHANGED <<world, issued, tables>> /\ ~Working(r)
  BY StartOfStep DEF Asks, At, Working
<1>2. CASE Ends(c, "unavailable") \/ Ends(c, "invalid") \/ Ends(c, "forbidden")
  BY <1>1, <1>2, FailedMoves DEF Replies
<1>3. CASE Becomes(c, s)
  <2>1. /\ s \in Call /\ s.pc = "query" /\ s.request = r.request /\ s.token = r.token
        /\ s.checked = r.checked /\ s.before = r.before /\ s.reply = r.reply /\ s.who = r.who
        /\ s.level = asked
    BY <1>1 DEF Call, PCs
  <2> HIDE DEF s
  <2>2. Placed(s)
    BY <1>1, <2>1 DEF Good, Placed, Granted
  <2>3. Good(s) /\ Follows(r, s)
    BY <1>1, <2>1, <2>2, OnwardGood DEF Granted, OfAllLevels
  <2> QED
    BY <1>1, <1>3, <2>1, <2>3, StillMoves
<1> QED
  BY <1>2, <1>3 DEF Asks

LEMMA HandlesMove ==
  ASSUME IInv, NEW c \in Calls, HandleAudit(c) \/ HandlePerf(c) \/ HandleSummary(c)
  PROVE  Moves(c)
<1>1. CASE HandleAudit(c) \/ HandlePerf(c)
  BY <1>1, AsksMoves DEF HandleAudit, HandlePerf
<1>2. CASE HandleSummary(c)
  <2> DEFINE asked == IF call[c].request.level = Current THEN level ELSE call[c].request.level
  <2>1. Asks(c, "summary", asked) /\ call[c].request \in Requests
    BY <1>2, StartOfStep DEF HandleSummary, Asks, At
  <2>2. asked \in Levels \cup {Keep, Current, All}
    BY <2>1, RequestType DEF IInv, TypeOK
  <2>3. call[c].request.level = All => asked = All
    BY AdminApiAssumption
  <2> QED
    BY <2>1, <2>2, <2>3, AsksMoves
<1> QED
  BY <1>1, <1>2

\* Who reads a log is the user of a token.
LEMMA AdminCaller ==
  ASSUME TypeOK, NEW r \in Call, Good(r), Through(r), r.request.route \in AdminRoutes
  PROVE  r.token \in issued /\ r.token.role = "admin" /\ r.who.tenant = r.token.tenant
BY AdminApiAssumption DEF TypeOK, Good, Admitted, Caller

\* Whoever acts has a tenant.
LEMMA ActorType ==
  ASSUME IInv, NEW r \in Call, Good(r), Through(r), r.request \in Requests
  PROVE  r.who \in Person
BY RequestType, AdminApiAssumption DEF IInv, TypeOK, Good, Admitted, Caller, Token, Person

\* What LIMIT leaves out is not more recent than what it keeps, of which there
\* is as much as it allows.
LEMMA FirstNewest ==
  ASSUME NEW rows, IsFiniteSet(rows), NEW limit \in Nat, NEW shown \in First(rows, limit)
  PROVE  /\ shown \subseteq rows
         /\ \A x \in rows \ shown :
              Cardinality(shown) = limit /\ \A y \in shown : y.ts >= x.ts
<1>1. /\ shown \subseteq rows /\ Cardinality(shown) = Least(limit, Cardinality(rows))
      /\ \A y \in shown : \A x \in rows \ shown : y.ts >= x.ts
  BY DEF First
<1>2. ASSUME NEW x \in rows \ shown PROVE Cardinality(shown) = limit
  <2>1. Cardinality(shown) # Cardinality(rows)
    BY <1>1, <1>2, FS_Subset
  <2> QED
    BY <1>1, <2>1 DEF Least
<1> QED
  BY <1>1, <1>2

LEMMA ListMoves ==
  ASSUME IInv, NEW c \in Calls, call[c].pc = "query", call[c].request.route \in {"audit", "perf"},
         NEW rows, rows \in Logs, IsFiniteSet(rows),
         NEW shown \in First(rows, call[c].request.limit), Answers(c, shown),
         \A x \in rows : x.tenant = call[c].who.tenant,
         \A x \in call[c].before :
           /\ x.tenant = call[c].who.tenant
           /\ call[c].request.route = "perf" => Wanted(call[c].request, x)
           => x \in rows,
         UNCHANGED <<world, issued, tables>>
  PROVE  Moves(c)
<1> DEFINE r == call[c]
           s == [r EXCEPT !.pc = "done", !.reply = "ok", !.shown = shown]
<1>1. r \in Call /\ Good(r) /\ r.request \in Requests /\ r.request.limit \in Nat
  BY StartOfStep, RequestType
<1>2. r.who.tenant = r.token.tenant
  BY <1>1, AdminCaller DEF IInv, Through, Granted, AdminRoutes
<1>3. /\ shown \subseteq rows
      /\ \A x \in rows \ shown :
           Cardinality(shown) = r.request.limit /\ \A y \in shown : y.ts >= x.ts
  BY <1>1, FirstNewest
<1>4. shown \in Shows
  BY <1>3 DEF Logs, Shows
<1>5. /\ s.request = r.request /\ s.token = r.token /\ s.before = r.before /\ s.shown = shown
      /\ s.pc = "done"
  BY <1>1 DEF Call
<1>6. Shown(s)
  <2> HIDE DEF s
  <2>1. Newest(s)
    BY <1>2, <1>3, <1>5 DEF Newest
  <2> QED
    BY <1>5, <2>1 DEF Shown, OfAllLevels
<1> QED
  BY <1>4, <1>6, AnswersMoves DEF Granted

LEMMA ListAuditMoves ==
  ASSUME IInv, NEW c \in Calls, ListAudit(c)
  PROVE  Moves(c)
<1> DEFINE r == call[c]
<1>1. /\ r \in Call /\ Good(r) /\ r.pc = "query" /\ r.request.route = "audit"
      /\ UNCHANGED <<world, issued, tables>> /\ ~Working(r)
  BY StartOfStep DEF ListAudit, At, Working
<1>2. CASE Ends(c, "error")
  BY <1>1, <1>2, FailedMoves DEF Replies
<1>3. ASSUME NEW shown \in First(AuditMatching(r), r.request.limit), Answers(c, shown)
      PROVE  Moves(c)
  <2>1. AuditMatching(r) \subseteq audit
    BY DEF AuditMatching
  <2>2. AuditMatching(r) \in Logs /\ IsFiniteSet(AuditMatching(r))
    BY <2>1, FS_Subset DEF IInv, TypeOK, Finite, Logs
  <2>3. \A x \in AuditMatching(r) : x.tenant = r.who.tenant
    BY DEF AuditMatching
  <2>4. \A x \in r.before : x.tenant = r.who.tenant => x \in AuditMatching(r)
    BY <1>1 DEF Good, Remembered, AuditMatching
  <2> QED
    BY <1>1, <1>3, <2>2, <2>3, <2>4, ListMoves
<1> QED
  BY <1>2, <1>3 DEF ListAudit

LEMMA PerfMatched ==
  ASSUME IInv, NEW r
  PROVE  /\ PerfMatching(r) \subseteq perf /\ IsFiniteSet(PerfMatching(r))
         /\ \A x \in PerfMatching(r) : x.tenant = r.who.tenant /\ Wanted(r.request, x)
         /\ \A x \in perf : x.tenant = r.who.tenant /\ Wanted(r.request, x) =>
              x \in PerfMatching(r)
<1>1. PerfMatching(r) \subseteq perf
  BY DEF PerfMatching
<1>2. IsFiniteSet(PerfMatching(r))
  BY <1>1, FS_Subset DEF IInv, Finite
<1> QED
  BY <1>1, <1>2 DEF PerfMatching, Wanted

LEMMA ListPerfMoves ==
  ASSUME IInv, NEW c \in Calls, ListPerf(c)
  PROVE  Moves(c)
<1> DEFINE r == call[c]
<1>1. /\ r \in Call /\ Good(r) /\ r.pc = "query" /\ r.request.route = "perf"
      /\ UNCHANGED <<world, issued, tables>> /\ ~Working(r)
  BY StartOfStep DEF ListPerf, At, Working
<1>2. CASE Ends(c, "error")
  BY <1>1, <1>2, FailedMoves DEF Replies
<1>3. ASSUME NEW shown \in First(PerfMatching(r), r.request.limit), Answers(c, shown)
      PROVE  Moves(c)
  <2>1. PerfMatching(r) \in Logs
    BY PerfMatched DEF IInv, TypeOK, Logs
  <2>2. r.before \subseteq perf
    BY <1>1 DEF Good, Remembered
  <2> QED
    BY <1>1, <1>3, <2>1, <2>2, PerfMatched, ListMoves
<1> QED
  BY <1>2, <1>3 DEF ListPerf

\* A summary of all levels counts the rows that match, each in its group.
LEMMA GroupsCount ==
  ASSUME IInv, NEW r \in Call, Good(r), r.pc = "query", r.request.route = "summary",
         NEW s, s.request = r.request, s.token = r.token, s.before = r.before,
         s.shown = Groups(PerfMatching(r))
  PROVE  Summed(s)
<1>1. r.who.tenant = r.token.tenant /\ r.before \subseteq perf
  BY AdminCaller DEF IInv, Through, Granted, AdminRoutes, Good, Remembered
<1>2. ASSUME NEW x \in s.before, Counted(s, {x}, x) # {}
      PROVE  \E g \in s.shown : g.dcs = x.dcs /\ g.level = x.level
  <2> DEFINE n == Cardinality({y \in PerfMatching(r) : y.dcs = x.dcs /\ y.level = x.level})
             g == [dcs |-> x.dcs, level |-> x.level, count |-> n]
  <2>1. x \in PerfMatching(r)
    BY <1>1, <1>2, PerfMatched DEF Counted
  <2>2. g \in s.shown
    BY <2>1 DEF Groups
  <2>3. g.dcs = x.dcs /\ g.level = x.level
    OBVIOUS
  <2> HIDE DEF g
  <2> QED
    BY <2>2, <2>3
<1>3. ASSUME NEW g \in s.shown
      PROVE  g.count \in Cardinality(Counted(s, s.before, g))..Cardinality(Counted(s, perf, g))
  <2>1. PICK x \in PerfMatching(r) :
          g = [dcs |-> x.dcs, level |-> x.level,
               count |-> Cardinality({y \in PerfMatching(r) : y.dcs = x.dcs
                                                            /\ y.level = x.level})]
    BY <1>3 DEF Groups
  <2>2. Counted(s, perf, g) = {y \in PerfMatching(r) : y.dcs = x.dcs /\ y.level = x.level}
    BY <1>1, <2>1, PerfMatched DEF Counted
  <2>3. g.count = Cardinality(Counted(s, perf, g))
    BY <2>1, <2>2
  <2>4. /\ Cardinality(Counted(s, s.before, g)) \in Nat
        /\ Cardinality(Counted(s, perf, g)) \in Nat
        /\ Cardinality(Counted(s, s.before, g)) <= Cardinality(Counted(s, perf, g))
    BY <1>1, CountedMore DEF IInv, Finite
  <2> QED
    BY <2>3, <2>4
<1> QED
  BY <1>2, <1>3 DEF Summed

LEMMA SummaryMoves ==
  ASSUME IInv, NEW c \in Calls, Summary(c)
  PROVE  Moves(c)
<1> DEFINE r == call[c]
           rows == {x \in PerfMatching(r) : r.level \in {All, x.level}}
           s == [r EXCEPT !.pc = "done", !.reply = "ok", !.shown = Groups(rows)]
<1>1. /\ r \in Call /\ Good(r) /\ r.pc = "query" /\ r.request.route = "summary"
      /\ UNCHANGED <<world, issued, tables>> /\ ~Working(r)
  BY StartOfStep DEF Summary, At, Working
<1>2. CASE Ends(c, "error")
  BY <1>1, <1>2, FailedMoves DEF Replies
<1>3. CASE Answers(c, Groups(rows))
  <2>1. Groups(rows) \in Shows
    <3>1. rows \subseteq PerfRow /\ IsFiniteSet(rows)
      BY PerfMatched, FS_Subset DEF IInv, TypeOK
    <3>2. ASSUME NEW x \in rows, NEW n,
                 n = Cardinality({y \in rows : y.dcs = x.dcs /\ y.level = x.level})
          PROVE  [dcs |-> x.dcs, level |-> x.level, count |-> n] \in Group
      <4>1. n \in Nat
        BY <3>1, <3>2, FS_Subset, FS_CardinalityType
      <4>2. x.dcs \in BOOLEAN /\ x.level \in Levels
        BY <3>1 DEF PerfRow
      <4> QED
        BY <4>1, <4>2 DEF Group
    <3>3. Groups(rows) \subseteq Group
      <4> HIDE DEF rows
      <4> QED
        BY <3>2 DEF Groups
    <3> QED
      BY <3>3 DEF Shows
  <2>2. /\ s.request = r.request /\ s.token = r.token /\ s.before = r.before
        /\ s.shown = Groups(rows) /\ s.pc = "done"
    BY <1>1 DEF Call
  <2>3. Shown(s)
    <3>1. OfAllLevels(r) => Groups(rows) = Groups(PerfMatching(r))
      <4>1. OfAllLevels(r) => rows = PerfMatching(r)
        BY <1>1 DEF Good, Shown
      <4> QED
        BY <4>1
    <3> HIDE DEF s
    <3>2. OfAllLevels(r) => Summed(s)
      BY <1>1, <2>2, <3>1, GroupsCount
    <3> QED
      BY <1>1, <2>2, <3>2 DEF Shown, OfAllLevels
  <2> QED
    BY <1>1, <1>3, <2>1, <2>3, AnswersMoves DEF Granted
<1> QED
  BY <1>2, <1>3 DEF Summary

-----------------------------------------------------------------------------
(* Steps that issue a token or insert a row.                               *)

LEMMA SignKeeps ==
  ASSUME IInv, NEW c \in Calls, Sign(c)
  PROVE  IInv'
<1> DEFINE r == call[c]
<1>1. /\ call \in [Calls -> Call] /\ r \in Call /\ Good(r) /\ r.pc = "sign"
      /\ r.request.route = "login" /\ now \in Nat /\ now' = now /\ ~Working(r)
      /\ UNCHANGED <<world, settings, tables>>
  BY StartOfStep DEF Sign, At, world, Good, Placed, Working
<1>2. PICK s \in Call :
        /\ s.pc = "done" /\ s.reply = "ok" /\ s.request = r.request /\ s.token = r.token
        /\ s.checked = r.checked /\ s.before = r.before /\ Becomes(c, s)
  <2> DEFINE s == [r EXCEPT !.pc = "done", !.reply = "ok"]
  <2>1. Becomes(c, s)
    BY DEF Sign, Ends
  <2>2. /\ s \in Call /\ s.pc = "done" /\ s.reply = "ok" /\ s.request = r.request
        /\ s.token = r.token /\ s.checked = r.checked /\ s.before = r.before
    BY <1>1, AnsweredFields
  <2> HIDE DEF s
  <2> QED
    BY <2>1, <2>2
<1>3. PICK token : token = Signed(r) /\ issued' = issued \cup {token}
  BY DEF Sign
<1>4. /\ <<r.who.tenant, r.who.user>> \in Users /\ r.who.role \in Roles
      /\ <<<<r.who.tenant, r.who.user>>, r.who.role, r.stamp>> \in held
      /\ r.stamp \in Time /\ r.stamp <= now
      /\ r.request.ok /\ LoginKey(r.request) = <<r.who.tenant, r.who.user>>
  BY <1>1 DEF Good, Signing, IInv, TypeOK
<1>5. token \in Token /\ token.tenant = r.who.tenant /\ token.user = r.who.user
      /\ token.role = r.who.role /\ token.read = r.stamp /\ token.made = now
      /\ token.expires = now + TTL
  <2>1. r.who.tenant \in STRING /\ r.who.user \in STRING /\ r.who.role \in STRING
    BY <1>4, AdminApiAssumption
  <2>2. now \in Time /\ now + TTL \in Nat
    BY <1>1, AdminApiAssumption DEF IInv, TypeOK
  <2> QED
    BY <1>3, <1>4, <2>1, <2>2 DEF Signed, Expiry, Token
<1>6. Grows
  BY <1>1, <1>3 DEF Grows, IInv, Finite, world, tables
<1>7. Good(s)'
  <2>1. Placed(s) /\ Admitted(s) /\ Signing(s)
    BY <1>1, <1>2 DEF Good, Placed, Admitted, Signing, Through, Granted
  <2>2. Accepted(s) /\ Remembered(s) /\ Shown(s)
    BY <1>1, <1>2 DEF Good, Accepted, Remembered, Shown, OfAllLevels
  <2> QED
    BY <1>1, <1>2, <1>6, <2>1, <2>2, GoodStays DEF Good, IInv
<1>8. /\ call' \in [Calls -> Call] /\ AllGood' /\ call'[c] = s
      /\ \A x : x.call \in Calls /\ Attributed(x) => Attributed(x)'
      /\ \A t : Earned(t) => Earned(t)'
  <2>1. Moves(c)
    BY <1>1, <1>2, <1>7 DEF Moves, Follows
  <2> QED
    BY <1>1, <1>2, <1>6, <2>1, MovesFrame DEF Becomes
<1>9. Earned(token)'
  <2>1. <<<<token.tenant, token.user>>, token.role, token.read>> \in held'
    BY <1>1, <1>4, <1>5 DEF world
  <2>2. /\ Answered(c, {"login"})' /\ call'[c].request.ok
        /\ LoginKey(call'[c].request) = <<token.tenant, token.user>>
    BY <1>1, <1>2, <1>4, <1>5, <1>8 DEF Answered
  <2> QED
    BY <1>4, <1>5, <2>1, <2>2 DEF Earned
<1>10. TypeOK' /\ HeldNow' /\ Finite'
  BY <1>1, <1>3, <1>5, <1>8 DEF IInv, TypeOK, HeldNow, Finite, world, settings, tables
<1>11. Tokens'
  BY <1>3, <1>8, <1>9 DEF IInv, Tokens
<1>12. Rows'
  <2>1. \A x \in Own : x.call \in Calls
    BY DEF IInv, TypeOK, Own, AuditRow, PerfRow
  <2> QED
    BY <1>1, <1>8, <2>1 DEF IInv, Rows, Own, tables
<1> QED
  BY <1>8, <1>10, <1>11, <1>12 DEF IInv

\* A row of a call that has been let through goes in, or gets lost.
LEMMA LoggedKeeps ==
  ASSUME IInv, NEW c \in Calls, NEW s \in Call, call[c].pc \in Granted, Becomes(c, s), Good(s),
         Follows(call[c], s), Working(s),
         UNCHANGED <<world, settings, issued>>,
         NEW x, x.call = c, x.tenant = s.who.tenant,
         \/ UNCHANGED perf /\ audit' \in {audit, audit \cup {x}} /\ x \in AuditRow
         \/ UNCHANGED audit /\ perf' \in {perf, perf \cup {x}} /\ x \in PerfRow
  PROVE  IInv'
<1>1. call \in [Calls -> Call] /\ now \in Nat /\ now' = now /\ call[c].pc # "done"
  BY StartOfStep DEF world, Granted
<1>2. Finite' /\ audit' \subseteq AuditRow /\ perf' \subseteq PerfRow
  BY FS_AddElement DEF IInv, TypeOK, Finite
<1>3. Grows
  BY <1>1, <1>2 DEF Grows, Finite, world
<1>4. /\ call' \in [Calls -> Call] /\ AllGood' /\ call'[c] = s
      /\ \A y : y.call \in Calls /\ Attributed(y) => Attributed(y)'
      /\ \A t : Earned(t) => Earned(t)'
  <2>1. Good(s)'
    BY <1>1, <1>3, GoodStays DEF IInv
  <2>2. Moves(c)
    BY <1>1, <2>1 DEF Moves
  <2> QED
    BY <1>1, <1>3, <2>2, MovesFrame DEF Becomes
<1>5. Attributed(x)'
  BY <1>4 DEF Attributed, Working, Through
<1>6. TypeOK' /\ HeldNow'
  BY <1>2, <1>4 DEF IInv, TypeOK, HeldNow, world, settings
<1>7. Tokens'
  BY <1>4 DEF IInv, Tokens
<1>8. Rows'
  <2>1. \A y \in Own : y.call \in Calls
    BY DEF IInv, TypeOK, Own, AuditRow, PerfRow
  <2>2. Own' \subseteq Own \cup {x}
    BY DEF Own
  <2> QED
    BY <1>4, <1>5, <2>1, <2>2 DEF IInv, Rows
<1> QED
  BY <1>2, <1>4, <1>6, <1>7, <1>8 DEF IInv

LEMMA JournalKeeps ==
  ASSUME IInv, NEW c \in Calls, Journal(c)
  PROVE  IInv'
<1> DEFINE r == call[c]
           s == [r EXCEPT !.pc = "fillMode"]
           x == [call |-> c, tenant |-> r.who.tenant, ts |-> r.stamp]
<1>1. /\ r \in Call /\ Good(r) /\ r.pc = "journal" /\ r.request.route = "work"
      /\ r.request \in Requests /\ UNCHANGED <<world, settings, issued, perf>>
      /\ audit' \in {audit, audit \cup {x}}
  BY StartOfStep DEF Journal, At, Good, Placed
<1>2. /\ s \in Call /\ s.pc = "fillMode" /\ s.request = r.request /\ s.token = r.token
      /\ s.checked = r.checked /\ s.before = r.before /\ s.reply = r.reply /\ s.who = r.who
      /\ Becomes(c, s)
  BY <1>1 DEF Journal, Call, PCs
<1>3. x \in AuditRow /\ x.call = c /\ x.tenant = s.who.tenant
  <2>1. r.who.tenant \in STRING /\ r.stamp \in Time
    BY <1>1, ActorType DEF Through, Granted, Person, Call, IInv
  <2> QED
    BY <1>2, <2>1 DEF AuditRow
<1> HIDE DEF s, x
<1>4. Placed(s)
  BY <1>1, <1>2 DEF Good, Placed, Granted
<1>5. Good(s) /\ Follows(r, s)
  BY <1>1, <1>2, <1>4, OnwardGood DEF Granted
<1>6. Working(s) /\ r.pc \in Granted
  BY <1>1, <1>2 DEF Working, Through, Granted
<1> QED
  BY <1>1, <1>2, <1>3, <1>5, <1>6, LoggedKeeps

LEMMA MeasureKeeps ==
  ASSUME IInv, NEW c \in Calls, Measure(c)
  PROVE  IInv'
<1> DEFINE r == call[c]
           s == [r EXCEPT !.pc = "done", !.reply = "ok"]
           x == [call |-> c, tenant |-> r.who.tenant, ts |-> r.stamp, source |-> OwnSource,
                 dcs |-> r.dcs, level |-> r.level]
<1>1. /\ r \in Call /\ Good(r) /\ r.pc = "measure" /\ r.request.route = "work"
      /\ r.request \in Requests /\ UNCHANGED <<world, settings, issued, audit>>
      /\ perf' \in {perf, perf \cup {x}}
  BY StartOfStep DEF Measure, At, Good, Placed
<1>2. /\ s \in Call /\ s.pc = "done" /\ s.reply = "ok" /\ s.request = r.request
      /\ s.token = r.token /\ s.checked = r.checked /\ s.before = r.before /\ s.who = r.who
      /\ Becomes(c, s)
  <2>1. Becomes(c, s)
    BY DEF Measure, Ends
  <2> QED
    BY <1>1, <2>1, AnsweredFields
<1>3. x \in PerfRow /\ x.call = c /\ x.tenant = s.who.tenant
  <2>1. r.who.tenant \in STRING /\ r.stamp \in Time /\ r.dcs \in BOOLEAN
    BY <1>1, ActorType DEF Through, Granted, Person, Call, IInv
  <2>2. r.level \in Levels
    BY <1>1 DEF Good, Placed
  <2> QED
    BY <1>2, <2>1, <2>2, AdminApiAssumption DEF PerfRow
<1> HIDE DEF s, x
<1>4. Shown(s)
  BY <1>1, <1>2 DEF Shown, OfAllLevels
<1>5. Good(s) /\ Follows(r, s)
  BY <1>1, <1>2, <1>4, AnsweredGood DEF Granted
<1>6. Working(s) /\ r.pc \in Granted
  BY <1>1, <1>2 DEF Working, Through, Granted
<1> QED
  BY <1>1, <1>2, <1>3, <1>5, <1>6, LoggedKeeps

-----------------------------------------------------------------------------
(* Steps of nobody's call.                                                 *)

LEMMA RestKeeps ==
  ASSUME IInv, Grows, now' \in Nat, UNCHANGED <<issued, tables, call>>
  PROVE  AllGood' /\ Tokens' /\ Rows' /\ Finite'
<1>1. AllGood'
  BY StartOfStep, GoodStays DEF IInv, TypeOK, AllGood, Time
<1>2. Tokens'
  BY DEF IInv, Tokens, Earned, Answered, Grows
<1>3. Rows'
  BY DEF IInv, Rows, Own, Attributed, tables
<1> QED
  BY <1>1, <1>2, <1>3 DEF IInv, Finite, tables

LEMMA TickKeeps ==
  ASSUME IInv, Tick
  PROVE  IInv'
<1>1. now \in Nat /\ now' = now + 1 /\ now' \in Time
  BY AdminApiAssumption DEF Tick, IInv, TypeOK, Time
<1>2. Grows
  BY <1>1 DEF Tick, Grows, IInv, Finite, tables
<1>3. HeldNow' /\ TypeOK'
  BY <1>1 DEF Tick, IInv, TypeOK, HeldNow, settings, tables
<1> QED
  BY <1>1, <1>2, <1>3, RestKeeps DEF Tick, IInv

LEMMA ChangeRoleKeeps ==
  ASSUME IInv, ChangeRole
  PROVE  IInv'
<1>1. now \in Nat /\ now' = now /\ now \in Time /\ changes' \in 0..MaxChanges
  BY AdminApiAssumption DEF ChangeRole, IInv, TypeOK, Time
<1>2. PICK u \in Users, role \in Roles :
        users' = [users EXCEPT ![u] = role] /\ held' = held \cup {<<u, role, now>>}
  BY DEF ChangeRole
<1>3. Grows
  BY <1>1, <1>2 DEF ChangeRole, Grows, IInv, Finite, tables
<1>4. HeldNow'
  BY <1>1, <1>2 DEF IInv, TypeOK, HeldNow
<1>5. TypeOK'
  BY <1>1, <1>2 DEF ChangeRole, IInv, TypeOK, settings, tables
<1> QED
  BY <1>1, <1>3, <1>4, <1>5, RestKeeps DEF ChangeRole, IInv

-----------------------------------------------------------------------------
(* The invariant.                                                          *)

LEMMA InitIInv == Init => IInv
<1> SUFFICES ASSUME Init PROVE IInv
  OBVIOUS
<1>1. TypeOK
  BY IdleType, AdminApiAssumption DEF Init, TypeOK, Time
<1>2. HeldNow /\ Tokens
  BY DEF Init, HeldNow, Tokens
<1>3. Finite
  BY AdminApiAssumption, FS_EmptySet DEF Init, Finite
<1>4. Rows
  BY AdminApiAssumption DEF Init, Rows, Own
<1>5. AllGood
  <2>1. Idle.pc = "idle" /\ Idle.reply = "none" /\ Idle.token = NoToken
    BY DEF Idle
  <2>2. Good(Idle)
    BY <2>1 DEF Good, Placed, Admitted, Signing, Accepted, Remembered, Shown, Through, Granted
  <2> QED
    BY <2>2 DEF Init, AllGood
<1> QED
  BY <1>1, <1>2, <1>3, <1>4, <1>5 DEF IInv

LEMMA StepIInv ==
  ASSUME IInv, NEW c \in Calls, Step(c)
  PROVE  IInv'
<1>1. mode \in BOOLEAN /\ level \in Levels
  BY DEF IInv, TypeOK
<1>2. CASE Login(c) \/ LookUp(c) \/ Guard(c)
  <2>1. UNCHANGED <<world, settings, issued, tables>>
    BY <1>2 DEF Login, LookUp, Guard
  <2> QED
    BY <1>1, <1>2, <2>1, LoginMoves, LookUpMoves, GuardMoves, QuietStep DEF settings
<1>3. CASE PatchSettings(c)
  BY <1>3, PatchSettingsMoves, QuietStep DEF PatchSettings
<1>4. CASE ShowMode(c) \/ ShowLevel(c)
  <2>1. UNCHANGED <<world, settings, issued, tables>>
    BY <1>4 DEF ShowMode, ShowLevel
  <2> QED
    BY <1>1, <1>4, <2>1, ShowModeMoves, ShowLevelMoves, QuietStep DEF settings
<1>5. CASE Work(c) \/ FillMode(c) \/ FillLevel(c)
  <2>1. UNCHANGED <<world, settings, issued, tables>>
    BY <1>5 DEF Work, FillMode, FillLevel
  <2> QED
    BY <1>1, <1>5, <2>1, WorkMoves, FillModeMoves, FillLevelMoves, QuietStep DEF settings
<1>6. CASE HandleAudit(c) \/ HandlePerf(c) \/ HandleSummary(c)
  <2>1. UNCHANGED <<world, settings, issued, tables>>
    BY <1>6 DEF HandleAudit, HandlePerf, HandleSummary, Asks
  <2> QED
    BY <1>1, <1>6, <2>1, HandlesMove, QuietStep DEF settings
<1>7. CASE ListAudit(c) \/ ListPerf(c) \/ Summary(c)
  <2>1. UNCHANGED <<world, settings, issued, tables>>
    BY <1>7 DEF ListAudit, ListPerf, Summary
  <2> QED
    BY <1>1, <1>7, <2>1, ListAuditMoves, ListPerfMoves, SummaryMoves, QuietStep DEF settings
<1> QED
  BY <1>2, <1>3, <1>4, <1>5, <1>6, <1>7, SignKeeps, JournalKeeps, MeasureKeeps DEF Step

LEMMA NextIInv == IInv /\ [Next]_vars => IInv'
<1> SUFFICES ASSUME IInv, [Next]_vars PROVE IInv'
  OBVIOUS
<1>1. ASSUME NEW c \in Calls, NEW rq \in Requests, Begin(c, rq) PROVE IInv'
  <2>1. UNCHANGED <<world, settings, issued, tables>>
    BY <1>1 DEF Begin
  <2> QED
    BY <1>1, <2>1, BeginMoves, QuietStep DEF settings, IInv, TypeOK
<1>2. CASE UNCHANGED vars
  <2>1. /\ UNCHANGED <<database, now, users, changes, held, mode, level, issued, audit, perf,
                       call>>
    BY <1>2 DEF vars, world, settings, tables
  <2>2. TypeOK' /\ HeldNow'
    BY <2>1 DEF IInv, TypeOK, HeldNow
  <2>3. Grows /\ now' \in Nat
    BY <2>1, GrowsStill DEF IInv, TypeOK, Time, tables
  <2> QED
    BY <2>1, <2>2, <2>3, RestKeeps DEF IInv, tables
<1> QED
  BY <1>1, <1>2, StepIInv, TickKeeps, ChangeRoleKeeps DEF Next

LEMMA Invariance == Spec => []IInv
BY InitIInv, NextIInv, PTL DEF Spec

-----------------------------------------------------------------------------
(* What the invariant says to a caller.                                    *)

\* An answer that is not a login's was given to a call that had been let in.
LEMMA AnswersThrough ==
  ASSUME IInv, NEW c \in Calls, call[c].reply = "ok"
  PROVE  /\ call[c] \in Call /\ Good(call[c]) /\ call[c].pc = "done"
         /\ call[c].request.route # "login" => Through(call[c])
BY StartOfStep DEF Through

\* Every variable keeps its type, for any number of calls, any users, tokens
\* and rows there were, and any bound of the clock.
THEOREM TypeCorrect == Spec => []TypeOK
<1>1. IInv => TypeOK
  BY DEF IInv
<1> QED
  BY <1>1, Invariance, PTL

\* Nobody is shown the settings or the logs, or changes the settings, without a
\* token of an administrator that a login with the right password returned.
THEOREM LoginsComeFirst == Spec => []LoggedIn
<1>1. ASSUME IInv, NEW c \in Calls, Answered(c, AdminRoutes)
      PROVE  LET token == call[c].token IN
             /\ token \in issued /\ token.role = "admin"
             /\ token \in SeedTokens \/ Earned(token)
  <2>1. Through(call[c]) /\ Good(call[c]) /\ call[c] \in Call /\ TypeOK
    BY <1>1, AnswersThrough DEF Answered, AdminRoutes, IInv
  <2> QED
    BY <1>1, <2>1, AdminCaller DEF Answered, IInv, Tokens
<1>2. IInv => LoggedIn
  BY <1>1 DEF LoggedIn, Earned
<1> QED
  BY <1>2, Invariance, PTL

\* A role outlives its withdrawal by no more than the life of a token, whoever
\* withdraws it when, if the tokens of earlier processes live no longer.
THEOREM RolesWereHeld ==
  ASSUME OneLifetime
  PROVE  Spec => []RoleWasHeld
<1>1. ASSUME IInv, NEW c \in Calls, call[c].token # NoToken
      PROVE  LET token == call[c].token IN
             /\ call[c].checked < token.made + TTL
             /\ token \in SeedTokens \/ Earned(token)
  <2> DEFINE token == call[c].token
  <2>1. token \in issued /\ call[c].checked < token.expires /\ call[c].checked \in Nat
    BY <1>1, StartOfStep DEF Good, Accepted, Call, Time
  <2>2. token.expires \in Nat /\ token.made \in Nat
    BY <1>1, <2>1 DEF IInv, TypeOK, Token, Time
  <2>3. token \in SeedTokens \/ Earned(token)
    BY <1>1, <2>1 DEF IInv, Tokens
  <2>4. token.expires <= token.made + TTL
    BY <2>2, <2>3, AdminApiAssumption DEF OneLifetime, Earned
  <2> QED
    BY <2>1, <2>2, <2>3, <2>4, AdminApiAssumption
<1>2. IInv => RoleWasHeld
  BY <1>1 DEF RoleWasHeld, Earned
<1> QED
  BY <1>2, Invariance, PTL

\* A call with a bearer token leaves rows of that token's tenant only.
THEOREM BearersBind == Spec => []BearerBinds
<1>1. ASSUME IInv, NEW x \in Own
      PROVE  LET r == call[x.call] IN
             /\ r.request.auth # "forged"
             /\ r.request.auth = "bearer" => r.token \in issued /\ x.tenant = r.token.tenant
             /\ r.request.auth # "bearer" => x.tenant = r.request.who.tenant
  <2> DEFINE r == call[x.call]
  <2>1. x.call \in Calls
    BY <1>1 DEF IInv, TypeOK, Own, AuditRow, PerfRow
  <2>2. Admitted(r) /\ Through(r) /\ x.tenant = r.who.tenant
    BY <1>1, <2>1, StartOfStep DEF IInv, Rows, Attributed, Good
  <2>3. NoToken \notin issued
    BY <1>1, AdminApiAssumption DEF IInv, TypeOK
  <2> QED
    BY <2>2, <2>3 DEF Admitted, Caller
<1>2. IInv => BearerBinds
  BY <1>1 DEF BearerBinds, Own
<1> QED
  BY <1>2, Invariance, PTL

\* Lists leave out nothing that is newer than what they show, for any limit and
\* any number of rows.
THEOREM ListsAreNewest == Spec => []ListsNewest
<1>1. ASSUME IInv, NEW c \in Calls, NEW route \in {"audit", "perf"}, Answered(c, {route})
      PROVE  Newest(call[c]) /\ call[c].request.route = route
  BY <1>1, AnswersThrough DEF Answered, Good, Shown
<1>2. IInv => ListsNewest
  <2> SUFFICES ASSUME IInv, NEW c \in Calls, NEW route \in {"audit", "perf"},
                      Answered(c, {route})
               PROVE  LET r == call[c]
                          mine == {x \in r.before : /\ x.tenant = r.token.tenant
                                                    /\ route = "perf" => Wanted(r.request, x)} IN
                      /\ \A x \in mine \ r.shown : /\ Cardinality(r.shown) = r.request.limit
                                                  /\ \A y \in r.shown : y.ts >= x.ts
                      /\ \A y \in r.shown : y.tenant = r.token.tenant
    BY DEF ListsNewest
  <2> QED
    BY <1>1 DEF Newest
<1> QED
  BY <1>2, Invariance, PTL

\* Summaries of all levels account for every row, however many are inserted
\* while they are computed.
THEOREM SummariesCount == Spec => []SummaryCounts
<1>1. ASSUME IInv, NEW c \in Calls, Answered(c, {"summary"}), call[c].request.level = All
      PROVE  Summed(call[c])
  BY <1>1, AnswersThrough DEF Answered, Good, Shown, OfAllLevels
<1>2. IInv => SummaryCounts
  BY <1>1 DEF SummaryCounts, Summed, Counted
<1> QED
  BY <1>2, Invariance, PTL

\* The settings change only by the PATCH of an administrator, whose token was
\* good when the middleware looked at it, and whose role the table had given.
THEOREM OnlyAdministratorsPatch ==
  Spec => SettingsByAdmins
<1>1. ASSUME IInv, NEW c \in Calls, PatchSettings(c) PROVE ByAdmin(c)
  <2> DEFINE r == call[c]
             token == r.token
  <2>1. /\ call \in [Calls -> Call] /\ r \in Call /\ Good(r) /\ TypeOK
        /\ r.pc = "handle" /\ r.request.route = "patchSettings"
    BY <1>1, StartOfStep DEF PatchSettings, At, IInv
  <2>2. token \in issued /\ token.role = "admin"
    BY <2>1, AdminCaller DEF Through, Granted, AdminRoutes
  <2>3. token # NoToken
    BY <2>1, <2>2, AdminApiAssumption DEF TypeOK
  <2>4. r.checked < token.expires
    BY <2>1, <2>3 DEF Good, Accepted
  <2>5. token \in SeedTokens \/ Earned(token)
    BY <1>1, <2>2 DEF IInv, Tokens
  <2>6. call'[c] # call[c]
    <3>1. PICK s \in Call : call' = [call EXCEPT ![c] = s] /\ s.pc # "handle"
      <4>1. "invalid" \in Replies /\ "showMode" \in PCs
        BY DEF Replies, PCs
      <4>2. /\ [r EXCEPT !.pc = "showMode"] \in Call
            /\ [r EXCEPT !.pc = "showMode"].pc = "showMode"
        BY <2>1, <4>1 DEF Call
      <4>3. /\ [r EXCEPT !.pc = "done", !.reply = "invalid"] \in Call
            /\ [r EXCEPT !.pc = "done", !.reply = "invalid"].pc = "done"
        BY <2>1, <4>1, EndsFields
      <4>4. \/ call' = [call EXCEPT ![c] = [r EXCEPT !.pc = "showMode"]]
            \/ call' = [call EXCEPT ![c] = [r EXCEPT !.pc = "done", !.reply = "invalid"]]
        BY <1>1 DEF PatchSettings, Ends, Becomes
      <4> QED
        BY <4>2, <4>3, <4>4
    <3> QED
      BY <2>1, <3>1
  <2> QED
    BY <2>1, <2>2, <2>4, <2>5, <2>6 DEF ByAdmin, At, Earned
<1>2. IInv /\ [Next]_vars => [\E c \in Calls : ByAdmin(c)]_settings
  <2> SUFFICES ASSUME IInv, [Next]_vars, \A c \in Calls : ~PatchSettings(c)
               PROVE  UNCHANGED settings
    BY <1>1
  <2>1. ASSUME NEW c \in Calls, Step(c) PROVE UNCHANGED settings
    <3>1. CASE Login(c) \/ LookUp(c) \/ Sign(c) \/ Guard(c) \/ ShowMode(c) \/ ShowLevel(c)
      BY <3>1 DEF Login, LookUp, Sign, Guard, ShowMode, ShowLevel
    <3>2. CASE Work(c) \/ Journal(c) \/ FillMode(c) \/ FillLevel(c) \/ Measure(c)
      BY <3>2 DEF Work, Journal, FillMode, FillLevel, Measure
    <3>3. CASE HandleAudit(c) \/ HandlePerf(c) \/ HandleSummary(c)
      BY <3>3 DEF HandleAudit, HandlePerf, HandleSummary, Asks
    <3>4. CASE ListAudit(c) \/ ListPerf(c) \/ Summary(c)
      BY <3>4 DEF ListAudit, ListPerf, Summary
    <3> QED
      BY <2>1, <3>1, <3>2, <3>3, <3>4 DEF Step
  <2>2. ASSUME NEW c \in Calls, NEW rq \in Requests, Begin(c, rq) PROVE UNCHANGED settings
    BY <2>2 DEF Begin
  <2> QED
    BY <2>1, <2>2 DEF Next, Tick, ChangeRole, vars
<1> QED
  BY <1>2, Invariance, PTL DEF Spec, SettingsByAdmins
=============================================================================
