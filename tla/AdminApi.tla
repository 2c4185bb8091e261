------------------------------ MODULE AdminApi ------------------------------
(***************************************************************************)
(* Who may call the Go backend over HTTP, and what its administrators read *)
(* and change (internal/transport/http, internal/auth, AuthService,        *)
(* AuditService, PerfService and their repositories).  A call is a login,  *)
(* a reading or a PATCH of the settings, a reading of the journal, of the  *)
(* performance rows or of their summary, or any operation on films, halls  *)
(* or spectators, of which only the rows it leaves in the two logs are     *)
(* seen here.  The table of users is changed by nobody in this program.    *)
(***************************************************************************)
EXTENDS DcsPolicy, Naturals, FiniteSets

CONSTANTS
  Calls, Requests, NoRequest,
  Users,        \* <<tenant, username>>
  StartRoles,   \* Users -> role, the table at the start
  Roles,        \* roles the table may give
  SeedTokens,   \* tokens of an earlier process with the same secret
  NoToken,
  SeedPerf,     \* rows of an earlier process or of another backend
  Sources,      \* "unknown" is what a row without a source counts as
  OwnSource,    \* PERF_SOURCE
  Levels, StartLevel, StartMode,
  Keep,         \* a setting that a PATCH leaves out
  Current, All, \* cache levels a summary may ask for
  Shared,       \* the caller of rows that are not of this process
  TTL,          \* JWT_TTL_MINUTES
  MaxTime,      \* bound on the clock
  MaxChanges    \* bound on the changes of the table of users

AdminRoutes == {"getSettings", "patchSettings", "audit", "perf", "summary"}
Routes == AdminRoutes \cup {"login", "work"}
Auths == {"none", "other", "forged", "bearer"}  \* the Authorization header

Time == 0..MaxTime

Token == [tenant : STRING, user : STRING, role : STRING, expires : Nat,
          read : Time,   \* when the role was read from the table
          made : Time]   \* when it was signed

AuditRow == [call : Calls, tenant : STRING, ts : Time]
PerfRow  == [call : Calls \cup {Shared}, tenant : STRING, ts : Time, source : Sources,
             dcs : BOOLEAN, level : Levels]
Group    == [dcs : BOOLEAN, level : Levels, count : Nat]
Settings == [dcs : BOOLEAN, level : Levels]

Person == [tenant : STRING, user : STRING, role : STRING]

PCs == {"idle", "login", "lookup", "sign", "guard", "handle", "showMode", "showLevel",
        "journal", "fillMode", "fillLevel", "measure", "query", "done"}
Replies == {"none", "ok", "unauthorized", "forbidden", "invalid", "unavailable", "error"}

ASSUME AdminApiAssumption ==
  /\ Requests \subseteq
       [route : Routes, auth : Auths,
        who : Person,                            \* X- headers, or who logs in
        ok : BOOLEAN,                            \* the password, the body, the parameters
        limit : Nat \ {0},
        source : Sources \cup {"default"},
        mode : BOOLEAN \cup {Keep},
        level : Levels \cup {Keep, Current, All}]
  /\ \A rq \in Requests :
       rq.route = "patchSettings" /\ rq.ok => rq.level \in Levels \cup {Keep}
  /\ NoRequest \notin Requests /\ NoToken \notin Token /\ All # Current
  /\ Users \subseteq STRING \X STRING
  /\ Roles \subseteq STRING /\ StartRoles \in [Users -> Roles]
  /\ SeedTokens \subseteq Token
  /\ SeedPerf \subseteq PerfRow /\ IsFiniteSet(SeedPerf)
  /\ \A x \in SeedPerf : x.call = Shared
  /\ "unknown" \in Sources /\ OwnSource \in Sources
  /\ StartLevel \in Levels /\ StartMode \in BOOLEAN
  /\ TTL \in Nat /\ MaxTime \in Nat /\ MaxChanges \in Nat
  /\ {"audit.read", "perf.read"} \subseteq AuditActions
  /\ {"audit.read", "perf.read"} \cap (ReadActions \cup WriteActions \cup BootstrapActions) = {}

VARIABLES
  database,    \* the process has a database
  now, users, changes,
  mode, level, \* runtime.Settings
  issued,      \* the tokens that exist
  audit, perf, \* the tables
  held,        \* history: <<user, role, time>>, what the table has said
  call

world    == <<database, now, users, changes, held>>
settings == <<mode, level>>
tables   == <<audit, perf>>
vars     == <<world, settings, issued, tables, call>>

Nobody == [tenant |-> "", user |-> "", role |-> ""]

Idle == [pc |-> "idle", request |-> NoRequest, who |-> Nobody, token |-> NoToken, checked |-> 0,
         stamp |-> 0, dcs |-> FALSE, level |-> Current, before |-> {}, shown |-> {},
         reply |-> "none"]

Init ==
  /\ database \in BOOLEAN
  /\ now = 0 /\ users = StartRoles /\ changes = 0
  /\ held = {<<u, StartRoles[u], 0>> : u \in Users}
  /\ mode = StartMode /\ level = StartLevel
  /\ issued = SeedTokens
  /\ audit = {} /\ perf = IF database THEN SeedPerf ELSE {}
  /\ call = [c \in Calls |-> Idle]

-----------------------------------------------------------------------------
(* Time and the table of users.                                            *)

Tick ==
  /\ now < MaxTime
  /\ now' = now + 1
  /\ held' = held \cup {<<u, users[u], now + 1>> : u \in Users}
  /\ UNCHANGED <<database, users, changes, settings, issued, tables, call>>

ChangeRole ==
  /\ changes < MaxChanges
  /\ \E u \in Users, role \in Roles :
       /\ users[u] # role
       /\ users' = [users EXCEPT ![u] = role]
       /\ held' = held \cup {<<u, role, now>>}
  /\ changes' = changes + 1
  /\ UNCHANGED <<database, now, settings, issued, tables, call>>

-----------------------------------------------------------------------------
(* Steps of a call.                                                        *)

At(c, pc) == call[c].pc = pc

Becomes(c, r) == call' = [call EXCEPT ![c] = r]

Ends(c, reply) == Becomes(c, [call[c] EXCEPT !.pc = "done", !.reply = reply])

Answers(c, shown) ==
  Becomes(c, [call[c] EXCEPT !.pc = "done", !.reply = "ok", !.shown = shown])

Begin(c, rq) ==
  /\ At(c, "idle")
  /\ Becomes(c, [Idle EXCEPT !.pc = IF rq.route = "login" THEN "login" ELSE "guard",
                             !.request = rq,
                             !.before = IF rq.route \in {"perf", "summary"} THEN perf
                                        ELSE IF rq.route = "audit" THEN audit ELSE {}])
  /\ UNCHANGED <<world, settings, issued, tables>>

-----------------------------------------------------------------------------
(* Login: the table is read, the password is compared, a token is signed.   *)

LoginKey(rq) == <<IF rq.who.tenant = "" THEN "t1" ELSE rq.who.tenant, rq.who.user>>

\* handleLogin: only a process with a database has an AuthService.
Login(c) ==
  /\ At(c, "login")
  /\ IF database THEN Becomes(c, [call[c] EXCEPT !.pc = "lookup"]) ELSE Ends(c, "unavailable")
  /\ UNCHANGED <<world, settings, issued, tables>>

\* GetByUsername: who the table says this is.
UserAt(key) == [tenant |-> key[1], user |-> key[2], role |-> users[key]]

\* A body that is not JSON or lacks a field, which handleLogin answers with 400
\* before it asks the table, is one more login with ok = FALSE: it too ends with
\* nothing done.
LookUp(c) ==
  LET rq == call[c].request
      key == LoginKey(rq) IN
  /\ At(c, "lookup")
  /\ \/ Ends(c, "error")
     \/ (key \notin Users \/ ~rq.ok) /\ Ends(c, "unauthorized")
     \/ /\ key \in Users /\ rq.ok
        /\ Becomes(c, [call[c] EXCEPT !.pc = "sign", !.stamp = now, !.who = UserAt(key)])
  /\ UNCHANGED <<world, settings, issued, tables>>

\* (A slip: the token lives as long as LoginResponse.ExpiresIn says.)
ExpiryAdvertised == now + 4

\* GenerateToken: ExpiresAt.
Expiry == now + TTL

\* (A slip: the role is not among the claims.)
SignedWithoutRole(r) ==
  [tenant |-> r.who.tenant, user |-> r.who.user, expires |-> Expiry, read |-> r.stamp,
   made |-> now]

Signed(r) ==
  [tenant |-> r.who.tenant, user |-> r.who.user, role |-> r.who.role, expires |-> Expiry,
   read |-> r.stamp, made |-> now]

Sign(c) ==
  /\ At(c, "sign")
  /\ issued' = issued \cup {Signed(call[c])}
  /\ Ends(c, "ok")
  /\ UNCHANGED <<world, settings, tables>>

-----------------------------------------------------------------------------
(* The middlewares.                                                        *)

\* ValidateToken: signature, audience, issuer and expiry.
Valid(token) == now < token.expires

\* (A slip: a token that does not validate counts as no token at all.)
RefusedIfMissing(rq, token) ==
  /\ rq.route \in AdminRoutes
  /\ rq.auth = "bearer" => ~Valid(token)

\* (A slip: the optional middleware on the routes of administrators.)
RefusedIfInvalid(rq, token) ==
  \/ rq.auth = "forged"
  \/ rq.auth = "bearer" /\ ~Valid(token)

\* adminMiddleware asks for a valid token; optionalJWTMiddleware refuses a
\* bearer token that is not valid and lets anything else use the X- headers.
Refused(rq, token) ==
  \/ rq.auth = "forged"
  \/ rq.auth = "bearer" /\ ~Valid(token)
  \/ rq.auth # "bearer" /\ rq.route \in AdminRoutes

\* (A slip: the role is taken from the X- headers, the rest from the token.)
CallerByHeader(rq, token) ==
  IF token = NoToken THEN rq.who
  ELSE [tenant |-> token.tenant, user |-> token.user, role |-> rq.who.role]

\* principalFromRequest
Caller(rq, token) ==
  IF token = NoToken THEN rq.who
  ELSE [tenant |-> token.tenant, user |-> token.user, role |-> token.role]

Guard(c) ==
  LET rq == call[c].request IN
  /\ At(c, "guard")
  /\ \E token \in IF rq.auth = "bearer" THEN issued ELSE {NoToken} :
       \/ Refused(rq, token) /\ Ends(c, "unauthorized")
       \/ /\ ~Refused(rq, token) /\ rq.route \in AdminRoutes
          /\ Caller(rq, token).role # "admin"
          /\ Ends(c, "forbidden")
       \/ /\ ~Refused(rq, token)
          /\ rq.route \in AdminRoutes => Caller(rq, token).role = "admin"
          /\ Becomes(c, [call[c] EXCEPT !.pc = "handle", !.who = Caller(rq, token),
                                       !.token = token, !.checked = now])
  /\ UNCHANGED <<world, settings, issued, tables>>

-----------------------------------------------------------------------------
(* The settings.  Caches are cleared in DcsPipeline.                       *)

PatchSettings(c) ==
  LET rq == call[c].request IN
  /\ At(c, "handle") /\ rq.route = "patchSettings"
  /\ \/ ~rq.ok /\ Ends(c, "invalid") /\ UNCHANGED settings
     \/ /\ rq.ok
        /\ mode' = IF rq.mode = Keep THEN mode ELSE rq.mode
        /\ level' = IF rq.level = Keep THEN level ELSE rq.level
        /\ Becomes(c, [call[c] EXCEPT !.pc = "showMode"])
  /\ UNCHANGED <<world, issued, tables>>

\* The answer reads the settings again, the mode and then the level.
ShowMode(c) ==
  /\ At(c, "showMode") \/ (At(c, "handle") /\ call[c].request.route = "getSettings")
  /\ Becomes(c, [call[c] EXCEPT !.pc = "showLevel", !.dcs = mode])
  /\ UNCHANGED <<world, settings, issued, tables>>

ShowLevel(c) ==
  /\ At(c, "showLevel")
  /\ Answers(c, {[dcs |-> call[c].dcs, level |-> level]})
  /\ UNCHANGED <<world, settings, issued, tables>>

-----------------------------------------------------------------------------
(* What an operation leaves in the logs: rows are stamped, then inserted,   *)
(* and an insertion that fails goes unnoticed.                             *)

Work(c) ==
  /\ At(c, "handle") /\ call[c].request.route = "work"
  /\ IF database THEN Becomes(c, [call[c] EXCEPT !.pc = "journal", !.stamp = now])
                 ELSE Ends(c, "ok")
  /\ UNCHANGED <<world, settings, issued, tables>>

\* AuditLogRepository.Create
Journal(c) ==
  LET r == call[c] IN
  /\ At(c, "journal")
  /\ audit' \in {audit, audit \cup {[call |-> c, tenant |-> r.who.tenant, ts |-> r.stamp]}}
  /\ Becomes(c, [r EXCEPT !.pc = "fillMode"])
  /\ UNCHANGED <<world, settings, issued, perf>>

\* writePerfLog asks for the mode, then for the level.
FillMode(c) ==
  /\ At(c, "fillMode")
  /\ Becomes(c, [call[c] EXCEPT !.pc = "fillLevel", !.dcs = mode])
  /\ UNCHANGED <<world, settings, issued, tables>>

FillLevel(c) ==
  /\ At(c, "fillLevel")
  /\ Becomes(c, [call[c] EXCEPT !.pc = "measure", !.stamp = now, !.level = level])
  /\ UNCHANGED <<world, settings, issued, tables>>

\* PerfLogRepository.Create
Measure(c) ==
  LET r == call[c] IN
  /\ At(c, "measure")
  /\ perf' \in {perf, perf \cup {[call |-> c, tenant |-> r.who.tenant, ts |-> r.stamp,
                                   source |-> OwnSource, dcs |-> r.dcs, level |-> r.level]}}
  /\ Ends(c, "ok")
  /\ UNCHANGED <<world, settings, issued, audit>>

-----------------------------------------------------------------------------
(* Readings of the logs.                                                   *)

Reading == [audit |-> "audit.read", perf |-> "perf.read", summary |-> "perf.read"]

\* What the services ask the PDP.
MayRead(r) ==
  Evaluate(mode, [action |-> Reading[r.request.route], principal |-> r.who,
                  tenant |-> r.who.tenant, type |-> r.request.route,
                  fields |-> NoFields]).allow

\* A handler of a reading: no service without a database, parameters out of
\* range, a caller the policy refuses.
Asks(c, route, asked) ==
  LET r == call[c] IN
  /\ At(c, "handle") /\ r.request.route = route
  /\ \/ ~database /\ Ends(c, "unavailable")
     \/ database /\ ~r.request.ok /\ Ends(c, "invalid")
     \/ database /\ r.request.ok /\ ~MayRead(r) /\ Ends(c, "forbidden")
     \/ /\ database /\ r.request.ok /\ MayRead(r)
        /\ Becomes(c, [r EXCEPT !.pc = "query", !.level = asked])
  /\ UNCHANGED <<world, settings, issued, tables>>

HandleAudit(c) == Asks(c, "audit", Current)

HandlePerf(c) == Asks(c, "perf", Current)

\* Unless it asks for a level, or for all, a summary is of the level in force.
HandleSummary(c) ==
  LET asked == call[c].request.level IN
  Asks(c, "summary", IF asked = Current THEN level ELSE asked)

Least(m, n) == IF m < n THEN m ELSE n

\* (A slip: ORDER BY ts, oldest first.)
FirstOldest(rows, limit) ==
  {shown \in SUBSET rows :
     /\ Cardinality(shown) = Least(limit, Cardinality(rows))
     /\ \A x \in shown : \A y \in rows \ shown : x.ts <= y.ts}

\* ORDER BY ts DESC LIMIT $n, in whatever order rows of one instant come.
First(rows, limit) ==
  {shown \in SUBSET rows :
     /\ Cardinality(shown) = Least(limit, Cardinality(rows))
     /\ \A x \in shown : \A y \in rows \ shown : x.ts >= y.ts}

AuditMatching(r) == {x \in audit : x.tenant = r.who.tenant}

\* (A slip: one backend's rows are summed with the other's.)
PerfMatchingAll(r) == {x \in perf : x.tenant = r.who.tenant}

PerfMatching(r) ==
  {x \in perf : /\ x.tenant = r.who.tenant
                /\ x.source = IF r.request.source = "default" THEN OwnSource
                              ELSE r.request.source}

\* GROUP BY dcs_enabled, cache_level
Groups(rows) ==
  {[dcs |-> x.dcs, level |-> x.level,
    count |-> Cardinality({y \in rows : y.dcs = x.dcs /\ y.level = x.level})] : x \in rows}

ListAudit(c) ==
  /\ At(c, "query") /\ call[c].request.route = "audit"
  /\ \/ \E shown \in First(AuditMatching(call[c]), call[c].request.limit) : Answers(c, shown)
     \/ Ends(c, "error")
  /\ UNCHANGED <<world, settings, issued, tables>>

ListPerf(c) ==
  /\ At(c, "query") /\ call[c].request.route = "perf"
  /\ \/ \E shown \in First(PerfMatching(call[c]), call[c].request.limit) : Answers(c, shown)
     \/ Ends(c, "error")
  /\ UNCHANGED <<world, settings, issued, tables>>

Summary(c) ==
  LET r == call[c] IN
  /\ At(c, "query") /\ r.request.route = "summary"
  /\ \/ Answers(c, Groups({x \in PerfMatching(r) : r.level \in {All, x.level}}))
     \/ Ends(c, "error")
  /\ UNCHANGED <<world, settings, issued, tables>>

-----------------------------------------------------------------------------

Step(c) ==
  \/ Login(c) \/ LookUp(c) \/ Sign(c) \/ Guard(c)
  \/ PatchSettings(c) \/ ShowMode(c) \/ ShowLevel(c)
  \/ Work(c) \/ Journal(c) \/ FillMode(c) \/ FillLevel(c) \/ Measure(c)
  \/ HandleAudit(c) \/ HandlePerf(c) \/ HandleSummary(c)
  \/ ListAudit(c) \/ ListPerf(c) \/ Summary(c)

Next ==
  \/ \E c \in Calls : Step(c) \/ \E rq \in Requests : Begin(c, rq)
  \/ Tick \/ ChangeRole

Spec == Init /\ [][Next]_vars

-----------------------------------------------------------------------------
(* Properties.                                                             *)

\* What a call remembers of a table, and what it may show.
Logs  == (SUBSET AuditRow) \cup (SUBSET PerfRow)
Shows == Logs \cup (SUBSET Group) \cup (SUBSET Settings)

Call ==
  [pc : PCs, request : Requests \cup {NoRequest}, who : Person \cup {Nobody},
   token : Token \cup {NoToken}, checked : Time, stamp : Time, dcs : BOOLEAN,
   level : Levels \cup {Keep, Current, All}, before : Logs, shown : Shows, reply : Replies]

TypeOK ==
  /\ database \in BOOLEAN /\ now \in Time /\ changes \in 0..MaxChanges
  /\ users \in [Users -> Roles]
  /\ mode \in BOOLEAN /\ level \in Levels
  /\ issued \subseteq Token
  /\ audit \subseteq AuditRow /\ perf \subseteq PerfRow
  /\ held \subseteq Users \X Roles \X Time
  /\ call \in [Calls -> Call]

Answered(c, routes) == call[c].reply = "ok" /\ call[c].request.route \in routes

\* Who changes the settings, or is shown them or the logs, holds a token of an
\* administrator that a login with the right password returned, of this process
\* or of one with the same secret; the X- headers alone never make one.
LoggedIn ==
  \A c \in Calls :
    Answered(c, AdminRoutes) =>
      LET token == call[c].token IN
      /\ token \in issued /\ token.role = "admin"
      /\ \/ token \in SeedTokens
         \/ \E d \in Calls : /\ Answered(d, {"login"}) /\ call[d].request.ok
                            /\ LoginKey(call[d].request) = <<token.tenant, token.user>>

\* The role under which a token acts is one the table gave the user, read before
\* the token was signed and less than JWT_TTL_MINUTES before it was accepted,
\* counted from the signature: so long may a role outlive its withdrawal.
RoleWasHeld ==
  \A c \in Calls :
    LET token == call[c].token IN
    token # NoToken =>
      /\ call[c].checked < token.made + TTL
      /\ token \in SeedTokens \/
           /\ <<<<token.tenant, token.user>>, token.role, token.read>> \in held
           /\ token.read <= token.made

\* A PATCH of a caller whose token had not expired at the middleware and names
\* an administrator, whom the table called so before the token was signed.  (The
\* token may expire, and the role be withdrawn, before the handler runs.)
ByAdmin(c) ==
  LET token == call[c].token IN
  /\ At(c, "handle") /\ call[c].request.route = "patchSettings" /\ call'[c] # call[c]
  /\ token.role = "admin" /\ call[c].checked < token.expires
  /\ token \in SeedTokens \/
       /\ <<<<token.tenant, token.user>>, "admin", token.read>> \in held
       /\ token.read <= token.made /\ token.expires = token.made + TTL

\* The settings of the process (PATCH /admin/settings) never change but so,
\* whatever headers, tokens of other users and withdrawn roles callers come with.
SettingsByAdmins == [][\E c \in Calls : ByAdmin(c)]_settings

\* A call that came with a bearer token is in the logs under the tenant of that
\* token, and not at all when the token is no good: it never falls back on the
\* X- headers, as calls without one do.
BearerBinds ==
  \A x \in audit \cup {y \in perf : y.call # Shared} :
    LET r == call[x.call] IN
    /\ r.request.auth # "forged"
    /\ r.request.auth = "bearer" => r.token \in issued /\ x.tenant = r.token.tenant
    /\ r.request.auth # "bearer" => x.tenant = r.request.who.tenant

Wanted(rq, x) == x.source = IF rq.source = "default" THEN OwnSource ELSE rq.source

\* A list leaves out a row of the caller's tenant that was there when the list
\* was asked for only if it is full of rows at least as recent, and shows
\* nothing of another tenant.
ListsNewest ==
  \A c \in Calls : \A route \in {"audit", "perf"} :
    Answered(c, {route}) =>
      LET r == call[c]
          mine == {x \in r.before : /\ x.tenant = r.token.tenant
                                    /\ route = "perf" => Wanted(r.request, x)} IN
      /\ \A x \in mine \ r.shown : /\ Cardinality(r.shown) = r.request.limit
                                  /\ \A y \in r.shown : y.ts >= x.ts
      /\ \A y \in r.shown : y.tenant = r.token.tenant

\* A summary of all cache levels accounts for every row there was when it was
\* asked for, in the group of that row, and counts none twice: what a list
\* shows is in any summary asked for later.
SummaryCounts ==
  \A c \in Calls :
    Answered(c, {"summary"}) /\ call[c].request.level = All =>
      LET r == call[c]
          InGroup(rows, g) ==
            {x \in rows : /\ x.tenant = r.token.tenant /\ Wanted(r.request, x)
                          /\ x.dcs = g.dcs /\ x.level = g.level} IN
      /\ \A x \in r.before :
           InGroup({x}, x) # {} => \E g \in r.shown : g.dcs = x.dcs /\ g.level = x.level
      /\ \A g \in r.shown :
           g.count \in Cardinality(InGroup(r.before, g))..Cardinality(InGroup(perf, g))
=============================================================================
