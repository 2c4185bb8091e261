------------------------------ MODULE Lifecycle ------------------------------
(***************************************************************************)
(* The life of one process of the Go backend: cmd/server/main.go and       *)
(* internal/server build it and run the HTTP and the gRPC server in an     *)
(* errgroup; a signal or the failure of one server cancels the context of  *)
(* both; when both have returned, the pool of database connections is      *)
(* closed and the process exits.  Requests are seen as holding a           *)
(* connection of the pool or not; streams are the calls of the gRPC health *)
(* service that clients may leave open.                                    *)
(***************************************************************************)
CONSTANTS
  Requests,  \* HTTP requests
  Streams,   \* gRPC calls
  Urls       \* what DATABASE_URL may be: "empty", "short" or "whole"

ASSUME LifecycleAssumption == Urls \subseteq {"empty", "short", "whole"}

VARIABLES
  main,      \* where main is
  status,    \* how the process ended
  pool,      \* App.db
  signalled, \* SIGINT or SIGTERM, once main listens for them
  group,     \* the error the errgroup keeps: the first server that failed
  http,      \* httpServer.Start
  listener,  \* the goroutine in ListenAndServe
  gaveUp,    \* Shutdown returned at its timeout
  grpc,      \* grpcServer.Start
  served,    \* the goroutine in Serve
  request, stream

process == <<main, status, pool, group>>
web     == <<http, listener, gaveUp>>
rpc     == <<grpc, served>>
clients == <<request, stream>>
vars    == <<process, signalled, web, rpc, clients>>

Alive == main # "exited"

Init ==
  /\ main = "new" /\ status = "none" /\ pool = "none" /\ group = "none"
  /\ signalled = FALSE
  /\ http = "off" /\ listener = "off" /\ gaveUp = FALSE
  /\ grpc = "off" /\ served = "off"
  /\ request = [r \in Requests |-> "out"]
  /\ stream = [s \in Streams |-> "out"]

-----------------------------------------------------------------------------
(* main: building, running, closing.                                       *)

Exits(how) == main' = "exited" /\ status' = how

\* (A slip: a pool that did not answer the ping is kept.)
PoolsUnchecked(url) == IF url = "empty" THEN {"none"} ELSE {"open", "unreachable"}

\* postgres.NewPool; when it fails the process goes on without a database.
Pools(url) == IF url = "empty" THEN {"none"} ELSE {"open", "none"}

\* server.New.  maskDBURL slices the first 20 bytes of whatever it is given.
New ==
  /\ main = "new"
  /\ \E url \in Urls :
       \/ url = "short" /\ Exits("panic") /\ UNCHANGED pool
       \/ url # "short" /\ main' = "built" /\ pool' \in Pools(url) /\ UNCHANGED status
  /\ UNCHANGED <<group, signalled, web, rpc, clients>>

\* Before signal.NotifyContext a signal simply ends the process.
Killed ==
  /\ main \in {"new", "built"}
  /\ Exits("killed")
  /\ UNCHANGED <<pool, group, signalled, web, rpc, clients>>

\* NotifyContext, then App.Run starts both servers.
Run ==
  /\ main = "built"
  /\ main' = "running" /\ http' = "selecting" /\ grpc' = "starting"
  /\ UNCHANGED <<status, pool, group, signalled, listener, gaveUp, served, clients>>

Signal ==
  /\ main \in {"running", "closing"} /\ ~signalled
  /\ signalled' = TRUE
  /\ UNCHANGED <<process, web, rpc, clients>>

\* (A slip: the servers share the context of the signals, not the group's.)
CancelledBySignal == signalled

\* The context of the errgroup.
Cancelled == signalled \/ group # "none"

\* g.Wait has returned.
Close ==
  /\ main = "running" /\ http = "returned" /\ grpc = "returned"
  /\ main' = "closing"
  /\ pool' = IF pool = "open" THEN "closing" ELSE pool
  /\ UNCHANGED <<status, group, signalled, web, rpc, clients>>

\* Pool.Close returns once every connection has been given back.
PoolCloses ==
  /\ pool = "closing"
  /\ \A r \in Requests : request[r] # "query"
  /\ pool' = "closed"
  /\ UNCHANGED <<main, status, group, signalled, web, rpc, clients>>

Exit ==
  /\ main = "closing" /\ pool # "closing"
  /\ Exits(IF group = "none" THEN "clean" ELSE "error")
  /\ request' = [r \in Requests |-> IF request[r] \in {"connected", "handler", "query"}
                                    THEN "cut" ELSE request[r]]
  /\ UNCHANGED <<pool, group, signalled, web, rpc, stream>>

-----------------------------------------------------------------------------
(* The HTTP server.                                                        *)

\* (A slip: the error of a server is logged and dropped.)
GroupIgnoring(who) == group

\* An errgroup keeps the first error.
GroupWith(who) == IF group = "none" THEN who ELSE group

\* After Shutdown, ListenAndServe returns at once.
Listen ==
  /\ Alive /\ http # "off" /\ listener = "off"
  /\ listener' \in IF http = "selecting" THEN {"on", "error"} ELSE {"closed"}
  /\ UNCHANGED <<process, signalled, http, gaveUp, rpc, clients>>

ListenerFails ==
  /\ Alive /\ listener = "on"
  /\ listener' = "error"
  /\ UNCHANGED <<process, signalled, http, gaveUp, rpc, clients>>

\* When the error and the cancellation are both there, select takes either.
HttpFails ==
  /\ http = "selecting" /\ listener = "error"
  /\ http' = "returned" /\ group' = GroupWith("http")
  /\ UNCHANGED <<main, status, pool, signalled, listener, gaveUp, rpc, clients>>

Shutdown ==
  /\ http = "selecting" /\ Cancelled
  /\ http' = "stopping"
  /\ listener' = IF listener = "on" THEN "closed" ELSE listener
  /\ UNCHANGED <<process, signalled, gaveUp, rpc, clients>>

\* (A slip: only the requests that are in the database are waited for.)
DrainedOfQueries == \A r \in Requests : request[r] # "query"

Drained == \A r \in Requests : request[r] \notin {"connected", "handler", "query"}

\* Shutdown waits for the connections that are not idle, five seconds at most;
\* Start returns nil either way.
ShutdownReturns ==
  /\ http = "stopping"
  /\ (Drained /\ UNCHANGED gaveUp) \/ gaveUp' = TRUE
  /\ http' = "returned"
  /\ UNCHANGED <<process, signalled, listener, rpc, clients>>

-----------------------------------------------------------------------------
(* The gRPC server.                                                        *)

GrpcStart ==
  /\ grpc = "starting"
  /\ \/ grpc' = "serving" /\ served' = "on" /\ UNCHANGED group
     \/ grpc' = "returned" /\ served' = "error" /\ group' = GroupWith("grpc")
  /\ UNCHANGED <<main, status, pool, signalled, web, clients>>

ServeFails ==
  /\ Alive /\ grpc = "serving" /\ served = "on"
  /\ served' = "error"
  /\ UNCHANGED <<process, signalled, web, grpc, clients>>

GrpcFails ==
  /\ grpc = "serving" /\ served = "error"
  /\ grpc' = "returned" /\ group' = GroupWith("grpc")
  /\ UNCHANGED <<main, status, pool, signalled, web, served, clients>>

\* The health status becomes NOT_SERVING and GracefulStop takes no new call.
GrpcStop ==
  /\ grpc = "serving" /\ Cancelled
  /\ grpc' = "stopping"
  /\ UNCHANGED <<process, signalled, web, served, clients>>

\* GracefulStop waits for every call, however long.
GrpcStopped ==
  /\ grpc = "stopping" /\ \A s \in Streams : stream[s] # "open"
  /\ grpc' = "returned"
  /\ UNCHANGED <<process, signalled, web, served, clients>>

-----------------------------------------------------------------------------
(* Clients.                                                                *)

RequestGoes(r, from, to) ==
  /\ Alive /\ request[r] = from
  /\ request' = [request EXCEPT ![r] = to]
  /\ UNCHANGED <<process, signalled, web, rpc, stream>>

Connect(r) == listener = "on" /\ RequestGoes(r, "out", "connected")

\* A connection taken before Shutdown may still send its request after it.
Arrive(r) == RequestGoes(r, "connected", "handler")

Query(r) ==
  \/ pool = "open" /\ RequestGoes(r, "handler", "query")
  \/ pool \in {"closing", "closed"} /\ RequestGoes(r, "handler", "failed")

QueryEnds(r) == RequestGoes(r, "query", "handler")

Answer(r) == RequestGoes(r, "handler", "answered")

StreamGoes(s, from, to) ==
  /\ Alive /\ stream[s] = from
  /\ stream' = [stream EXCEPT ![s] = to]
  /\ UNCHANGED <<process, signalled, web, rpc, request>>

Open(s) == grpc = "serving" /\ served = "on" /\ StreamGoes(s, "out", "open")

End(s) == StreamGoes(s, "open", "out")

-----------------------------------------------------------------------------

MainStep == New \/ Run \/ Close \/ PoolCloses \/ Exit
HttpStep == Listen \/ HttpFails \/ Shutdown \/ ShutdownReturns
GrpcStep == GrpcStart \/ GrpcFails \/ GrpcStop \/ GrpcStopped
RequestStep(r) == Connect(r) \/ Arrive(r) \/ Query(r) \/ QueryEnds(r) \/ Answer(r)
StreamStep(s) == Open(s) \/ End(s)

Next ==
  \/ MainStep \/ HttpStep \/ GrpcStep
  \/ Killed \/ Signal \/ ListenerFails \/ ServeFails
  \/ \E r \in Requests : RequestStep(r)
  \/ \E s \in Streams : StreamStep(s)

\* The goroutines run, Shutdown's timer fires, the database ends its queries.
\* Nothing is assumed of the clients: a stream may stay open for ever.
Fairness ==
  /\ WF_vars(MainStep) /\ WF_vars(Shutdown) /\ WF_vars(ShutdownReturns)
  /\ WF_vars(HttpFails) /\ WF_vars(GrpcStart) /\ WF_vars(GrpcFails)
  /\ WF_vars(GrpcStop) /\ WF_vars(GrpcStopped)
  /\ \A r \in Requests : WF_vars(QueryEnds(r))

Spec == Init /\ [][Next]_vars /\ Fairness

-----------------------------------------------------------------------------
(* Properties.                                                             *)

TypeOK ==
  /\ main \in {"new", "built", "running", "closing", "exited"}
  /\ status \in {"none", "clean", "error", "killed", "panic"}
  /\ pool \in {"none", "open", "closing", "closed"}
  /\ signalled \in BOOLEAN /\ gaveUp \in BOOLEAN
  /\ group \in {"none", "http", "grpc"}
  /\ http \in {"off", "selecting", "stopping", "returned"}
  /\ listener \in {"off", "on", "error", "closed"}
  /\ grpc \in {"off", "starting", "serving", "stopping", "returned"}
  /\ served \in {"off", "on", "error"}
  /\ request \in [Requests -> {"out", "connected", "handler", "query", "answered",
                               "failed", "cut"}]
  /\ stream \in [Streams -> {"out", "open"}]

\* Stopping the process disturbs no request that the HTTP server took: one that
\* meets a closed pool, or is cut by the exit, was still running when Shutdown's
\* five seconds were over, or was served by a listener that had failed.
Undisturbed ==
  \A r \in Requests : request[r] \in {"failed", "cut"} => gaveUp \/ listener = "error"

\* The exit status tells what happened: 0 only after a signal, with every gRPC
\* call ended; 1 only if a server failed; and in both cases the pool is closed.
\* (A server that fails after the signal goes unreported if its Start is stopping.)
ExitTruthful ==
  /\ status = "clean" => signalled /\ \A s \in Streams : stream[s] # "open"
  /\ status = "error" => listener = "error" \/ served = "error"
  /\ status \in {"clean", "error"} => pool \in {"none", "closed"}

Stopping == main \in {"running", "closing"} /\ (signalled \/ group # "none")

\* A signal, or the failure of one server, stops the whole process, whatever the
\* HTTP requests do, unless clients keep gRPC calls open.
ShutdownEnds ==
  (Stopping ~> main = "exited") \/ []<>(\E s \in Streams : stream[s] = "open")
=============================================================================
