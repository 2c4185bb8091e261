---------------------------- MODULE LifecycleProofs ----------------------------
(***************************************************************************)
(* Proofs of the safety properties of Lifecycle, for any number of         *)
(* requests and of gRPC calls.                                             *)
(***************************************************************************)
EXTENDS Lifecycle, TLAPS

-----------------------------------------------------------------------------
(* The inductive invariant.                                                *)

\* Until Run nothing is started; the pool is closed only by Close.
Phases ==
  /\ main \in {"new", "built"} =>
       /\ http = "off" /\ listener = "off" /\ grpc = "off" /\ served = "off" /\ group = "none"
  /\ main \in {"new", "built", "running"} => pool \in {"none", "open"}
  /\ main = "closing" => pool # "open"
  /\ grpc = "starting" => served = "off"
  /\ (main = "exited") = (status # "none")

\* The pool is closed, and main exits on its own, after both servers returned.
Ended ==
  main = "closing" \/ pool \in {"closing", "closed"} \/ status \in {"clean", "error"} =>
    http = "returned" /\ grpc = "returned"

\* The errgroup's error is that of a server that failed, and without one the
\* servers were stopped by a signal.
Blamed ==
  /\ group = "http" => listener = "error"
  /\ group = "grpc" => served = "error"
  /\ group = "none" /\ grpc \in {"stopping", "returned"} => signalled
  /\ group = "none" /\ grpc = "returned" => \A s \in Streams : stream[s] # "open"
  /\ status = "clean" => group = "none"
  /\ status = "error" => group # "none"
  /\ status \in {"clean", "error"} => pool \in {"none", "closed"}

\* Once Shutdown has begun no connection is taken; once it has returned in
\* time, none is in use.
Quiet ==
  /\ http \in {"stopping", "returned"} => listener # "on"
  /\ http = "returned" => gaveUp \/ listener = "error" \/ Drained

IInv == TypeOK /\ Phases /\ Ended /\ Blamed /\ Quiet /\ Undisturbed

-----------------------------------------------------------------------------

LEMMA InitIInv == Init => IInv
BY DEF Init, IInv, TypeOK, Phases, Ended, Blamed, Quiet, Undisturbed

LEMMA KeepsNew == IInv /\ New => IInv'
BY DEF New, Exits, Pools, IInv, TypeOK, Phases, Ended, Blamed, Quiet, Undisturbed,
       Drained, process, web, rpc, clients

LEMMA KeepsKilled == IInv /\ Killed => IInv'
BY DEF Killed, Exits, IInv, TypeOK, Phases, Ended, Blamed, Quiet, Undisturbed,
       Drained, process, web, rpc, clients

LEMMA KeepsRun == IInv /\ Run => IInv'
BY DEF Run, IInv, TypeOK, Phases, Ended, Blamed, Quiet, Undisturbed, Drained, process,
       web, rpc, clients

LEMMA KeepsSignal == IInv /\ Signal => IInv'
BY DEF Signal, IInv, TypeOK, Phases, Ended, Blamed, Quiet, Undisturbed, Drained,
       process, web, rpc, clients

LEMMA KeepsClose == IInv /\ Close => IInv'
BY DEF Close, IInv, TypeOK, Phases, Ended, Blamed, Quiet, Undisturbed, Drained,
       process, web, rpc, clients

LEMMA KeepsPoolCloses == IInv /\ PoolCloses => IInv'
BY DEF PoolCloses, IInv, TypeOK, Phases, Ended, Blamed, Quiet, Undisturbed, Drained,
       process, web, rpc, clients

LEMMA KeepsExit == IInv /\ Exit => IInv'
<1> SUFFICES ASSUME IInv, Exit PROVE IInv'
  OBVIOUS
<1> USE DEF Exit, Exits, web, rpc
<1>1. http = "returned" /\ grpc = "returned"
  BY DEF IInv, Ended
<1>2. TypeOK'
  <2>1. request' \in [Requests -> {"out", "connected", "handler", "query", "answered",
                                  "failed", "cut"}]
    BY DEF IInv, TypeOK
  <2> QED BY <2>1 DEF IInv, TypeOK
<1>3. Phases'
  BY DEF IInv, TypeOK, Phases
<1>4. Ended'
  BY <1>1 DEF Ended
<1>5. Blamed'
  BY <1>1 DEF IInv, TypeOK, Phases, Blamed
<1>6. Quiet'
  BY DEF IInv, TypeOK, Quiet, Drained
<1>7. Undisturbed'
  <2> SUFFICES ASSUME NEW r \in Requests, request'[r] \in {"failed", "cut"}
               PROVE  gaveUp \/ listener = "error"
    BY DEF Undisturbed
  <2>1. request[r] \in {"failed", "cut"} \/ request[r] \in {"connected", "handler", "query"}
    OBVIOUS
  <2> QED BY <1>1, <2>1 DEF IInv, Quiet, Drained, Undisturbed
<1> QED BY <1>2, <1>3, <1>4, <1>5, <1>6, <1>7 DEF IInv

LEMMA KeepsListen == IInv /\ Listen => IInv'
BY DEF Listen, Alive, IInv, TypeOK, Phases, Ended, Blamed, Quiet, Undisturbed,
       Drained, process, web, rpc, clients

LEMMA KeepsListenerFails == IInv /\ ListenerFails => IInv'
BY DEF ListenerFails, Alive, IInv, TypeOK, Phases, Ended, Blamed, Quiet, Undisturbed,
       Drained, process, web, rpc, clients

LEMMA KeepsHttpFails == IInv /\ HttpFails => IInv'
BY DEF HttpFails, GroupWith, IInv, TypeOK, Phases, Ended, Blamed, Quiet, Undisturbed,
       Drained, process, web, rpc, clients

LEMMA KeepsShutdown == IInv /\ Shutdown => IInv'
BY DEF Shutdown, Cancelled, IInv, TypeOK, Phases, Ended, Blamed, Quiet, Undisturbed,
       Drained, process, web, rpc, clients

LEMMA KeepsShutdownReturns == IInv /\ ShutdownReturns => IInv'
<1> SUFFICES ASSUME IInv, ShutdownReturns PROVE IInv'
  OBVIOUS
<1> USE DEF ShutdownReturns, process, rpc, clients
<1>1. TypeOK'
  <2>1. gaveUp' \in BOOLEAN
    BY DEF IInv, TypeOK
  <2> QED BY <2>1 DEF IInv, TypeOK
<1>2. Phases' /\ Ended' /\ Blamed'
  BY DEF IInv, TypeOK, Phases, Ended, Blamed
<1>3. Quiet'
  <2>1. CASE Drained
    BY <2>1 DEF IInv, Quiet, Drained
  <2>2. CASE gaveUp' = TRUE
    BY <2>2 DEF IInv, Quiet
  <2> QED BY <2>1, <2>2
<1>4. Undisturbed'
  BY DEF IInv, TypeOK, Undisturbed
<1> QED BY <1>1, <1>2, <1>3, <1>4 DEF IInv

LEMMA KeepsGrpcStart == IInv /\ GrpcStart => IInv'
BY DEF GrpcStart, GroupWith, IInv, TypeOK, Phases, Ended, Blamed, Quiet, Undisturbed,
       Drained, process, web, rpc, clients

LEMMA KeepsServeFails == IInv /\ ServeFails => IInv'
BY DEF ServeFails, Alive, IInv, TypeOK, Phases, Ended, Blamed, Quiet, Undisturbed,
       Drained, process, web, rpc, clients

LEMMA KeepsGrpcFails == IInv /\ GrpcFails => IInv'
BY DEF GrpcFails, GroupWith, IInv, TypeOK, Phases, Ended, Blamed, Quiet, Undisturbed,
       Drained, process, web, rpc, clients

LEMMA KeepsGrpcStop == IInv /\ GrpcStop => IInv'
BY DEF GrpcStop, Cancelled, IInv, TypeOK, Phases, Ended, Blamed, Quiet, Undisturbed,
       Drained, process, web, rpc, clients

LEMMA KeepsGrpcStopped == IInv /\ GrpcStopped => IInv'
BY DEF GrpcStopped, IInv, TypeOK, Phases, Ended, Blamed, Quiet, Undisturbed, Drained,
       process, web, rpc, clients

LEMMA KeepsRequest ==
  ASSUME IInv, NEW r \in Requests, RequestStep(r)
  PROVE  IInv'
<1> USE DEF RequestGoes, Alive, process, web, rpc
<1>1. CASE Connect(r)
  <2>1. http # "returned" /\ http # "stopping"
    BY <1>1 DEF Connect, IInv, Quiet
  <2> QED BY <1>1, <2>1 DEF Connect, IInv, TypeOK, Phases, Ended, Blamed, Quiet, Undisturbed
<1>2. CASE Arrive(r)
  BY <1>2 DEF Arrive, IInv, TypeOK, Phases, Ended, Blamed, Quiet, Undisturbed, Drained
<1>3. CASE Query(r)
  <2>1. CASE pool = "open" /\ RequestGoes(r, "handler", "query")
    BY <2>1 DEF IInv, TypeOK, Phases, Ended, Blamed, Quiet, Undisturbed, Drained
  <2>2. CASE pool \in {"closing", "closed"} /\ RequestGoes(r, "handler", "failed")
    <3>1. gaveUp \/ listener = "error"
      BY <2>2 DEF IInv, Ended, Quiet, Drained
    <3> QED BY <2>2, <3>1 DEF IInv, TypeOK, Phases, Ended, Blamed, Quiet, Undisturbed
  <2> QED BY <1>3, <2>1, <2>2 DEF Query
<1>4. CASE QueryEnds(r)
  BY <1>4 DEF QueryEnds, IInv, TypeOK, Phases, Ended, Blamed, Quiet, Undisturbed, Drained
<1>5. CASE Answer(r)
  BY <1>5 DEF Answer, IInv, TypeOK, Phases, Ended, Blamed, Quiet, Undisturbed, Drained
<1> QED BY <1>1, <1>2, <1>3, <1>4, <1>5 DEF RequestStep

LEMMA KeepsStream ==
  ASSUME IInv, NEW s \in Streams, StreamStep(s)
  PROVE  IInv'
<1> USE DEF StreamGoes, process, web, rpc
<1>1. CASE Open(s)
  BY <1>1 DEF Open, IInv, TypeOK, Phases, Ended, Blamed, Quiet, Undisturbed, Drained
<1>2. CASE End(s)
  BY <1>2 DEF End, IInv, TypeOK, Phases, Ended, Blamed, Quiet, Undisturbed, Drained
<1> QED BY <1>1, <1>2 DEF StreamStep

LEMMA NextIInv == IInv /\ [Next]_vars => IInv'
<1> SUFFICES ASSUME IInv, [Next]_vars PROVE IInv'
  OBVIOUS
<1>1. CASE MainStep
  BY <1>1, KeepsNew, KeepsRun, KeepsClose, KeepsPoolCloses, KeepsExit DEF MainStep
<1>2. CASE HttpStep
  BY <1>2, KeepsListen, KeepsHttpFails, KeepsShutdown, KeepsShutdownReturns DEF HttpStep
<1>3. CASE GrpcStep
  BY <1>3, KeepsGrpcStart, KeepsGrpcFails, KeepsGrpcStop, KeepsGrpcStopped DEF GrpcStep
<1>4. CASE Killed \/ Signal \/ ListenerFails \/ ServeFails
  BY <1>4, KeepsKilled, KeepsSignal, KeepsListenerFails, KeepsServeFails
<1>5. CASE \E r \in Requests : RequestStep(r)
  BY <1>5, KeepsRequest
<1>6. CASE \E s \in Streams : StreamStep(s)
  BY <1>6, KeepsStream
<1>7. CASE UNCHANGED vars
  BY <1>7 DEF IInv, TypeOK, Phases, Ended, Blamed, Quiet, Undisturbed, Drained,
              vars, process, web, rpc, clients
<1> QED BY <1>1, <1>2, <1>3, <1>4, <1>5, <1>6, <1>7 DEF Next

LEMMA Invariance == Spec => []IInv
BY InitIInv, NextIInv, PTL DEF Spec

-----------------------------------------------------------------------------

\* The process, its two servers and its clients are always in a state the
\* model names.
THEOREM TypeCorrect == Spec => []TypeOK
<1>1. IInv => TypeOK
  BY DEF IInv
<1> QED BY <1>1, Invariance, PTL

\* Stopping disturbs no request, however many there are, unless Shutdown gave
\* up on it or its listener had failed (server.go closes the pool last).
THEOREM StopsUndisturbed == Spec => []Undisturbed
<1>1. IInv => Undisturbed
  BY DEF IInv
<1> QED BY <1>1, Invariance, PTL

\* The exit status says how the process ended, and with which calls and which
\* pool (main.go, server.go).
THEOREM ExitsTruthfully == Spec => []ExitTruthful
<1>1. IInv => ExitTruthful
  <2> SUFFICES ASSUME IInv PROVE ExitTruthful
    OBVIOUS
  <2>1. status = "clean" => signalled /\ \A s \in Streams : stream[s] # "open"
    BY DEF IInv, Blamed, Ended
  <2>2. status = "error" => listener = "error" \/ served = "error"
    BY DEF IInv, TypeOK, Blamed
  <2>3. status \in {"clean", "error"} => pool \in {"none", "closed"}
    BY DEF IInv, Blamed
  <2> QED BY <2>1, <2>2, <2>3 DEF ExitTruthful
<1> QED BY <1>1, Invariance, PTL
=============================================================================
