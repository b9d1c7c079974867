--------------------------- MODULE LifecycleProofs ---------------------------
(***************************************************************************)
(* The pool of RPC clients under Start and Stop, for any number of callers, *)
(* clients and retries.                                                     *)
(***************************************************************************)
EXTENDS IndexerLifecycle, FiniteSetTheorems, TLAPS

(* A request holds a client exactly while it calls or is about to give it   *)
(* back; no goroutine has panicked.                                         *)
RequestsInv ==
    \A c \in Caller :
        /\ req[c].at # "panic"
        /\ req[c].client = NoClient <=> req[c].at \in {"idle", "get"}

(* Requests are made by a poll only, and the three goroutines stop in turn: *)
(* the poller after stopChan, the pool after the poller.                    *)
OrderInv ==
    /\ poller # "polling" => \A c \in Caller : req[c].at = "idle"
    /\ main = "starting" => poller = "none"
    /\ main = "stopped" => poller = "returned"
    /\ closed => main = "stopped"

PoolInv == RequestsInv /\ ClientsExclusive /\ CapacityKept

LInv == TypeOK /\ PoolInv /\ OrderInv

(* The first three parts of an EXCEPT on one request, as facts.             *)
LEMMA ReqUpdate ==
    ASSUME PoolTypeOK, NEW c \in Caller, NEW r \in Request, req' = [req EXCEPT ![c] = r]
    PROVE  /\ req' \in [Caller -> Request]
           /\ req'[c] = r
           /\ \A d \in Caller : d # c => req'[d] = req[d]
BY DEF PoolTypeOK

(* Finite sets stay finite, and their sizes are natural numbers.            *)
LEMMA PoolFinite ==
    ASSUME PoolTypeOK
    PROVE  /\ IsFiniteSet(available) /\ Cardinality(available) \in Nat
           /\ IsFiniteSet(Holders) /\ Cardinality(Holders) \in Nat
           /\ Holders \subseteq Caller
<1>1. available \subseteq Client /\ Holders \subseteq Caller
  BY DEF PoolTypeOK, Holders
<1>2. IsFiniteSet(available) /\ IsFiniteSet(Holders)
  BY <1>1, RPCPoolAssumption, FS_Subset
<1> QED BY <1>1, <1>2, FS_CardinalityType

(* A request that goes on without touching the channel or its client.       *)
LEMMA RequestGoesOn ==
    ASSUME PoolTypeOK, PoolInv, NEW c \in Caller, NEW r \in Request,
           r.client = req[c].client, r.at # "panic",
           r.at \in {"idle", "get"} <=> req[c].at \in {"idle", "get"},
           req' = [req EXCEPT ![c] = r], UNCHANGED pool
    PROVE  PoolTypeOK' /\ PoolInv'
<1>1. /\ req' \in [Caller -> Request]
      /\ req'[c] = r
      /\ \A d \in Caller : d # c => req'[d] = req[d]
  BY ReqUpdate
<1>2. \A d \in Caller : req'[d].client = req[d].client
  BY <1>1
<1>3. Held' = Held /\ Holders' = Holders
  BY <1>2 DEF Held, Holders
<1>4. PoolTypeOK' /\ available' = available
  BY <1>1 DEF PoolTypeOK, pool
<1>5. RequestsInv'
  BY <1>1 DEF PoolInv, RequestsInv
<1>6. ClientsExclusive'
  <2>1. Holders \subseteq Caller
    BY DEF Holders
  <2> QED BY <1>2, <1>3, <1>4, <2>1 DEF PoolInv, ClientsExclusive
<1>7. CapacityKept'
  BY <1>3, <1>4 DEF PoolInv, CapacityKept
<1> QED BY <1>4, <1>5, <1>6, <1>7 DEF PoolInv

(* A request takes a client that nobody holds: from the channel, or a new   *)
(* one when the channel is empty.                                           *)
LEMMA RequestTakes ==
    ASSUME PoolTypeOK, PoolInv, NEW c \in Caller, req[c].at = "get",
           NEW k \in Client, k \notin Held,
           req' = [req EXCEPT ![c].at = "call", ![c].client = k],
           available' = available \ {k}, UNCHANGED closed
    PROVE  PoolTypeOK' /\ PoolInv'
<1> DEFINE r == [req[c] EXCEPT !.at = "call", !.client = k]
<1>1. req[c] \in Request
  BY DEF PoolTypeOK
<1>2. r \in Request /\ r.at = "call" /\ r.client = k
  BY <1>1 DEF Request
<1>3. req' = [req EXCEPT ![c] = r]
  BY DEF PoolTypeOK, Request
<1> HIDE DEF r
<1>4. /\ req' \in [Caller -> Request]
      /\ req'[c] = r
      /\ \A d \in Caller : d # c => req'[d] = req[d]
  BY <1>2, <1>3, ReqUpdate
<1>5. k # NoClient /\ req[c].client = NoClient
  BY RPCPoolAssumption DEF PoolInv, RequestsInv
<1>6. PoolTypeOK'
  BY <1>4 DEF PoolTypeOK
<1>7. RequestsInv'
  BY <1>2, <1>4, <1>5 DEF PoolInv, RequestsInv
<1>8. Holders' = Holders \cup {c} /\ c \notin Holders
  BY <1>2, <1>4, <1>5 DEF Holders
<1>9. ClientsExclusive'
  <2>1. ASSUME NEW d \in Caller
        PROVE  req'[d].client = IF d = c THEN k ELSE req[d].client
    BY <1>2, <1>4
  <2>2. \A d \in Caller : req[d].client # k
    BY <1>5 DEF Held
  <2>3. Held' \cap available' = {}
    <3>1. ASSUME NEW d \in Caller, req'[d].client # NoClient
          PROVE  req'[d].client \notin available'
      <4>1. CASE d = c
        <5>1. req'[d].client = k
          BY <1>2, <1>4, <4>1
        <5>2. k \notin available'
          OBVIOUS
        <5> QED BY <5>1, <5>2
      <4>2. CASE d # c
        <5>1. req'[d].client = req[d].client /\ req[d].client \in Held
          BY <2>1, <3>1, <4>2 DEF Held
        <5>2. req[d].client \notin available
          BY <5>1 DEF PoolInv, ClientsExclusive
        <5> QED BY <5>1, <5>2
      <4> QED BY <4>1, <4>2
    <3> QED BY <3>1 DEF Held
  <2>4. ASSUME NEW d \in Holders', NEW e \in Holders', req'[d].client = req'[e].client
        PROVE  d = e
    <3>1. d \in Caller /\ e \in Caller
      BY DEF Holders
    <3> QED BY <2>1, <2>2, <2>4, <3>1, <1>8 DEF PoolInv, ClientsExclusive
  <2> QED BY <2>3, <2>4 DEF ClientsExclusive
<1>10. CapacityKept'
  <2>1. Cardinality(Holders') = Cardinality(Holders) + 1
    BY <1>8, PoolFinite, FS_AddElement
  <2>2. Cardinality(available') = IF k \in available THEN Cardinality(available) - 1 ELSE Cardinality(available)
    BY PoolFinite, FS_RemoveElement
  <2> QED BY <2>1, <2>2, PoolFinite, RPCPoolAssumption DEF PoolInv, CapacityKept
<1> QED BY <1>6, <1>7, <1>9, <1>10 DEF PoolInv

(* A request gives its client back; a full channel lets it go.              *)
LEMMA RequestReturns ==
    ASSUME PoolTypeOK, PoolInv, NEW c \in Caller, ReturnClient(c), ~closed
    PROVE  PoolTypeOK' /\ PoolInv'
<1> DEFINE k == req[c].client
<1>1. /\ req[c].at = "return"
      /\ available' = IF Cardinality(available) < PoolSize THEN available \cup {k} ELSE available
      /\ req' = [req EXCEPT ![c] = Idle]
      /\ closed' = closed
  BY DEF ReturnClient
<1>2. Idle \in Request /\ Idle.at = "idle" /\ Idle.client = NoClient
  BY RPCPoolAssumption DEF Idle, Request
<1>3. /\ req' \in [Caller -> Request]
      /\ req'[c] = Idle
      /\ \A d \in Caller : d # c => req'[d] = req[d]
  BY <1>1, <1>2, ReqUpdate
<1>4. k \in Client /\ k # NoClient
  <2>1. req[c] \in Request
    BY DEF PoolTypeOK
  <2> QED BY <1>1, <2>1 DEF PoolInv, RequestsInv, Request
<1>5. PoolTypeOK'
  BY <1>1, <1>3, <1>4 DEF PoolTypeOK
<1>6. RequestsInv'
  BY <1>2, <1>3 DEF PoolInv, RequestsInv
<1>7. Holders' = Holders \ {c} /\ c \in Holders
  BY <1>2, <1>3, <1>4 DEF Holders
<1>8. ClientsExclusive'
  <2>1. ASSUME NEW d \in Caller
        PROVE  req'[d].client = IF d = c THEN NoClient ELSE req[d].client
    BY <1>2, <1>3
  <2>2. \A d \in Holders : d # c => req[d].client # k
    BY <1>7 DEF PoolInv, ClientsExclusive
  <2>3. Held' \cap available' = {}
    <3>1. ASSUME NEW d \in Caller, req'[d].client # NoClient
          PROVE  req'[d].client \notin available'
      <4>1. d # c /\ d \in Holders /\ req'[d].client = req[d].client
        BY <2>1, <3>1 DEF Holders
      <4>2. req[d].client \notin available
        BY <4>1 DEF PoolInv, ClientsExclusive, Held, Holders
      <4> QED BY <1>1, <2>2, <4>1, <4>2
    <3> QED BY <3>1 DEF Held
  <2>4. ASSUME NEW d \in Holders', NEW e \in Holders', req'[d].client = req'[e].client
        PROVE  d = e
    <3>1. d \in Caller /\ e \in Caller /\ d \in Holders /\ e \in Holders /\ d # c /\ e # c
      BY <1>7 DEF Holders
    <3> QED BY <2>1, <2>4, <3>1 DEF PoolInv, ClientsExclusive
  <2> QED BY <2>3, <2>4 DEF ClientsExclusive
<1>9. CapacityKept'
  <2>1. Cardinality(Holders') = Cardinality(Holders) - 1
    BY <1>7, PoolFinite, FS_RemoveElement
  <2>2. k \notin available
    BY <1>4 DEF PoolInv, ClientsExclusive, Held
  <2>3. Cardinality(available \cup {k}) = Cardinality(available) + 1
    BY <2>2, PoolFinite, FS_AddElement
  <2>4. Cardinality(available') = IF Cardinality(available) < PoolSize
                                  THEN Cardinality(available) + 1 ELSE Cardinality(available)
    BY <1>1, <2>3
  <2>5. /\ Cardinality(available) <= PoolSize
        /\ Cardinality(available) + Cardinality(Holders) >= PoolSize
        /\ PoolSize \in Nat
    BY RPCPoolAssumption DEF PoolInv, CapacityKept
  <2>6. Cardinality(Holders) >= 1
    <3>1. Cardinality(Holders') \in Nat
      BY <1>7, PoolFinite, FS_RemoveElement, FS_CardinalityType
    <3> QED BY <2>1, <3>1, PoolFinite
  <2> QED BY <2>1, <2>4, <2>5, <2>6, PoolFinite DEF CapacityKept
<1> QED BY <1>5, <1>6, <1>8, <1>9 DEF PoolInv

(* No step of a request disturbs the pool while it is open.                 *)
LEMMA RequestKeepsPool ==
    ASSUME PoolTypeOK, PoolInv, NEW c \in Caller, ~closed, RequestStep(c)
    PROVE  PoolTypeOK' /\ PoolInv'
<1>1. req[c] \in Request
  BY DEF PoolTypeOK
<1>2. CASE GetClient(c)
  <2>1. PICK k \in available : /\ available' = available \ {k}
                               /\ req' = [req EXCEPT ![c].at = "call", ![c].client = k]
    BY <1>2 DEF GetClient
  <2>2. k \in Client /\ k \notin Held
    BY DEF PoolTypeOK, PoolInv, ClientsExclusive
  <2> QED BY <1>2, <2>1, <2>2, RequestTakes DEF GetClient
<1>3. CASE TemporaryClient(c)
  <2>1. PICK k \in Client \ Held : req' = [req EXCEPT ![c].at = "call", ![c].client = k]
    BY <1>3 DEF TemporaryClient
  <2>2. available' = available \ {k}
    BY <1>3 DEF TemporaryClient, pool
  <2> QED BY <1>3, <2>1, <2>2, RequestTakes DEF TemporaryClient, pool
<1>4. CASE CallSucceeds(c)
  <2> DEFINE r == [req[c] EXCEPT !.at = "return", !.err = "none"]
  <2>1. r \in Request /\ r.client = req[c].client /\ r.at = "return" /\ req[c].at = "call"
    BY <1>1, <1>4 DEF Request, CallSucceeds
  <2>2. req' = [req EXCEPT ![c] = r] /\ UNCHANGED pool
    BY <1>4 DEF CallSucceeds, PoolTypeOK, Request
  <2> HIDE DEF r
  <2> QED BY <2>1, <2>2, RequestGoesOn
<1>5. CASE \E e \in Error : CallFails(c, e)
  <2>1. PICK e \in Error : CallFails(c, e)
    BY <1>5
  <2>2. PICK r \in Request : /\ req' = [req EXCEPT ![c] = r] /\ r.client = req[c].client
                             /\ r.at \in {"call", "return"}
    <3>1. CASE isRetryableError(e) /\ req[c].attempt < MaxRetries
      <4> DEFINE r == [req[c] EXCEPT !.attempt = @ + 1]
      <4>1. req' = [req EXCEPT ![c] = r]
        BY <2>1, <3>1 DEF CallFails, PoolTypeOK, Request
      <4>2. r \in Request /\ r.client = req[c].client /\ r.at \in {"call", "return"}
        BY <1>1, <2>1, <3>1, RPCPoolAssumption DEF CallFails, Request
      <4> HIDE DEF r
      <4> QED BY <4>1, <4>2
    <3>2. CASE ~(isRetryableError(e) /\ req[c].attempt < MaxRetries) /\ isRetryableRPCError(e) /\ ~req[c].retried
      <4> DEFINE r == [req[c] EXCEPT !.retried = TRUE, !.attempt = 0]
      <4>1. req' = [req EXCEPT ![c].retried = TRUE, ![c].attempt = 0]
        BY <2>1, <3>2 DEF CallFails
      <4>2. req' = [req EXCEPT ![c] = r]
        BY <4>1 DEF PoolTypeOK, Request
      <4>3. r \in Request /\ r.client = req[c].client /\ r.at \in {"call", "return"}
        <5>1. req[c].at = "call" /\ 0 \in 0..MaxRetries
          BY <2>1, RPCPoolAssumption DEF CallFails
        <5> HIDE DEF r
        <5>2. r = [req[c] EXCEPT !.retried = TRUE, !.attempt = 0]
          BY DEF r
        <5> QED BY <1>1, <5>1, <5>2 DEF Request
      <4> HIDE DEF r
      <4> QED BY <4>2, <4>3
    <3>3. CASE /\ ~(isRetryableError(e) /\ req[c].attempt < MaxRetries)
               /\ ~(isRetryableRPCError(e) /\ ~req[c].retried)
      <4> DEFINE r == [req[c] EXCEPT !.at = "return", !.err = e]
      <4>1. req' = [req EXCEPT ![c] = r]
        BY <2>1, <3>3 DEF CallFails, PoolTypeOK, Request
      <4>2. r \in Request /\ r.client = req[c].client /\ r.at \in {"call", "return"}
        BY <1>1, <2>1, <3>3 DEF CallFails, Request
      <4> HIDE DEF r
      <4> QED BY <4>1, <4>2
    <3> QED BY <3>1, <3>2, <3>3
  <2>3. req[c].at = "call" /\ UNCHANGED pool
    BY <2>1 DEF CallFails
  <2> QED BY <2>2, <2>3, RequestGoesOn
<1>6. CASE ReturnClient(c)
  BY <1>6, RequestReturns
<1> QED BY <1>2, <1>3, <1>4, <1>5, <1>6 DEF RequestStep

(* Init satisfies the invariant. *)
LEMMA InitLInv == Init => LInv
<1> SUFFICES ASSUME Init PROVE LInv
  OBVIOUS
<1>1. Idle \in Request /\ Idle.at = "idle" /\ Idle.client = NoClient
  BY RPCPoolAssumption DEF Idle, Request
<1>2. /\ req = [c \in Caller |-> Idle] /\ closed = FALSE
      /\ available \subseteq Client /\ Cardinality(available) = PoolSize
  BY DEF Init, PoolInit
<1>3. TypeOK
  <2>1. PoolTypeOK
    BY <1>1, <1>2 DEF PoolTypeOK
  <2>2. todo \in 0..MaxRequests
    BY LifecycleAssumption DEF Init
  <2>3. isRunning \in BOOLEAN /\ stopChan \in BOOLEAN
    BY Zenon DEF Init
  <2> QED BY <2>1, <2>2, <2>3 DEF Init, TypeOK
<1>4. RequestsInv
  BY <1>1, <1>2 DEF RequestsInv
<1>5. Holders = {} /\ Held = {}
  BY <1>1, <1>2 DEF Holders, Held
<1>6. ClientsExclusive
  BY <1>5 DEF ClientsExclusive
<1>7. CapacityKept
  BY <1>2, <1>5, FS_EmptySet, RPCPoolAssumption DEF CapacityKept
<1>8. OrderInv
  BY <1>1, <1>2 DEF OrderInv, Init
<1> QED BY <1>3, <1>4, <1>6, <1>7, <1>8 DEF LInv, PoolInv

(* Every step keeps it.  A request step needs a poll in progress, and then  *)
(* the pool is open.                                                        *)
LEMMA NextLInv == LInv /\ [Next]_vars => LInv'
<1> SUFFICES ASSUME LInv, [Next]_vars PROVE LInv'
  OBVIOUS
<1>1. PoolTypeOK /\ PoolInv /\ OrderInv
  BY DEF LInv, TypeOK
<1>2. ASSUME UNCHANGED poolVars
      PROVE  PoolTypeOK' /\ PoolInv'
  <2>1. UNCHANGED <<available, closed, req>>
    BY <1>2 DEF poolVars
  <2>2. Held' = Held /\ Holders' = Holders
    BY <2>1 DEF Held, Holders
  <2> QED BY <1>1, <2>1, <2>2 DEF PoolTypeOK, PoolInv, RequestsInv, ClientsExclusive, CapacityKept
<1>3. CASE Start
  <2>1. PoolTypeOK' /\ PoolInv'
    BY <1>2, <1>3 DEF Start
  <2> QED BY <1>1, <1>3, <2>1 DEF Start, poolVars, LInv, TypeOK, OrderInv
<1>4. CASE Tick
  BY <1>1, <1>2, <1>4 DEF Tick, poolVars, LInv, TypeOK, OrderInv
<1>5. CASE EndPoll
  BY <1>1, <1>2, <1>5 DEF EndPoll, poolVars, LInv, TypeOK, OrderInv
<1>6. CASE PollerStops
  BY <1>1, <1>2, <1>6 DEF PollerStops, poolVars, LInv, TypeOK, OrderInv
<1>7. CASE Stop
  BY <1>1, <1>2, <1>7 DEF Stop, poolVars, LInv, TypeOK, OrderInv
<1>8. CASE FinishStop
  <2>1. UNCHANGED <<available, req>> /\ closed' = TRUE
    BY <1>8 DEF FinishStop, Close
  <2>2. Held' = Held /\ Holders' = Holders
    BY <2>1 DEF Held, Holders
  <2>3. PoolTypeOK' /\ PoolInv'
    BY <1>1, <2>1, <2>2 DEF PoolTypeOK, PoolInv, RequestsInv, ClientsExclusive, CapacityKept
  <2> QED BY <1>1, <1>8, <2>1, <2>3 DEF FinishStop, LInv, TypeOK, OrderInv
<1>9. ASSUME NEW c \in Caller, PollRequest(c)
      PROVE  LInv'
  <2> DEFINE r == [req[c] EXCEPT !.at = "get"]
  <2>1. req[c] \in Request /\ req[c].at = "idle"
    BY <1>1, <1>9 DEF PollRequest, BeginRequest, PoolTypeOK
  <2>2. r \in Request /\ r.at = "get" /\ r.client = req[c].client
    BY <2>1 DEF Request
  <2>3. req' = [req EXCEPT ![c] = r] /\ UNCHANGED pool
    BY <1>9 DEF PollRequest, BeginRequest, PoolTypeOK, Request
  <2> HIDE DEF r
  <2>4. PoolTypeOK' /\ PoolInv'
    BY <1>1, <2>1, <2>2, <2>3, RequestGoesOn
  <2>5. todo' \in 0..MaxRequests
    BY <1>9, LifecycleAssumption DEF PollRequest, LInv, TypeOK
  <2> QED BY <1>1, <1>9, <2>3, <2>4, <2>5 DEF PollRequest, LInv, TypeOK, OrderInv, pool
<1>10. ASSUME NEW c \in Caller, PollStep(c)
       PROVE  LInv'
  <2>1. req[c].at # "idle"
    BY <1>10 DEF PollStep, RequestStep, GetClient, TemporaryClient, CallSucceeds, CallFails, ReturnClient
  <2>2. poller = "polling" /\ ~closed
    BY <1>1, <2>1 DEF OrderInv
  <2>3. PoolTypeOK' /\ PoolInv'
    BY <1>1, <1>10, <2>2, RequestKeepsPool DEF PollStep
  <2>4. closed' = closed
    BY <1>10 DEF PollStep, RequestStep, GetClient, TemporaryClient, CallSucceeds, CallFails, ReturnClient, pool
  <2> QED BY <1>1, <1>10, <2>2, <2>3, <2>4 DEF PollStep, lifecycle, LInv, TypeOK, OrderInv
<1>11. CASE UNCHANGED vars
  BY <1>1, <1>2, <1>11 DEF vars, poolVars, lifecycle, LInv, TypeOK, OrderInv
<1> QED BY <1>3, <1>4, <1>5, <1>6, <1>7, <1>8, <1>9, <1>10, <1>11 DEF Next

(* The invariant of the pool and the lifecycle. *)
THEOREM LifecycleInvariance == Spec => []LInv
BY InitLInv, NextLInv, PTL DEF Spec

(* The variables keep their types: retries stay within maxRetries, and no   *)
(* poll makes a request more than it set out to make.                       *)
THEOREM LifecycleType == Spec => []TypeOK
<1>1. LInv => TypeOK
  BY DEF LInv
<1> QED BY LifecycleInvariance, <1>1, PTL

(* GetClient never hands out a client that another goroutine has or that is *)
(* still in the channel, however many temporary clients NewRPCClient made.  *)
THEOREM PoolExclusive == Spec => []ClientsExclusive
<1>1. LInv => ClientsExclusive
  BY DEF LInv, PoolInv
<1> QED BY LifecycleInvariance, <1>1, PTL

(* ReturnClient never loses a place of the pool and never overfills it.     *)
THEOREM PoolCapacity == Spec => []CapacityKept
<1>1. LInv => CapacityKept
  BY DEF LInv, PoolInv
<1> QED BY LifecycleInvariance, <1>1, PTL

(* Indexer.Stop closes the pool only when no request can be in progress.    *)
THEOREM PoolClosedAfterRequests == Spec => []PoolClosedLast
<1>1. LInv => PoolClosedLast
  BY DEF LInv, OrderInv, PoolClosedLast
<1> QED BY LifecycleInvariance, <1>1, PTL

(* No goroutine receives nil from a closed pool or sends on one: the panics *)
(* that GetClient and ReturnClient could run into do not happen.            *)
THEOREM NoRequestPanics == Spec => [](\A c \in Caller : req[c].at # "panic")
<1>1. LInv => \A c \in Caller : req[c].at # "panic"
  BY DEF LInv, PoolInv, RequestsInv
<1> QED BY LifecycleInvariance, <1>1, PTL
=============================================================================
