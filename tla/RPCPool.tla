------------------------------- MODULE RPCPool -------------------------------
(***************************************************************************)
(* The pool of RPC clients of internal/bitcoin/rpc_pool.go and the retry    *)
(* loops inside a request: callWithRetry of a client (rpc.go) and the one   *)
(* further try of RPCPool.GetBlockHash and RPCPool.GetBlock.  A caller is a *)
(* goroutine.  Clients are alike, so the channel of available clients is a  *)
(* set: the order in which it hands them out does not matter.               *)
(***************************************************************************)
EXTENDS Integers, FiniteSets

CONSTANTS
    Caller,         \* goroutines that make requests
    Client,         \* *RPCClient values, pooled and temporary
    NoClient,       \* a caller holds no client
    PoolSize,       \* capacity of the channel RPCPool.available
    MaxRetries      \* RPCClient.maxRetries

ASSUME RPCPoolAssumption ==
    /\ PoolSize \in Nat \ {0}
    /\ MaxRetries \in Nat
    /\ NoClient \notin Client
    /\ IsFiniteSet(Client) /\ IsFiniteSet(Caller)
    /\ Cardinality(Client) >= PoolSize + Cardinality(Caller)

VARIABLES
    available,      \* RPCPool.available
    closed,         \* the channel available has been closed
    req             \* each caller's request

pool == <<available, closed>>
poolVars == <<available, closed, req>>

(* Outcomes of RPCClient.call: a refused, reset or broken connection; the   *)
(* 120 second limit of the HTTP client; a status of 429 or from 500 up; any *)
(* other status, or an error in a well-formed answer.                       *)
Error == {"connection", "deadline", "status", "rpc"}

Request == [at : {"idle", "get", "call", "return", "panic"},
            client : Client \cup {NoClient},
            attempt : 0..MaxRetries,
            retried : BOOLEAN,
            err : Error \cup {"none"}]

Idle == [at |-> "idle", client |-> NoClient, attempt |-> 0, retried |-> FALSE, err |-> "none"]

Held == {req[c].client : c \in Caller} \ {NoClient}
Holders == {c \in Caller : req[c].client # NoClient}

(* NewRPCPool fills the channel with new clients. *)
PoolInit ==
    /\ available \in {S \in SUBSET Client : Cardinality(S) = PoolSize}
    /\ closed = FALSE
    /\ req = [c \in Caller |-> Idle]

(* A goroutine calls GetBlockHash or GetBlock. *)
BeginRequest(c) ==
    /\ req[c].at = "idle"
    /\ req' = [req EXCEPT ![c].at = "get"]
    /\ UNCHANGED pool

(* A receive from the channel; once it is closed and drained it yields nil, *)
(* which the caller dereferences.                                           *)
GetClient(c) ==
    /\ req[c].at = "get"
    /\ available # {} \/ closed
    /\ IF available = {}
       THEN req' = [req EXCEPT ![c].at = "panic"] /\ UNCHANGED available
       ELSE \E k \in available :
                /\ available' = available \ {k}
                /\ req' = [req EXCEPT ![c].at = "call", ![c].client = k]
    /\ UNCHANGED closed

(* Mutant: the client of another goroutine is handed out. *)
TemporaryClientReused(c) ==
    /\ req[c].at = "get"
    /\ available = {} /\ ~closed
    /\ \E k \in Held : req' = [req EXCEPT ![c].at = "call", ![c].client = k]
    /\ UNCHANGED pool

(* No client for 30 seconds: a temporary one is made. *)
TemporaryClient(c) ==
    /\ req[c].at = "get"
    /\ available = {} /\ ~closed
    /\ \E k \in Client \ Held : req' = [req EXCEPT ![c].at = "call", ![c].client = k]
    /\ UNCHANGED pool

CallSucceeds(c) ==
    /\ req[c].at = "call"
    /\ req' = [req EXCEPT ![c].at = "return", ![c].err = "none"]
    /\ UNCHANGED pool

(* isRetryableError looks for a net.Error or an HTTPError, but call has     *)
(* wrapped what http.Client.Do returned: only statuses are recognised.      *)
isRetryableError(e) == e = "status"

(* isRetryableRPCError looks for words in the message.  "timeout" is not in *)
(* the message of an exceeded Client.Timeout.                               *)
isRetryableRPCError(e) == e = "connection"

(* Mutant: one attempt too many. *)
CallFailsOneMore(c, e) ==
    /\ req[c].at = "call"
    /\ IF isRetryableError(e) /\ req[c].attempt <= MaxRetries
       THEN req' = [req EXCEPT ![c].attempt = @ + 1]
       ELSE req' = [req EXCEPT ![c].at = "return", ![c].err = e]
    /\ UNCHANGED pool

(* Mutant: the pool tries again as often as it likes. *)
CallFailsForever(c, e) ==
    /\ req[c].at = "call"
    /\ IF isRetryableError(e) /\ req[c].attempt < MaxRetries
       THEN req' = [req EXCEPT ![c].attempt = @ + 1]
       ELSE IF isRetryableRPCError(e)
       THEN req' = [req EXCEPT ![c].retried = TRUE, ![c].attempt = 0]
       ELSE req' = [req EXCEPT ![c].at = "return", ![c].err = e]
    /\ UNCHANGED pool

(* The loop of callWithRetry, then the single retry of the pool's method.   *)
CallFails(c, e) ==
    /\ req[c].at = "call"
    /\ IF isRetryableError(e) /\ req[c].attempt < MaxRetries
       THEN req' = [req EXCEPT ![c].attempt = @ + 1]
       ELSE IF isRetryableRPCError(e) /\ ~req[c].retried
       THEN req' = [req EXCEPT ![c].retried = TRUE, ![c].attempt = 0]
       ELSE req' = [req EXCEPT ![c].at = "return", ![c].err = e]
    /\ UNCHANGED pool

(* Mutant: a client that has failed is not put back. *)
ReturnGoodClient(c) ==
    /\ req[c].at = "return"
    /\ IF closed
       THEN req' = [req EXCEPT ![c].at = "panic"] /\ UNCHANGED available
       ELSE /\ available' = IF req[c].err = "none" /\ Cardinality(available) < PoolSize
                            THEN available \cup {req[c].client} ELSE available
            /\ req' = [req EXCEPT ![c] = Idle]
    /\ UNCHANGED closed

(* The deferred ReturnClient: the client goes back unless the channel is    *)
(* full; a send on a closed channel panics.                                 *)
ReturnClient(c) ==
    /\ req[c].at = "return"
    /\ IF closed
       THEN req' = [req EXCEPT ![c].at = "panic"] /\ UNCHANGED available
       ELSE /\ available' = IF Cardinality(available) < PoolSize
                            THEN available \cup {req[c].client} ELSE available
            /\ req' = [req EXCEPT ![c] = Idle]
    /\ UNCHANGED closed

(* RPCPool.Close *)
Close ==
    /\ closed' = TRUE
    /\ UNCHANGED <<available, req>>

RequestStep(c) ==
    \/ GetClient(c) \/ TemporaryClient(c)
    \/ CallSucceeds(c) \/ \E e \in Error : CallFails(c, e)
    \/ ReturnClient(c)

-----------------------------------------------------------------------------
(* Properties *)

(* The types of the variables. *)
PoolTypeOK ==
    /\ available \subseteq Client
    /\ closed \in BOOLEAN
    /\ req \in [Caller -> Request]

(* A client is with one goroutine at most and never in the channel at the   *)
(* same time, temporary clients that enter the pool included.               *)
ClientsExclusive ==
    /\ Held \cap available = {}
    /\ \A c, d \in Holders : req[c].client = req[d].client => c = d

(* Temporary clients, failed calls and a full channel never cost the pool a *)
(* place: clients at rest and in use are at least PoolSize together, and    *)
(* the channel never holds more.                                            *)
CapacityKept ==
    /\ Cardinality(available) <= PoolSize
    /\ Cardinality(available) + Cardinality(Holders) >= PoolSize

=============================================================================
