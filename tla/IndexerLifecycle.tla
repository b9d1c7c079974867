--------------------------- MODULE IndexerLifecycle ---------------------------
(***************************************************************************)
(* Start and Stop of internal/indexer/indexer.go as cmd/indexer/main.go     *)
(* calls them, the select loop of blockPoller, and the pool of RPC clients  *)
(* that the poller uses and Stop closes.  A poll (processBlocks on the      *)
(* sequential path, or with the joined goroutines of ProcessBlocksParallel) *)
(* is some number of requests by the callers of the pool.                   *)
(***************************************************************************)
EXTENDS RPCPool

CONSTANT MaxRequests    \* requests of one poll

ASSUME LifecycleAssumption == MaxRequests \in Nat

VARIABLES
    isRunning,      \* Indexer.isRunning
    stopChan,       \* Indexer.stopChan has been closed
    poller,         \* the goroutine of blockPoller
    todo,           \* requests this poll has still to make
    main            \* where cmd/indexer/main.go is

lifecycle == <<isRunning, stopChan, poller, todo, main>>
vars == <<poolVars, lifecycle>>

Init ==
    /\ PoolInit
    /\ isRunning = FALSE /\ stopChan = FALSE
    /\ poller = "none" /\ todo = 0
    /\ main = "starting"

(* Start: one poller; the mempool poller is commented out. *)
Start ==
    /\ main = "starting"
    /\ isRunning' = TRUE
    /\ poller' = "select"
    /\ main' = "serving"
    /\ UNCHANGED <<poolVars, stopChan, todo>>

(* The ticker fires.  select picks any ready case, so a poll may begin even *)
(* though stopChan is closed already.                                       *)
Tick ==
    /\ poller = "select"
    /\ poller' = "polling"
    /\ todo' \in 0..MaxRequests
    /\ UNCHANGED <<poolVars, isRunning, stopChan, main>>

PollRequest(c) ==
    /\ poller = "polling" /\ todo > 0
    /\ BeginRequest(c)
    /\ todo' = todo - 1
    /\ UNCHANGED <<isRunning, stopChan, poller, main>>

PollStep(c) == RequestStep(c) /\ UNCHANGED lifecycle

(* processBlocks returns when its requests, and the goroutines that made    *)
(* them, have finished (wg.Wait in ProcessBlocksParallel).                  *)
EndPoll ==
    /\ poller = "polling" /\ todo = 0
    /\ \A c \in Caller : req[c].at = "idle"
    /\ poller' = "select"
    /\ UNCHANGED <<poolVars, isRunning, stopChan, todo, main>>

(* case <-i.stopChan: return, and the deferred wg.Done. *)
PollerStops ==
    /\ poller = "select" /\ stopChan
    /\ poller' = "returned"
    /\ UNCHANGED <<poolVars, isRunning, stopChan, todo, main>>

(* A signal arrives and main calls Stop, which tells the poller. *)
Stop ==
    /\ main = "serving" /\ isRunning
    /\ isRunning' = FALSE
    /\ stopChan' = TRUE
    /\ main' = "waiting"
    /\ UNCHANGED <<poolVars, poller, todo>>

(* Mutant: the pool is closed before the poller has returned. *)
FinishStopEarly ==
    /\ main = "waiting"
    /\ Close
    /\ main' = "stopped"
    /\ UNCHANGED <<isRunning, stopChan, poller, todo>>

(* After wg.Wait, Stop closes the pool; main shuts the server down. *)
FinishStop ==
    /\ main = "waiting" /\ poller = "returned"
    /\ Close
    /\ main' = "stopped"
    /\ UNCHANGED <<isRunning, stopChan, poller, todo>>

Next ==
    \/ Start \/ Tick \/ EndPoll \/ PollerStops \/ Stop \/ FinishStop
    \/ \E c \in Caller : PollRequest(c) \/ PollStep(c)

Spec == Init /\ [][Next]_vars

(* Goroutines run; an HTTP call ends, at the latest when its 120 seconds    *)
(* are over; select chooses at random, so stopChan is not passed over for   *)
(* ever.  Nothing makes the signal arrive.                                  *)
FairSpec ==
    /\ Spec
    /\ WF_vars(Start) /\ WF_vars(EndPoll) /\ WF_vars(FinishStop)
    /\ SF_vars(PollerStops)
    /\ WF_vars(\E c \in Caller : PollRequest(c))
    /\ \A c \in Caller : WF_vars(PollStep(c))

-----------------------------------------------------------------------------
(* Properties *)

(* The types of the lifecycle's own variables. *)
TypeOK ==
    /\ PoolTypeOK
    /\ isRunning \in BOOLEAN /\ stopChan \in BOOLEAN
    /\ poller \in {"none", "select", "polling", "returned"}
    /\ todo \in 0..MaxRequests
    /\ main \in {"starting", "serving", "waiting", "stopped"}

(* Stop closes the pool under nobody's feet: when it is closed no request   *)
(* is in progress, so no goroutine receives a nil client or sends on the    *)
(* closed channel, whenever the signal arrived.                             *)
PoolClosedLast == closed => \A c \in Caller : req[c].at = "idle"

(* Stop returns: the poll in progress ends and the poller sees stopChan.    *)
StopReturns == stopChan ~> main = "stopped"
=============================================================================
