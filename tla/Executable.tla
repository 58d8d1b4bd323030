----------------------------- MODULE Executable -----------------------------
(***************************************************************************)
(* The execution engine (_Execute, executable.go) run by concurrent        *)
(* requests against the shared node pool (ManagedNetwork), together with   *)
(* the client's background address-book refresher (_ScheduleNetworkUpdate *)
(* and _UpdateAddressBook, client.go) and the lazy channel of a node       *)
(* (_Node._GetChannel, node.go).                                           *)
(*                                                                         *)
(* Each request runs the retry loop of _Execute; pc[r] is where it is in   *)
(* one iteration. The remote nodes, the transport and the caller-supplied  *)
(* classifier (shouldRetry) are the environment: a reply is any of the     *)
(* outcomes the constants allow, except that a node whose (key, address)   *)
(* is not in the current address book answers INVALID_NODE_ACCOUNT, which  *)
(* the classifier maps to RETRY_WITH_ANOTHER_NODE.                         *)
(***************************************************************************)
EXTENDS Integers, Sequences, FiniteSetsExt, Functions

CONSTANTS
  Keys, Addrs, Objs, Books, InitBook,
  NodeMinBackoff, NodeMaxBackoff, MinReadmitPeriod, MaxReadmitPeriod,
  MaxTime, Never, None,
  Requests,          \* concurrent _Execute calls
  Refresher,         \* the _ScheduleNetworkUpdate goroutine
  Pinned,            \* Pinned[r]: the nodeAccountIDs set on request r
  Tx,                \* requests that are transactions (isTransaction)
  Regenerate,        \* transactions whose regenerateID succeeds
  Batched,           \* requests with isBatchedAndNotBatchTransaction
  MaxRetry,          \* MaxRetry[r]: e.GetMaxRetry()
  ClientMaxAttempts, \* client.maxAttempts, or None when unset
  ExecMinBackoff,    \* e.GetMinBackoff()
  ExecMaxBackoff,    \* e.GetMaxBackoff()
  RequestTimeout,    \* the request timeout
  GrpcDeadline,      \* the per-call deadline
  Statuses,          \* classifier outcomes of a valid node's reply
  TransportErrors,   \* gRPC codes a call can fail with before its deadline
  DialCanFail,       \* grpc.NewClient may fail
  NetworkBook,       \* the address book the network really has
  MaxRefreshes       \* bound on periodic address-book refreshes

ASSUME Refresher \notin Requests
ASSUME \A r \in Requests : Pinned[r] \in Seq(Keys)
ASSUME Regenerate \subseteq Tx
ASSUME Statuses \subseteq {"RETRY", "FINISHED", "ERROR", "EXPIRED"}
\* "InternalRstStream" is codes.Internal with a message that rstStream
\* matches; "Internal" is any other codes.Internal.
ASSUME TransportErrors \subseteq {"ResourceExhausted", "Unavailable", "InternalRstStream",
                                  "Internal", "Canceled", "Unknown"}
ASSUME 0 < ExecMinBackoff /\ ExecMinBackoff <= ExecMaxBackoff
\* The clock reaches every wake-up: an attempt starts before RequestTimeout,
\* waits at most a gRPC deadline or a backoff, and a backoff is at most
\* twice ExecMaxBackoff (it doubles while it is <= ExecMaxBackoff); requests start at time 1.
ASSUME MaxTime >= RequestTimeout + GrpcDeadline + 2 * ExecMaxBackoff

VARIABLES
  now, alloc, key, addr, backoff, readmit, channel, nodes, healthy,
  earliest, snap, pending, lastPass, applied,
  pc,        \* pc[r]: the step of _Execute request r is at
  attempt,   \* the loop counter `attempt`
  cur,       \* currentBackoff
  started,   \* startTime
  wake,      \* end of the current time.Sleep
  callAt,    \* when the in-flight gRPC call was issued
  errP,      \* errPersistent
  node,      \* the node of the current attempt
  cursor,    \* the index of the nodeAccountIDs slice
  result,    \* what _Execute returns
  deferred,  \* client._UpdateAddressBook calls deferred by the request
  calls,     \* history: gRPC calls issued by the request
  refreshes  \* periodic address-book refreshes so far

netVars == <<now, alloc, key, addr, backoff, readmit, channel, nodes, healthy,
             earliest, snap, pending, lastPass, applied>>
reqVars == <<pc, attempt, cur, started, wake, callAt, errP, node, cursor, result,
             deferred, calls>>
envVars == <<refreshes>>
vars == <<netVars, reqVars, envVars>>

Net == INSTANCE ManagedNetwork WITH Callers <- Requests \cup {Refresher}

Pc == {"top", "readmit", "append", "pick", "use", "call", "sleep",
       "return", "assign", "done"}
Results == {"none", "finished", "error", "expired", "timeout", "exhausted",
            "batched", "invalidNodeAccount", "grpcFatal", "panic"}

\* The attempt budget: client.maxAttempts when set, else e.GetMaxRetry().
MaxAttempts(r) == IF ClientMaxAttempts = None THEN MaxRetry[r] ELSE ClientMaxAttempts

TypeOK ==
  /\ Net!TypeOK
  /\ pc \in [Requests -> Pc]
  /\ attempt \in [Requests -> Nat]
  /\ cur \in [Requests -> Nat]
  /\ started \in [Requests -> Net!Time]
  /\ wake \in [Requests -> Nat]
  /\ callAt \in [Requests -> Net!Time]
  /\ errP \in [Requests -> {"none", "channel", "grpc", "status"}]
  /\ node \in [Requests -> Objs \cup {None}]
  /\ cursor \in [Requests -> Nat]
  /\ result \in [Requests -> Results]
  /\ deferred \in [Requests -> Nat]
  /\ calls \in [Requests -> Nat]
  /\ refreshes \in Nat

-----------------------------------------------------------------------------
(* Helpers                                                                 *)

\* _LockableSlice._Advance on nodeAccountIDs (advanceRequest).
Advance(r) ==
  cursor' = [cursor EXCEPT ![r] = IF Len(Pinned[r]) = 0 THEN @ ELSE (@ + 1) % Len(Pinned[r])]

\* _GetNodeForAccountID: a member node with the pinned key.
NodesFor(k) == {o \in nodes : key[o] = k}

\* End the loop with `res`; the deferred calls still run before returning.
Finish(r, res) ==
  /\ pc' = [pc EXCEPT ![r] = "return"]
  /\ result' = [result EXCEPT ![r] = res]

\* `continue`: the for statement increments attempt.
Continue(r, next) ==
  /\ pc' = [pc EXCEPT ![r] = next]
  /\ attempt' = [attempt EXCEPT ![r] = @ + 1]

\* _DelayForAttempt: time.Sleep(currentBackoff), then continue.
Delay(r) ==
  /\ Continue(r, "sleep")
  /\ wake' = [wake EXCEPT ![r] = now + cur[r]]

-----------------------------------------------------------------------------
(* _Execute                                                                *)

\* Top of the loop: the for condition, the request-timeout check, the
\* backoff doubling, the batch check and the choice of the node.
Top(r) ==
  /\ pc[r] = "top"
  /\ \/ /\ attempt[r] >= MaxAttempts(r)
        /\ Finish(r, "exhausted")
        /\ UNCHANGED <<cur, node>>
     \/ /\ attempt[r] < MaxAttempts(r)
        /\ now - started[r] >= RequestTimeout
        /\ Finish(r, "timeout")
        /\ UNCHANGED <<cur, node>>
     \/ /\ attempt[r] < MaxAttempts(r)
        /\ now - started[r] < RequestTimeout
        /\ cur' = [cur EXCEPT ![r] = IF attempt[r] > 0 /\ @ <= ExecMaxBackoff THEN @ * 2 ELSE @]
        /\ \/ /\ r \in Batched
              /\ Finish(r, "batched")
              /\ UNCHANGED node
           \/ /\ r \notin Batched
              /\ Len(Pinned[r]) = 0
              /\ pc' = [pc EXCEPT ![r] = "readmit"]
              /\ UNCHANGED <<result, node>>
           \/ /\ r \notin Batched
              /\ Len(Pinned[r]) > 0
              /\ LET k == Pinned[r][cursor[r] + 1] IN
                 \/ /\ NodesFor(k) = {}
                    /\ Finish(r, "invalidNodeAccount")
                    /\ UNCHANGED node
                 \/ \E o \in NodesFor(k) :
                      /\ node' = [node EXCEPT ![r] = o]
                      /\ pc' = [pc EXCEPT ![r] = "use"]
                      /\ UNCHANGED result
  /\ UNCHANGED <<netVars, attempt, started, wake, callAt, errP, cursor, deferred, calls, envVars>>

\* _GetNode -> _ReadmitNodes: the scan when earliestReadmitTime is before
\* now, otherwise nothing.
Readmit(r) ==
  /\ pc[r] = "readmit"
  /\ \/ /\ Net!ReadmitScan(r)
        /\ pc' = [pc EXCEPT ![r] = "append"]
     \/ /\ earliest >= now
        /\ pc' = [pc EXCEPT ![r] = "pick"]
        /\ UNCHANGED netVars
  /\ UNCHANGED <<attempt, cur, started, wake, callAt, errP, node, cursor, result,
                 deferred, calls, envVars>>

\* _ReadmitNodes: the loop appending readmitted nodes, or its panic on a
\* nil readmitTime, which unwinds _Execute.
AppendHealthy(r) ==
  /\ pc[r] = "append"
  /\ Net!ReadmitAppend(r)
  /\ IF Net!NilReadmitInPass(r) THEN Finish(r, "panic")
     ELSE pc' = [pc EXCEPT ![r] = "pick"] /\ UNCHANGED result
  /\ UNCHANGED <<attempt, cur, started, wake, callAt, errP, node, cursor,
                 deferred, calls, envVars>>

\* _GetNode, under the read lock: a random healthy node, or a panic when
\* there is none.
Pick(r) ==
  /\ pc[r] = "pick" /\ Net!Unlocked
  /\ \/ /\ healthy = {}
        /\ Finish(r, "panic")
        /\ UNCHANGED node
     \/ \E o \in healthy :
          /\ node' = [node EXCEPT ![r] = o]
          /\ pc' = [pc EXCEPT ![r] = "use"]
          /\ UNCHANGED result
  /\ UNCHANGED <<netVars, attempt, cur, started, wake, callAt, errP, cursor,
                 deferred, calls, envVars>>

\* _Node._GetChannel, under channelMutex: the node's channel, dialled
\* (grpc.NewClient) when it has none.
GetChannel(o) ==
  \/ channel[o] /\ UNCHANGED channel
  \/ ~channel[o] /\ channel' = [channel EXCEPT ![o] = TRUE]

\* The attempt on the chosen node: wait if it is unhealthy, else get (or
\* dial) its channel and issue the gRPC call; a failed dial increases the
\* node's backoff and advances to the next node.
Use(r) ==
  LET o == node[r] IN
  /\ pc[r] = "use"
  /\ \/ /\ ~Net!IsHealthy(o)
        /\ Delay(r)
        /\ UNCHANGED <<netVars, errP, cursor, callAt, calls>>
     \/ /\ Net!IsHealthy(o)
        /\ GetChannel(o)
        /\ pc' = [pc EXCEPT ![r] = "call"]
        /\ callAt' = [callAt EXCEPT ![r] = now]
        /\ calls' = [calls EXCEPT ![r] = @ + 1]
        /\ UNCHANGED <<now, alloc, key, addr, backoff, readmit, nodes, healthy, earliest,
                       snap, pending, lastPass, applied, attempt, wake, errP, cursor>>
     \/ /\ Net!IsHealthy(o) /\ ~channel[o] /\ DialCanFail
        /\ Net!IncreaseBackoff(o)
        /\ Advance(r)
        /\ errP' = [errP EXCEPT ![r] = "channel"]
        /\ Continue(r, "top")
        /\ UNCHANGED <<now, alloc, key, addr, channel, nodes, earliest, snap, pending,
                       lastPass, applied, wake, callAt, calls>>
  /\ UNCHANGED <<cur, started, node, result, deferred, envVars>>

\* _ExecutableDefaultRetryHandler: whether a failed call is retried.
RetryHandler(code) ==
  code \in {"ResourceExhausted", "Unavailable", "DeadlineExceeded", "InternalRstStream"}

\* The call's context expired: the call fails with DeadlineExceeded.
Expired(r) == now >= callAt[r] + GrpcDeadline

\* The gRPC call fails: with DeadlineExceeded once its deadline has passed,
\* before that with any code the transport may return. A retried code
\* increases the node's backoff and continues, any other ends the request.
TransportFailure(r) ==
  LET o == node[r] IN
  /\ pc[r] = "call"
  /\ Advance(r)
  /\ errP' = [errP EXCEPT ![r] = "grpc"]
  /\ \E code \in IF Expired(r) THEN {"DeadlineExceeded"} ELSE TransportErrors :
       \/ /\ RetryHandler(code)
          /\ Net!IncreaseBackoff(o)
          /\ Continue(r, "top")
          /\ UNCHANGED result
       \/ /\ ~RetryHandler(code)
          /\ Finish(r, "grpcFatal")
          /\ UNCHANGED <<backoff, readmit, healthy, attempt>>
  /\ UNCHANGED <<now, alloc, key, addr, channel, nodes, earliest, snap, pending,
                 lastPass, applied, cur, started, wake, callAt, node, deferred, calls, envVars>>

\* The gRPC call returns a response: decrease the node's backoff and act
\* on the classifier's outcome (RETRY_WITH_ANOTHER_NODE then increases it
\* again).
Response(r) ==
  LET o == node[r]
      invalid == <<key[o], addr[o]>> \notin Net!BookEntries(NetworkBook)
  IN
  /\ pc[r] = "call" /\ ~Expired(r)
  /\ \/ /\ invalid
        \* RETRY_WITH_ANOTHER_NODE: defer an address-book update, advance,
        \* increase the backoff, continue.
        /\ errP' = [errP EXCEPT ![r] = "status"]
        /\ Advance(r)
        /\ deferred' = [deferred EXCEPT ![r] = @ + 1]
        /\ Net!IncreaseBackoffFrom(o, Net!Decreased(o))
        /\ Continue(r, "top")
        /\ UNCHANGED <<result, wake>>
     \/ /\ ~invalid /\ Net!DecreaseBackoff(o)
        /\ UNCHANGED <<readmit, healthy, cursor, deferred>>
        /\ \E s \in Statuses :
             \/ /\ s = "RETRY"
                /\ errP' = [errP EXCEPT ![r] = "status"]
                /\ Delay(r)
                /\ UNCHANGED result
             \/ /\ s = "EXPIRED" /\ r \in Regenerate
                /\ Continue(r, "top")
                /\ UNCHANGED <<errP, result, wake>>
             \/ /\ s = "EXPIRED" /\ r \notin Regenerate
                /\ Finish(r, "expired")
                /\ UNCHANGED <<errP, attempt, wake>>
             \/ /\ s = "ERROR"
                /\ Finish(r, "error")
                /\ UNCHANGED <<errP, attempt, wake>>
             \/ /\ s = "FINISHED"
                /\ Finish(r, "finished")
                /\ UNCHANGED <<errP, attempt, wake>>
  /\ UNCHANGED <<now, alloc, key, addr, channel, nodes, earliest, snap, pending,
                 lastPass, applied, cur, started, callAt, node, calls, envVars>>

\* The end of time.Sleep.
Wake(r) ==
  /\ pc[r] = "sleep"
  /\ now >= wake[r]
  /\ pc' = [pc EXCEPT ![r] = "top"]
  /\ UNCHANGED <<netVars, attempt, cur, started, wake, callAt, errP, node, cursor,
                 result, deferred, calls, envVars>>

\* Returning from _Execute: run a deferred client._UpdateAddressBook (the
\* address-book query fails or is empty, or its book is applied with
\* SetNetworkFromAddressBook), or return when none is left.
Return(r) ==
  /\ pc[r] = "return"
  /\ \/ /\ deferred[r] > 0
        /\ deferred' = [deferred EXCEPT ![r] = @ - 1]
        /\ \/ /\ Net!SetNetworkCompute(r, NetworkBook)
              /\ pc' = [pc EXCEPT ![r] = "assign"]
           \/ /\ UNCHANGED <<netVars, pc>>
     \/ /\ deferred[r] = 0
        /\ pc' = [pc EXCEPT ![r] = "done"]
        /\ UNCHANGED <<netVars, deferred>>
  /\ node' = [node EXCEPT ![r] = None]
  /\ UNCHANGED <<attempt, cur, started, wake, callAt, errP, cursor, result, calls, envVars>>

\* The rest of the deferred _SetNetwork.
Assign(r) ==
  /\ pc[r] = "assign"
  /\ Net!SetNetworkAssign(r)
  /\ pc' = [pc EXCEPT ![r] = "return"]
  /\ UNCHANGED <<attempt, cur, started, wake, callAt, errP, node, cursor, result,
                 deferred, calls, envVars>>

-----------------------------------------------------------------------------
(* The refresher and the clock                                             *)

\* _ScheduleNetworkUpdate: on the period, _UpdateAddressBook applies the
\* address book the query returns.
RefreshCompute ==
  /\ refreshes < MaxRefreshes
  /\ Net!SetNetworkCompute(Refresher, NetworkBook)
  /\ refreshes' = refreshes + 1
  /\ UNCHANGED reqVars

RefreshAssign ==
  /\ Net!SetNetworkAssign(Refresher)
  /\ UNCHANGED <<reqVars, envVars>>

\* A request that waits: in time.Sleep before its end, or in a gRPC call
\* before its deadline (a call past it returns DEADLINE_EXCEEDED).
Waiting(r) ==
  \/ pc[r] = "sleep" /\ now < wake[r]
  \/ pc[r] = "call" /\ ~Expired(r)

\* Time passes while the running requests wait; the steps between two
\* waits take no time.
Tick ==
  /\ \E r \in Requests : pc[r] # "done"
  /\ \A r \in Requests : pc[r] = "done" \/ Waiting(r)
  /\ Net!Tick
  /\ UNCHANGED <<reqVars, envVars>>

\* Every request has returned: the system idles.
Terminated ==
  /\ \A r \in Requests : pc[r] = "done"
  /\ UNCHANGED vars

Init ==
  /\ Net!Init
  /\ pc = [r \in Requests |-> "top"]
  /\ attempt = [r \in Requests |-> 0]
  /\ cur = [r \in Requests |-> ExecMinBackoff]
  /\ started = [r \in Requests |-> now]
  /\ wake = [r \in Requests |-> 0]
  /\ callAt = [r \in Requests |-> 0]
  /\ errP = [r \in Requests |-> "none"]
  /\ node = [r \in Requests |-> None]
  /\ cursor = [r \in Requests |-> 0]
  /\ result = [r \in Requests |-> "none"]
  /\ deferred = [r \in Requests |-> 0]
  /\ calls = [r \in Requests |-> 0]
  /\ refreshes = 0

Request(r) ==
  \/ Top(r) \/ Readmit(r) \/ AppendHealthy(r) \/ Pick(r) \/ Use(r)
  \/ TransportFailure(r) \/ Response(r) \/ Wake(r) \/ Return(r) \/ Assign(r)

Next ==
  \/ \E r \in Requests : Request(r)
  \/ RefreshCompute \/ RefreshAssign \/ Tick \/ Terminated

\* Goroutines are scheduled fairly, time passes, and a call returns by its
\* deadline.
Fairness ==
  /\ \A r \in Requests : WF_vars(Request(r))
  /\ WF_vars(Tick)

Spec == Init /\ [][Next]_vars /\ Fairness

-----------------------------------------------------------------------------
(* Properties                                                              *)

\* When a request meets an unhealthy node it waits out the node's remaining
\* backoff (spec section 4.4 step 5): the sleep ends after the node's
\* readmission deadline.
WaitOutsUnhealthyNode ==
  [][\A r \in Requests :
       (pc[r] = "use" /\ pc'[r] = "sleep" /\ ~Net!IsHealthy(node[r]))
         => wake'[r] > readmit[node[r]]]_vars

\* RETRY_WITH_ANOTHER_NODE marks the node unhealthy (the comment at the
\* _IncreaseBackoff call in _Execute): the answering node leaves the healthy
\* set or at least its backoff grows.
InvalidNodeBackedOff ==
  [][\A r \in Requests :
       deferred'[r] > deferred[r] =>
         node[r] \notin healthy' \/ backoff'[node[r]] > backoff[node[r]]]_vars

\* _GetNode fails only when no peer is eligible for selection (spec
\* sections 4.3 and 9: a peer is healthy iff its readmission deadline is
\* unset or has passed): the selection step of _GetNode never panics on an
\* empty healthy list while some member node is healthy.
PanicOnlyWithoutHealthyNode ==
  [][\A r \in Requests :
       pc[r] = "pick" /\ result'[r] = "panic"
         => \A o \in nodes : ~Net!IsHealthy(o)]_vars

\* A node's connection is closed when the node is removed from the pool
\* (spec section 3): once no request holds a removed node, its channel is
\* closed.
NoChannelOfRemovedNode ==
  \A o \in Objs : channel[o] => o \in nodes \/ \E r \in Requests : node[r] = o

\* _ReadmitNodes dereferences the readmitTime of every node of the range it
\* loops over that is not in mn.healthyNodes (managed_network.go:124): a
\* request's readmission pass meets no such node without a deadline, so
\* _GetNode does not panic there.
ReadmitPassFindsDeadlines ==
  \A r \in Requests : pc[r] = "append" => ~Net!NilReadmitInPass(r)

\* Every _Execute call returns: the attempt budget and the request timeout
\* bound the loop whatever the nodes answer.
EveryRequestTerminates == <>(\A r \in Requests : pc[r] = "done")
=============================================================================
