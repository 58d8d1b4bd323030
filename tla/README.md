# TLA+ models of the hiero-sdk-go node pool and execution engine

The models cover the concurrent core of the SDK under `src/sdk/`:

- how a request is retried across nodes (`executable.go`);
- the shared pool of nodes with backoff and readmission (`managed_network.go`, `node.go`);
- the periodic address-book refresh (`client.go`);
- the cursor collection that holds a request's pinned node IDs (`lockable_slice.go`).

`PROJECT.json` lists every component, run, mutant, finding and hazard, and maps each definition to the source lines it models.

## The system and how its parts interact

| Part | Code | Role |
|---|---|---|
| Execution engine | `_Execute`, `executable.go:193-406` | The retry loop run by every request goroutine. It checks the attempt budget and the request timeout, then doubles its backoff. It picks a node: the pinned one at the cursor, or any healthy node. It waits when that node is unhealthy and opens the node's channel lazily. It reports transport failures and successes to the pool and classifies the reply. |
| Node pool | `_ManagedNetwork`, `managed_network.go` | Holds `nodes` (the membership) and `healthyNodes`, the latter guarded by `healthyNodesMutex`. `_GetNode` runs a debounced readmission pass (`_ReadmitNodes`), then picks a healthy node or panics if there is none. `_SetNetwork` diffs a new address book against the membership: it closes and removes nodes, creates new ones, and assigns both lists. |
| Node | `_Node`, `node.go`; `_ManagedNode`, `_Network` | A node has a lazily dialled channel and a backoff. A failure doubles the backoff; at the maximum it marks the node unhealthy until now + backoff. A success halves it down to the minimum. `managed_node.go` and `network.go` are not in this tree, so these steps are modelled from the spec and marked `spec_modelled`. |
| Refresher | `_ScheduleNetworkUpdate`, `_UpdateAddressBook`, `client.go:204-222` | A goroutine that periodically queries the address book and calls `_SetNetwork`. `_Execute` also defers a synchronous `_UpdateAddressBook` for every RETRY_WITH_ANOTHER_NODE reply. |
| Lockable slice | `_LockableSlice`, `lockable_slice.go` | A slice with a cursor and a lock, used for a request's node account IDs. |

Requests and the refresher share the pool. Their only synchronisation is `healthyNodesMutex`, which is held by `_ReadmitNodes`, by `_GetNode`'s read and by the backoff increase. `_SetNetwork` takes no lock.

## Modules

### `ManagedNetwork.tla`: the pool on its own

**State**

- `nodes` and `healthy` are sets of node objects drawn from `Objs`.
- Each node has a `key` and an `addr`, a `backoff`, a `readmit` deadline (`Never` while unset) and a `channel` flag.
- `earliest` is `earliestReadmitTime`.
- `snap[c]` is the membership and the `now` that a readmission pass of caller `c` captured. A pass is split at the point where its two loops may interleave with other goroutines.
- `pending[c]` is the result that `_SetNetwork` computed before its unlocked assignment.
- Two history variables:
  - `lastPass`: the time of the last completed pass.
  - `applied`: the book of the last completed replacement.

**Actions**

| Action | Models |
|---|---|
| `ReadmitScan` | the lock, the debounce test and the `earliest` update, with `NextEarliest` (`managed_network.go:96-115`) |
| `ReadmitAppend` | the append loop (`117-127`). The loop calls `_GetReadmitTime().Before(now)` on every node of its range outside the healthy list. If such a node has a nil deadline, the pass panics after appending the due nodes before it. It then sets no `lastPass`, and the deferred `Unlock` releases the mutex. |
| `SetNetworkCompute` | the diff (`48-87`): `NodesToRemove`, the descending index list of `_GetNodesToRemove` (`IndicesToRemove`, RECURSIVE) with the slice removals (`RemoveIndices`, RECURSIVE), `EntriesToAdd`, `CreateNodes` and `NewHealthy` (`_CreateNetworkFromNodes`) |
| `SetNetworkAssign` | the unlocked assignment (`87-93`) |
| `ReportFailure`, `ReportSuccess` | the pool-side effect of `_Execute`'s failure and success paths, with `IncreaseBackoffFrom` and `DecreaseBackoff` |
| `Tick` | the clock |

`Unlocked` means no pass holds `healthyNodesMutex`.

### `Executable.tla`: concurrent requests, the refresher and the pool

This module instantiates `ManagedNetwork` with the requests and the refresher as its callers. Each request's `pc` follows one iteration of `_Execute`:

`top` → (`readmit` → `append`) → `pick` → `use` → `call` | `sleep` → `top` … → `return` → (`assign`) → `done`

| Action | Models |
|---|---|
| `Top` | loop head: budget (`MaxAttempts`), timeout, backoff doubling, batched check, pinned node lookup (`executable.go:218-243`) |
| `Readmit`, `AppendHealthy`, `Pick` | `_GetNode` with its readmission pass (including the pass's nil-deadline panic) and its empty-list panic (`managed_network.go:178-190`) |
| `Use` | unhealthy-node sleep, `_GetChannel` (`GetChannel`, with dial failure), issuing the call (`executable.go:245-296`) |
| `TransportFailure` | a gRPC error and `_ExecutableDefaultRetryHandler` (`RetryHandler`, `298-311`, `389-406`): ResourceExhausted, Unavailable, DeadlineExceeded and an RST_STREAM Internal are retried with a backoff increase, any other code returns |
| `Response` | an answer before the call's deadline (`Expired`, `273-279`), then the classifier switch, with RETRY_WITH_ANOTHER_NODE's cursor advance, deferred refresh and backoff increase (`313-367`) |
| `Wake` | the end of `_DelayForAttempt` |
| `Return`, `Assign` | the deferred `_UpdateAddressBook`, run synchronously at return |
| `RefreshCompute`, `RefreshAssign` | the periodic refresher |
| `Tick` | the clock |

**Abstractions**

- **Payloads and the remote node.** A reply is any outcome in `Statuses` or `TransportErrors`. A node whose (key, address) pair is not in the network's real book (`NetworkBook`) answers INVALID_NODE_ACCOUNT, which the classifier maps to RETRY_WITH_ANOTHER_NODE.
- **Deadline.** Once a call's gRPC deadline has passed, only a DeadlineExceeded failure can end it.
- **Clock.** Time advances only while every running request is waiting, either in a sleep or in a call before its deadline. Local steps take no time.

### `LockableSlice.tla`: `_LockableSlice` on its own

There is one action per method. Each action models the method's `_RequireNotLocked` panic and its index-out-of-range panics. A panic ends the caller. The history variable `cleared` records whether a `_Clear` ran since the last `_SetSlice`.

### `RequestBuilder.tla`: a request's configuration and pinned node list

This module instantiates `LockableSlice` as the request's `nodeAccountIDs` (`Ids`) and adds the request's backoff bounds, which are nil pointers until set (`Unset`). Its steps are any method of the slice, and:

| Action | Models |
|---|---|
| `SetMaxBackoff`, `SetMinBackoff` | the setters (`executable.go:99-117`): a negative bound panics, the comparison dereferences the other bound (a nil one panics), and an out-of-order bound panics |
| `SetNodeAccountIDs` | `_Push` of each ID (the first panics on a locked list), then `_SetLocked(true)` (`164-170`) |

`GetMinBackoff` and `GetMaxBackoff` fall back to the defaults, 250ms and 8s (1 and 32 units of 250ms). The request constructors are not in this tree, so a request starts with both bounds nil or with both at their defaults.

### `Client.tla`: refresher lifecycle, shutdown and transport security

This module instantiates `ManagedNetwork` with the refresher goroutines, the `User` (the application's goroutine) and one `Requester` as callers.

**State.** Each refresher goroutine `g` has a state `rstate[g]`: `unstarted`, `select`, `query`, `assign` or `done`. It also has a timer deadline `due[g]` and a `period[g]`. `current` is the goroutine that owns `client.networkUpdateContext`, and `cancelled` is the set of cancelled contexts. `tls` is the network's `transportSecurity` flag, `secure[o]` a node's own flag, `mode[o]` the mode its channel was dialled in, and `verify` and `mnVerify` are the certificate-verification flags. `rebuild` holds the mode that `_SetTransportSecurity` is applying between its two phases.

| Action | Models |
|---|---|
| `SelectFire`, `SelectDone` | the `select` of `_ScheduleNetworkUpdate` (`client.go:213-222`): the timer fires or the context is done |
| `QueryFails`, `QueryApplies`, `AssignDone` | `_UpdateAddressBook` and the two phases of `_SetNetwork`, then `Reset` of the timer |
| `SetNetworkUpdatePeriod` | cancel the running refresher and start a new goroutine with the new period (`client.go:230-236`) |
| `CancelScheduledNetworkUpdate`, `Close` | cancellation, and `Client.Close` closing the healthy nodes' channels (`managed_network.go:216-224`) |
| `RebuildCompute`, `RebuildAssign` | `_SetTransportSecurity`: every node copied by `_ToSecure`/`_ToInsecure` (which keep the channel), then the unlocked assignment |
| `SetCertificateVerification` | `_SetVerifyCertificate`: the flag on every member and on the network |
| `SetNetwork`, `UserAssign` | the user's `Client.SetNetwork` (`client.go:433-436`): nodes built by `_NewNode`, then `_SetNetwork` with its unlocked assignment, while the refresher may be replacing the membership too |
| `Dial`, `Fail`, `Succeed` | a request dialling a healthy node in its own mode, and reporting a failure or a success |
| `UserCall`, `Tick` | a bounded count of the user's calls, and the clock |

**Fairness.** Each refresher has weak fairness on its query and assignment. It has strong fairness on `SelectDone`. Go's `select` picks uniformly at random among ready cases, so a done context that stays ready is eventually chosen even though the timer case is also ready.

`MC*.tla` modules supply model values and small books or functions for the constants.

## Runs

| Run | Result | What it shows |
|---|---|---|
| `mn_seq` | pass, ~30s | One goroutine uses the pool. Every interleaving of its operations up to time 4 keeps four invariants. **HealthyNodesAreMembers:** healthy ⊆ nodes. **HealthyNodesAreHealthy:** a healthy node's deadline has passed. **ReadmittedAfterPass:** every member outside healthy has a deadline at or after the last pass. **RemovalKeepsPresentKeys:** this is checked in every state, for every address book and every order of the current members (up to three). `_GetNodesToRemove`'s index list followed by `_SetNetwork`'s in-place removals keeps exactly the members whose key the book names, in order. The reference is a `SelectSeq` filter on the key. The run also checks the action property **ReplaceIdempotent**: re-applying the current book closes and creates nothing. Bounds: three node objects, so a replacement can create a node while others remain. Two keys and three addresses. Time runs up to 4, so a node taken out at its maximum backoff at time 1 is due again at a later pass. |
| `mn_race` | violation | `HealthyNodesAreMembers` fails with two callers. A pass captures `nodes`, `_SetNetwork` removes and closes a node without the lock, and the pass re-appends it. |
| `exec_pass` | pass, ~1 min | **EveryRequestTerminates**, under weak fairness of each request goroutine and of the clock. There are three requests. One is unpinned. One is a transaction pinned to `<<k2, k1>>`, where `k2` is absent from the network's book. One is batched. All four classifier outcomes, a retried and a fatal transport error, dial failures and one concurrent refresh are enabled. So the deferred address-book updates, the refresher's replacement and the readmission pass's panic all interleave with the retry loop. `NodeMaxBackoff` is 1, so every failure takes a node out of rotation. |
| `exec_nil` | violation | `ReadmitPassFindsDeadlines` fails, and `_GetNode` panics with a nil pointer dereference. A request's pass reads `mn.nodes`. The refresher's `_SetNetwork` then drops a healthy node and assigns both lists without `healthyNodesMutex`. The loop then calls `_GetReadmitTime().Before(now)` on the dropped node: it is outside the new healthy list and its `readmitTime` is nil (`managed_network.go:117-124`). |
| `exec_wait` | violation | `WaitOutsUnhealthyNode` fails: the code sleeps `currentBackoff`, not the node's remaining backoff (`executable.go:255-258`). |
| `exec_invalid` | violation | `InvalidNodeBackedOff` fails. A node at maximum backoff is first halved (`:313`) and then doubled (`:364`), so it stays healthy despite the comment "mark this node as unhealthy". |
| `exec_panic` | violation | `PanicOnlyWithoutHealthyNode` fails. `_GetNode`'s selection step panics on an empty healthy list while members are past their deadline, because the readmission pass is debounced (`managed_network.go:102-115`, `183`). |
| `exec_orphan` | violation | `NoChannelOfRemovedNode` fails. A request holding a node that a refresh removed and closed re-dials it (`node.go:110-118`), and the channel is never closed. |
| `ls_pass` | pass, ~10s | `RequestBuilder` with its node list. **CursorInRangeUnlessCleared**: the cursor that `_GetCurrent` and `_GetNext` index with stays inside a non-empty slice unless a `_Clear` left it behind (`lockable_slice.go:41`). So a cursor read panics only on an empty slice or after `_Clear`. **BackoffBoundsOrdered**: in any order of the setters, a request that did not panic has `GetMinBackoff <= GetMaxBackoff`. Bounds: lists of up to three IDs. Setter arguments range from -1 to 2 units, so negative, zero, in-order and out-of-order bounds all occur. |
| `client_pass` | pass, ~20s | **RefresherStopsAfterCancel**: under the fairness above, every cancelled refresher goroutine eventually exits. All three constructors run. `NewClient` schedules a refresher with the default period, `ClientFromConfigWithoutScheduleNetworkUpdate` schedules one with period 0, and `ClientForNetwork` schedules none. Period changes, cancellation, `Close`, transport-security rebuilds, certificate-verification toggles, the user's `SetNetwork`, dials and failures interleave with the refresh. |
| `client_restart` | violation | `NoDuplicateRefreshers` fails. `SetNetworkUpdatePeriod` cancels the old goroutine but does not wait for it. The old goroutine can be mid-query while the new one fires, so two `_UpdateAddressBook` calls run at once (`client.go:232`). |
| `client_tls` | violation | `ChannelMatchesAddressMode` fails. `_SetTransportSecurity` closes only healthy nodes' channels (`managed_network.go:250` via `_Close`'s loop), and `_ToSecure` copies the channel pointer. An unhealthy node keeps its plaintext channel under a TLS address. |

Every property of a passing run has a mutant in `PROJECT.json`: a plausible bug in the mapped code that TLC catches under that run's configuration.

`exec_pass` and `ls_pass` set `CHECK_DEADLOCK FALSE`:
- In `exec_pass`, a finished system stops; a request stuck short of returning is caught by the liveness property instead.
- In `ls_pass`, a panic ends the caller.

`SetCertificateVerification` is modelled in `Client`, but no run checks its propagation to every peer. `_NewNode` always sets `verifyCertificate` to true (`node.go:39`). So a node built by a refresh or by `SetNetwork` after `SetCertificateVerification(false)`, or while it walks `mn.nodes`, does not follow the network's flag. These are hazards in `PROJECT.json`.

Further divergences were reproduced while the model was built. They are recorded as hazards rather than runs, because the project keeps at most twelve runs and each is a single guard visible in the code:
- **Swapped addresses.** Take a book that exchanges two nodes' addresses. `_SetNetwork` finds each key on one kept node and each address on another, so it applies nothing: both old (key, address) pairs stay (`managed_network.go:48-87`). No run states that the membership serves the book.
- **Blocking refresh.** The deferred `_UpdateAddressBook` runs synchronously in the returning request (`executable.go:362`).
- **Stale cursor.** `_Clear` keeps the index (`lockable_slice.go:41`). This is latent, since `_Clear` has no caller in this tree.
- **Backoff overshoot.** Backoff doubling tests `<=` against the maximum before doubling, so it reaches twice the maximum (`executable.go:228`).
- **Client override.** `client.maxAttempts` overrides the request's `MaxRetry` instead of taking the minimum (`:196-200`).

`_GetNext` on an empty slice also panics (`lockable_slice.go:72`), but `_Execute` never calls it.

## Bounds and fairness

**Bounds**

- **Time.** Time is a small integer. `MaxTime` is assumed to cover one request timeout, one gRPC deadline and the longest backoff (`2 * ExecMaxBackoff`), so every sleep and call can complete.
- **Backoffs.** Node backoffs range over 1..2, enough for a node to become unhealthy on its second failure.
- **Attempts and refreshes.** `MaxRetry` of 2 allows one retry after a failure; refreshes are capped by `MaxRefreshes`.
- **Client.** There are two refresher goroutines, so one period change can start a second refresher. There are three node objects: one in the initial book, one created by a refresh and one created by a rebuild. `MaxRefreshes` is 1 in `client_pass` (the user's `SetNetwork`, to `UserBooks`, is a second replacement) and 2 in the violation runs, and `MaxUserCalls` is 2 (period changes, cancellation, close, verification, rebuilds and `SetNetwork` share this budget). `NodeMax` is 1, so one failure makes a node unhealthy, which is the case that leaves a channel open. `client_pass` sets `CHECK_DEADLOCK FALSE` because a cancelled client with the budgets spent really stops.

**Fairness.** Every request goroutine eventually takes its next step: Go's scheduler runs runnable goroutines, and the model's steps block only on `healthyNodesMutex`, which every pass releases. The clock keeps advancing. No fairness is assumed for the environment's choice of replies.

## Not modelled (yet)

- **TLS handshake:** the certificate callback that compares the server's certificate hash with the address book. Hashing is outside TLC's scope. The model keeps only which verification flag a node was created with (a hazard, `node.go:39`).
- **Client configuration:** the setters that only store a value (max attempts, timeouts, logger). Their effect on requests is modelled in `Executable` through constants. `client.minBackoff` and `client.maxBackoff` are stored but never read by `_Execute`, which uses the request's own bounds.
- **Request backoff bounds in `_Execute`.** `RequestBuilder` models the setters, but `Executable` takes the bounds as constants. Two behaviours are modelled but not checked as violations, for lack of a run: `SetMaxBackoff`/`SetMinBackoff` dereference the other bound without a nil check, and a zero minimum is accepted, after which retries never sleep.
- **Other request settings** (`SetGrpcDeadline`, `SetRequestTimeout`, `SetMaxRetry`, the log level). They only store a value; `Executable` takes their effect as constants.
- **Readmission-period and node-backoff setters** (`SetMinNodeReadmitTime`, `SetNodeMinBackoff` and the like). The pool takes these bounds as constants; making them variables would multiply the state space of every run.
- **Errors (`errors.go`).** Error values and their formatting carry no state.
- **Context lifetime.** Each attempt's `defer cancel()` lives until `_Execute` returns. Contexts are not state any property distinguishes.
- **Outside TLC's scope:** configuration parsing, errors, logging and the user agent. They carry no state the properties distinguish.

## Planned for later

- A property that the membership serves the current book, checked over books that swap addresses, and one that the request's budget is the smaller of the client's and the request's maximum attempts (spec section 4.4), each as a violation run when a run can be spared.
