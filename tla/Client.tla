------------------------------- MODULE Client -------------------------------
(***************************************************************************)
(* The Client's control of its node pool (client.go): the background       *)
(* address-book refresher (_ScheduleNetworkUpdate, _UpdateAddressBook) and *)
(* its restart and cancellation (SetNetworkUpdatePeriod,                   *)
(* CancelScheduledNetworkUpdate, Close), and the pool-wide switches the    *)
(* user flips: transport security (_SetTransportSecurity, with             *)
(* _Node._ToSecure / _ToInsecure) and certificate verification            *)
(* (_SetVerifyCertificate). A requester goroutine uses the pool meanwhile: *)
(* it dials healthy nodes and reports their failures.                      *)
(*                                                                         *)
(* Each SetNetworkUpdatePeriod creates a fresh context and starts one     *)
(* goroutine bound to it, so a goroutine identity also names its context. *)
(***************************************************************************)
EXTENDS Integers, FiniteSetsExt, Functions

CONSTANTS
  Keys, Addrs, Objs, Books, InitBook,
  NodeMinBackoff, NodeMaxBackoff, MinReadmitPeriod, MaxReadmitPeriod,
  MaxTime, Never, None,
  Goroutines,     \* _ScheduleNetworkUpdate goroutines, one per context
  User,           \* the application goroutine calling the Client's methods
  Requester,      \* a goroutine executing requests against the pool
  Periods,        \* periods the user passes to SetNetworkUpdatePeriod
  DefaultPeriod,  \* defaultNetworkUpdatePeriod (24h)
  Constructors,   \* "schedule": _NewClient with a mirror network and
                  \* shouldScheduleNetworkUpdate; "noschedule":
                  \* ClientFromConfigWithoutScheduleNetworkUpdate;
                  \* "nomirror": ClientForNetwork(V2)
  MaxRefreshes,   \* bound on address-book queries
  MaxUserCalls,   \* bound on the user's calls
  UserBooks       \* networks the user passes to SetNetwork

ASSUME {User, Requester} \cap Goroutines = {} /\ User # Requester
ASSUME Constructors \subseteq {"schedule", "noschedule", "nomirror"} /\ Constructors # {}
ASSUME Periods \subseteq Nat /\ DefaultPeriod \in Nat /\ UserBooks \subseteq Books

VARIABLES
  now, alloc, key, addr, backoff, readmit, channel, nodes, healthy,
  earliest, snap, pending, lastPass, applied,
  tls,        \* mn.transportSecurity
  secure,     \* secure[o]: node o's address is the TLS variant
  mode,       \* mode[o]: the transport the open channel of o was dialled with
  verify,     \* verify[o]: node.verifyCertificate
  mnVerify,   \* mn.verifyCertificate
  current,    \* the goroutine of client.networkUpdateContext, or None
  cancelled,  \* goroutines whose context is cancelled (ctx.Done() closed)
  rstate,     \* rstate[g]: where goroutine g is
  due,        \* due[g]: when the time.After of g's current select fires
  period,     \* period[g]: the duration g was started with
  rebuild,    \* the transportSecurity a running _SetTransportSecurity sets, or None
  refreshes,  \* address-book queries so far
  userCalls   \* the user's calls so far

netVars == <<now, alloc, key, addr, backoff, readmit, channel, nodes, healthy,
             earliest, snap, pending, lastPass, applied>>
cliVars == <<tls, secure, mode, verify, mnVerify, current, cancelled, rstate, due,
             period, rebuild, refreshes, userCalls>>
vars == <<netVars, cliVars>>

Net == INSTANCE ManagedNetwork WITH Callers <- Goroutines \cup {User, Requester}

Modes == {"tls", "plain"}
RStates == {"unstarted", "select", "query", "assign", "done"}

TypeOK ==
  /\ Net!TypeOK
  /\ tls \in BOOLEAN /\ mnVerify \in BOOLEAN
  /\ secure \in [Objs -> BOOLEAN] /\ verify \in [Objs -> BOOLEAN]
  /\ mode \in [Objs -> Modes]
  /\ current \in Goroutines \cup {None}
  /\ cancelled \subseteq Goroutines
  /\ rstate \in [Goroutines -> RStates]
  /\ due \in [Goroutines -> Int] /\ period \in [Goroutines -> Nat]
  /\ rebuild \in BOOLEAN \cup {None}
  /\ refreshes \in 0..MaxRefreshes /\ userCalls \in 0..MaxUserCalls

\* The transport grpc.NewClient uses for a node: TLS credentials when its
\* address is the secure variant.
ModeOf(o) == IF secure[o] THEN "tls" ELSE "plain"

\* The objects a step allocated.
Created == {o \in Objs : alloc'[o] /\ ~alloc[o]}

\* Nodes built from an address book: _NewNode sets verifyCertificate; the
\* address variant follows the pool's transport security.
NewNodeFlags ==
  /\ secure' = [o \in Objs |-> IF o \in Created THEN tls ELSE secure[o]]
  /\ verify' = [o \in Objs |-> IF o \in Created THEN TRUE ELSE verify[o]]

\* v with each fresh object of f (f: original -> copy) given its original's
\* value.
CopyOf(f, v) == [o \in Objs |-> IF o \in Range(f) THEN v[CHOOSE n \in DOMAIN f : f[n] = o]
                                ELSE v[o]]

-----------------------------------------------------------------------------
(* _ScheduleNetworkUpdate(ctx, duration): for { select { case              *)
(* <-ctx.Done(): return; case <-time.After(duration):                      *)
(* client._UpdateAddressBook() } }. When both cases are ready, select      *)
(* picks one at random.                                                    *)

\* Mutation: the select watches client.networkUpdateContext, not the
\* context the goroutine was started with.
SelectDoneOnClientCtx(g) ==
  /\ rstate[g] = "select" /\ current \in cancelled
  /\ rstate' = [rstate EXCEPT ![g] = "done"]
  /\ UNCHANGED <<netVars, tls, secure, mode, verify, mnVerify, current, cancelled, due,
                 period, rebuild, refreshes, userCalls>>

SelectDone(g) ==
  /\ rstate[g] = "select" /\ g \in cancelled
  /\ rstate' = [rstate EXCEPT ![g] = "done"]
  /\ UNCHANGED <<netVars, tls, secure, mode, verify, mnVerify, current, cancelled, due,
                 period, rebuild, refreshes, userCalls>>

SelectFire(g) ==
  /\ rstate[g] = "select" /\ due[g] <= now /\ refreshes < MaxRefreshes
  /\ rstate' = [rstate EXCEPT ![g] = "query"]
  /\ refreshes' = refreshes + 1
  /\ UNCHANGED <<netVars, tls, secure, mode, verify, mnVerify, current, cancelled, due,
                 period, rebuild, userCalls>>

\* Back at the select: a new time.After(duration).
Rearm(g) == due' = [due EXCEPT ![g] = now + period[g]]

\* _UpdateAddressBook: the address-book query fails or yields no entries;
\* the membership is kept.
QueryFails(g) ==
  /\ rstate[g] = "query"
  /\ rstate' = [rstate EXCEPT ![g] = "select"] /\ Rearm(g)
  /\ UNCHANGED <<netVars, tls, secure, mode, verify, mnVerify, current, cancelled,
                 period, rebuild, refreshes, userCalls>>

\* _UpdateAddressBook: SetNetworkFromAddressBook, i.e. _SetNetwork up to its
\* assignment, with the nodes built from the book.
QueryApplies(g) ==
  \E b \in Books :
    /\ rstate[g] = "query"
    /\ Net!SetNetworkCompute(g, b)
    /\ NewNodeFlags
    /\ rstate' = [rstate EXCEPT ![g] = "assign"]
    /\ UNCHANGED <<tls, mode, mnVerify, current, cancelled, due, period, rebuild,
                   refreshes, userCalls>>

AssignDone(g) ==
  /\ rstate[g] = "assign"
  /\ Net!SetNetworkAssign(g)
  /\ rstate' = [rstate EXCEPT ![g] = "select"] /\ Rearm(g)
  /\ UNCHANGED <<tls, secure, mode, verify, mnVerify, current, cancelled, period,
                 rebuild, refreshes, userCalls>>

-----------------------------------------------------------------------------
(* The user's calls. The user is one goroutine: a call runs to its end     *)
(* before the next starts.                                                 *)

UserCall ==
  /\ rebuild = None /\ pending[User] = None /\ userCalls < MaxUserCalls
  /\ userCalls' = userCalls + 1

\* CancelScheduledNetworkUpdate: client.cancelNetworkUpdate().
Cancelled == IF current = None THEN cancelled ELSE cancelled \cup {current}

CancelScheduledNetworkUpdate ==
  /\ UserCall
  /\ cancelled' = Cancelled
  /\ UNCHANGED <<netVars, tls, secure, mode, verify, mnVerify, current, rstate, due,
                 period, rebuild, refreshes>>

\* SetNetworkUpdatePeriod(p): cancel the current context, make a new one
\* and start a goroutine on it.
SetNetworkUpdatePeriod(p) ==
  \E g \in Goroutines :
    /\ UserCall /\ rstate[g] = "unstarted"
    /\ cancelled' = Cancelled
    /\ current' = g
    /\ rstate' = [rstate EXCEPT ![g] = "select"]
    /\ period' = [period EXCEPT ![g] = p]
    /\ due' = [due EXCEPT ![g] = now + p]
    /\ UNCHANGED <<netVars, tls, secure, mode, verify, mnVerify, rebuild, refreshes>>

\* _ManagedNetwork._Close: close the channel of every healthy node.
PoolClosed == [o \in Objs |-> channel[o] /\ o \notin healthy]

\* Client.Close: cancel the refresher, then close the pool.
Close ==
  /\ UserCall
  /\ cancelled' = Cancelled
  /\ channel' = PoolClosed
  /\ UNCHANGED <<now, alloc, key, addr, backoff, readmit, nodes, healthy, earliest, snap,
                 pending, lastPass, applied, tls, secure, mode, verify, mnVerify, current,
                 rstate, due, period, rebuild, refreshes>>

\* Client.SetNetwork(network): the pool builds a node for each entry with
\* _NewNode and runs _SetNetwork, up to its unlocked assignment.
SetNetwork(b) ==
  /\ UserCall
  /\ Net!SetNetworkCompute(User, b)
  /\ NewNodeFlags
  /\ UNCHANGED <<tls, mode, mnVerify, current, cancelled, rstate, due, period, rebuild,
                 refreshes>>

\* The assignment that ends the user's SetNetwork.
UserAssign ==
  /\ pending[User] # None /\ rebuild = None
  /\ Net!SetNetworkAssign(User)
  /\ UNCHANGED cliVars

\* _SetVerifyCertificate: set the flag on every member and on the pool.
SetCertificateVerification(v) ==
  /\ UserCall
  /\ verify' = [o \in Objs |-> IF o \in nodes THEN v ELSE verify[o]]
  /\ mnVerify' = v
  /\ UNCHANGED <<netVars, tls, secure, mode, current, cancelled, rstate, due, period,
                 rebuild, refreshes>>

\* _SetTransportSecurity(b) with b # mn.transportSecurity, up to its
\* assignment: _Close, then each member copied by _ToSecure/_ToInsecure
\* into a new object that keeps its key, address, backoff, readmitTime,
\* verifyCertificate and channel pointer, and _CreateNetworkFromNodes.
RebuildCompute(b) ==
  LET free == {o \in Objs : ~alloc[o]}
  IN /\ UserCall /\ b # tls /\ pending[User] = None
     /\ Cardinality(nodes) <= Cardinality(free)
     /\ LET f == CHOOSE h \in Injection(nodes, free) : TRUE
        IN /\ alloc' = [o \in Objs |-> alloc[o] \/ o \in Range(f)]
           /\ key' = CopyOf(f, key) /\ addr' = CopyOf(f, addr)
           /\ backoff' = CopyOf(f, backoff) /\ readmit' = CopyOf(f, readmit)
           /\ verify' = CopyOf(f, verify) /\ mode' = CopyOf(f, mode)
           /\ channel' = CopyOf(f, PoolClosed)
           /\ secure' = [o \in Objs |-> IF o \in Range(f) THEN b ELSE secure[o]]
           /\ pending' = [pending EXCEPT ![User] =
                [book |-> applied, nodes |-> Range(f),
                 healthy |-> {f[n] : n \in {n \in nodes : Net!IsHealthy(n)}}]]
     /\ rebuild' = b
     /\ UNCHANGED <<now, nodes, healthy, earliest, snap, lastPass, applied, tls, mnVerify,
                    current, cancelled, rstate, due, period, refreshes>>

\* The rest of _SetTransportSecurity: mn.nodes, mn.healthyNodes, mn.network
\* = ..., then mn.transportSecurity = b.
RebuildAssign ==
  /\ rebuild # None
  /\ Net!SetNetworkAssign(User)
  /\ tls' = rebuild /\ rebuild' = None
  /\ UNCHANGED <<secure, mode, verify, mnVerify, current, cancelled, rstate, due, period,
                 refreshes, userCalls>>

-----------------------------------------------------------------------------
(* The requester: _GetNode then _GetChannel on a healthy node, and the     *)
(* backoff change after its call fails or succeeds.                       *)

Dial(o) ==
  /\ o \in healthy /\ Net!Unlocked /\ ~channel[o]
  /\ channel' = [channel EXCEPT ![o] = TRUE]
  /\ mode' = [mode EXCEPT ![o] = ModeOf(o)]
  /\ UNCHANGED <<now, alloc, key, addr, backoff, readmit, nodes, healthy, earliest, snap,
                 pending, lastPass, applied, tls, secure, verify, mnVerify, current,
                 cancelled, rstate, due, period, rebuild, refreshes, userCalls>>

\* The requester reports the failure of the node it picked: with one
\* requester and no readmission, that node is still healthy.
Fail(o) == o \in healthy /\ Net!ReportFailure(Requester, o) /\ UNCHANGED cliVars

\* A successful call on the node the requester picked.
Succeed(o) == o \in healthy /\ Net!ReportSuccess(Requester, o) /\ UNCHANGED cliVars

Tick == Net!Tick /\ UNCHANGED cliVars

-----------------------------------------------------------------------------

\* The period of the refresher a constructor starts: the default one, or 0
\* from the SetNetworkUpdatePeriod(0) of
\* ClientFromConfigWithoutScheduleNetworkUpdate.
StartPeriod(c) == IF c = "schedule" THEN DefaultPeriod ELSE 0

\* ClientForNetwork / ClientForNetworkV2: _NewClient without a mirror
\* network starts no refresher (its context is never watched), then
\* SetNetwork applies the given network.
NoRefresher ==
  /\ current = None
  /\ rstate = [g \in Goroutines |-> "unstarted"]
  /\ period = [g \in Goroutines |-> 0]
  /\ due = [g \in Goroutines |-> 0]

\* The client as its constructor returns it. _NewClient with a mirror
\* network queries the address book eagerly (taken to return the network
\* the client was built with, which _SetNetwork leaves as it is) and starts
\* the refresher with the default period;
\* ClientFromConfigWithoutScheduleNetworkUpdate calls
\* SetNetworkUpdatePeriod(0).
Init ==
  /\ Net!Init
  /\ \/ "nomirror" \in Constructors /\ NoRefresher
     \/ \E c \in Constructors \ {"nomirror"} :
          LET g0 == CHOOSE g \in Goroutines : TRUE
              p == StartPeriod(c)
          IN /\ current = g0
             /\ rstate = [g \in Goroutines |-> IF g = g0 THEN "select" ELSE "unstarted"]
             /\ period = [g \in Goroutines |-> IF g = g0 THEN p ELSE 0]
             /\ due = [g \in Goroutines |-> IF g = g0 THEN now + p ELSE 0]
  /\ tls = FALSE /\ mnVerify = FALSE
  /\ secure = [o \in Objs |-> FALSE]
  /\ mode = [o \in Objs |-> "plain"]
  /\ verify = [o \in Objs |-> TRUE]
  /\ cancelled = {}
  /\ rebuild = None /\ refreshes = 0 /\ userCalls = 0

Next ==
  \/ Tick
  \/ \E g \in Goroutines :
       SelectDone(g) \/ SelectFire(g) \/ QueryFails(g) \/ QueryApplies(g) \/ AssignDone(g)
  \/ \E p \in Periods : SetNetworkUpdatePeriod(p)
  \/ CancelScheduledNetworkUpdate \/ Close
  \/ \E b \in BOOLEAN : RebuildCompute(b) \/ SetCertificateVerification(b)
  \/ RebuildAssign
  \/ \E b \in UserBooks : SetNetwork(b)
  \/ UserAssign
  \/ \E o \in Objs : Dial(o) \/ Fail(o) \/ Succeed(o)

\* Every refresher goroutine keeps running; when both cases of its select
\* are ready Go picks one uniformly at random, so a context that stays
\* cancelled is eventually the case picked (strong fairness).
Fairness ==
  \A g \in Goroutines :
    /\ SF_vars(SelectDone(g))
    /\ WF_vars(QueryFails(g) \/ QueryApplies(g))
    /\ WF_vars(AssignDone(g))

Spec == Init /\ [][Next]_vars /\ Fairness

-----------------------------------------------------------------------------
(* Properties                                                              *)

\* Spec section 4.5: the refresher is a cancellable task. A goroutine of
\* _ScheduleNetworkUpdate whose context was cancelled (by
\* SetNetworkUpdatePeriod, CancelScheduledNetworkUpdate or Close) returns,
\* whatever refresh it is in the middle of.
RefresherStopsAfterCancel == \A g \in Goroutines : g \in cancelled ~> rstate[g] = "done"

\* Spec section 8: restarting the refresher cancels the prior scope
\* "to avoid duplicate concurrent refreshers": no two goroutines of
\* _ScheduleNetworkUpdate run _UpdateAddressBook at the same time.
NoDuplicateRefreshers ==
  \A g1, g2 \in Goroutines :
    rstate[g1] \in {"query", "assign"} /\ rstate[g2] \in {"query", "assign"} => g1 = g2

\* Spec section 3: toggling transport security rebuilds the peers with the
\* address mode flipped: every member's open channel was dialled with the
\* transport its address calls for, so no request to a member goes over
\* the other transport.
ChannelMatchesAddressMode == \A o \in nodes : channel[o] => mode[o] = ModeOf(o)
=============================================================================
