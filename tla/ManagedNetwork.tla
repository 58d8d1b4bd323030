--------------------------- MODULE ManagedNetwork ---------------------------
(***************************************************************************)
(* The node pool of the SDK (_ManagedNetwork, managed_network.go) with the *)
(* per-node health bookkeeping it drives (_Node / _ManagedNode).           *)
(*                                                                         *)
(* A node is a heap object: Objs is the pool of object identities, and    *)
(* membership is compared by identity, as the Go code compares pointers.  *)
(* The operations that the code performs in several unsynchronised steps  *)
(* are split at the points where another goroutine can interleave:        *)
(*   - _ReadmitNodes: the earliest-readmit scan, then the second `range   *)
(*     mn.nodes` loop that appends to mn.healthyNodes;                    *)
(*   - _SetNetwork: computing (and closing removed nodes), then assigning *)
(*     mn.nodes / mn.network / mn.healthyNodes, without healthyNodesMutex.*)
(* Callers are the goroutines that use the pool.                          *)
(***************************************************************************)
EXTENDS Integers, FiniteSetsExt, Functions
LOCAL INSTANCE SequencesExt

CONSTANTS
  Keys,              \* node account IDs (the key of _GetKey)
  Addrs,             \* node addresses
  Objs,              \* identities of node objects that may be allocated
  Callers,           \* goroutines using the pool
  Books,             \* address books: functions from a set of keys to addresses
  InitBook,          \* the network the client is constructed with
  NodeMinBackoff,    \* _ManagedNetwork.minBackoff given to new nodes
  NodeMaxBackoff,    \* a node's maxBackoff
  MinReadmitPeriod,  \* minNodeReadmitPeriod
  MaxReadmitPeriod,  \* maxNodeReadmitPeriod
  MaxTime,           \* bound on the clock
  Never,             \* a nil readmitTime
  None               \* no snapshot / no pending assignment

ASSUME InitBook \in Books
ASSUME \A b \in Books : DOMAIN b \subseteq Keys /\ Range(b) \subseteq Addrs
ASSUME 0 < NodeMinBackoff /\ NodeMinBackoff <= NodeMaxBackoff
ASSUME 0 < MinReadmitPeriod /\ MinReadmitPeriod <= MaxReadmitPeriod

VARIABLES
  now,       \* time.Now()
  alloc,     \* alloc[o]: object o has been created
  key,       \* key[o]: its accountID
  addr,      \* addr[o]: its address
  backoff,   \* backoff[o]: currentBackoff
  readmit,   \* readmit[o]: readmitTime, or Never
  channel,   \* channel[o]: node.channel # nil
  nodes,     \* mn.nodes (mn.network is the index of this set by key)
  healthy,   \* mn.healthyNodes
  earliest,  \* mn.earliestReadmitTime
  snap,      \* snap[c]: nodes and `now` read by caller c's readmission loop
  pending,   \* pending[c]: nodes and healthy nodes computed by c's _SetNetwork
  lastPass,  \* history: time of the last readmission pass
  applied    \* history: the address book of the last membership assignment

netVars == <<now, alloc, key, addr, backoff, readmit, channel, nodes, healthy,
             earliest, snap, pending, lastPass, applied>>

Time == 0..MaxTime
Book == UNION {[D -> Addrs] : D \in SUBSET Keys}

TypeOK ==
  /\ now \in Time
  /\ alloc \in [Objs -> BOOLEAN]
  /\ key \in [Objs -> Keys]
  /\ addr \in [Objs -> Addrs]
  /\ backoff \in [Objs -> NodeMinBackoff..NodeMaxBackoff]
  /\ readmit \in [Objs -> Int \cup {Never}]
  /\ channel \in [Objs -> BOOLEAN]
  /\ nodes \subseteq Objs /\ healthy \subseteq Objs
  /\ earliest \in Int
  /\ snap \in [Callers -> [nodes : SUBSET Objs, at : Time] \cup {None}]
  /\ pending \in [Callers -> [book : Book, nodes : SUBSET Objs, healthy : SUBSET Objs] \cup {None}]
  /\ lastPass \in Int
  /\ applied \in Book

-----------------------------------------------------------------------------
(* _ManagedNode (managed_node.go is not part of this source tree: modelled *)
(* from the spec, section 4.2).                                            *)

\* _IsHealthy: no pending readmission deadline, or it has passed.
IsHealthy(o) == IF readmit[o] = Never THEN TRUE ELSE readmit[o] < now

\* healthyNodesMutex is free: no _ReadmitNodes holds it.
Unlocked == \A c \in Callers : snap[c] = None

\* network._IncreaseBackoff(node), under healthyNodesMutex: double the backoff up to the maximum; a
\* node already at the maximum gets a readmission deadline and leaves the
\* healthy set.
\* IncreaseBackoffFrom(o, b) is that step when the backoff is b.
IncreaseBackoffFrom(o, b) ==
  /\ Unlocked
  /\ IF b >= NodeMaxBackoff
     THEN /\ readmit' = [readmit EXCEPT ![o] = now + b]
          /\ healthy' = healthy \ {o}
          /\ backoff' = [backoff EXCEPT ![o] = b]
     ELSE /\ backoff' = [backoff EXCEPT ![o] = Min({2 * b, NodeMaxBackoff})]
          /\ UNCHANGED <<readmit, healthy>>

IncreaseBackoff(o) == IncreaseBackoffFrom(o, backoff[o])

\* Mutation: the halving without the floor.
DecreasedNoFloor(o) == backoff[o] \div 2

\* _DecreaseBackoff: halve the backoff down to the minimum.
Decreased(o) == Max({backoff[o] \div 2, NodeMinBackoff})

DecreaseBackoff(o) == backoff' = [backoff EXCEPT ![o] = Decreased(o)]

-----------------------------------------------------------------------------
(* _ManagedNetwork                                                         *)

\* The objects _NewNode returns for the entries of `book` named by `ks`:
\* fresh identities, one per key.
Fresh(ks) == CHOOSE f \in Injection(ks, {o \in Objs : ~alloc[o]}) : TRUE

\* _NewNode for each entry: currentBackoff = minBackoff, readmitTime nil,
\* no channel.
CreateNodes(f, book) ==
  /\ alloc' = [o \in Objs |-> alloc[o] \/ o \in Range(f)]
  /\ key' = [o \in Objs |-> IF o \in Range(f) THEN CHOOSE k \in DOMAIN f : f[k] = o ELSE key[o]]
  /\ addr' = [o \in Objs |-> IF o \in Range(f) THEN book[CHOOSE k \in DOMAIN f : f[k] = o] ELSE addr[o]]
  /\ backoff' = [o \in Objs |-> IF o \in Range(f) THEN NodeMinBackoff ELSE backoff[o]]
  /\ readmit' = [o \in Objs |-> IF o \in Range(f) THEN Never ELSE readmit[o]]

\* Mutation: _GetNodesToRemove also drops the members out of rotation.
NodesToRemoveUnhealthy(book) == {o \in nodes : key[o] \notin DOMAIN book \/ o \notin healthy}

\* _GetNodesToRemove: the members whose key the new network lacks.
NodesToRemove(book) == {o \in nodes : key[o] \notin DOMAIN book}

\* _GetNodesToRemove on the slice mn.nodes, written as the sequence `s` of
\* the nodes' keys: the loop from index i down to the first, collecting the
\* (1-based) indices whose key the new network lacks, highest first.
RECURSIVE IndicesToRemove(_, _, _)
IndicesToRemove(book, s, i) ==
  IF i < 1 THEN << >>
  ELSE (IF s[i] \in DOMAIN book THEN << >> ELSE <<i>>) \o IndicesToRemove(book, s, i - 1)

\* Mutation: the loop starts at len(nodes) - 2.
GetNodesToRemoveFromSecondLast(book, s) == IndicesToRemove(book, s, Len(s) - 1)

GetNodesToRemove(book, s) == IndicesToRemove(book, s, Len(s))

\* The removal loop of _SetNetwork: for each index in turn, newNodes loses
\* its element there (a reslice when it is the last one, else the append
\* of the two halves around it).
RECURSIVE RemoveIndices(_, _)
RemoveIndices(s, idx) ==
  IF idx = << >> THEN s
  ELSE LET i == Head(idx)
       IN RemoveIndices(IF i = Len(s) THEN SubSeq(s, 1, i - 1) ELSE RemoveAt(s, i), Tail(idx))

\* The entries _SetNetwork appends: those whose key is not held by a kept
\* node, or whose address is not held by any kept node. Key and address
\* are looked up independently (newNodeKeys, newNodeValues).
EntriesToAdd(book, kept) ==
  {k \in DOMAIN book : ~(k \in {key[o] : o \in kept} /\ book[k] \in {addr[o] : o \in kept})}

\* Mutation: the healthy list built from the old membership.
NewHealthyFromAll(kept, f) == {o \in nodes : IsHealthy(o)} \cup Range(f)

\* _CreateNetworkFromNodes(newNodes): the healthy list is every new node
\* that is healthy (the kept healthy ones and the fresh ones).
NewHealthy(kept, f) == {o \in kept : IsHealthy(o)} \cup Range(f)

\* _SetNetwork, first part: close the removed nodes, build newNodes and
\* compute _CreateNetworkFromNodes(newNodes) into caller-local values.
SetNetworkCompute(c, book) ==
  LET kept == nodes \ NodesToRemove(book)
      toAdd == EntriesToAdd(book, kept)
  IN /\ pending[c] = None /\ snap[c] = None
     /\ Cardinality(toAdd) <= Cardinality({o \in Objs : ~alloc[o]})
     /\ LET f == Fresh(toAdd)
            newNodes == kept \cup Range(f)
        IN /\ CreateNodes(f, book)
           /\ channel' = [o \in Objs |-> IF o \in NodesToRemove(book) THEN FALSE ELSE channel[o]]
           /\ pending' = [pending EXCEPT ![c] =
                [book |-> book, nodes |-> newNodes,
                 healthy |-> NewHealthy(kept, f)]]
     /\ UNCHANGED <<now, nodes, healthy, earliest, snap, lastPass, applied>>

\* _SetNetwork, second part: mn.nodes, mn.network, mn.healthyNodes = ...
SetNetworkAssign(c) ==
  /\ pending[c] # None
  /\ nodes' = pending[c].nodes
  /\ healthy' = pending[c].healthy
  /\ pending' = [pending EXCEPT ![c] = None]
  /\ applied' = pending[c].book
  /\ UNCHANGED <<now, alloc, key, addr, backoff, readmit, channel, earliest, snap, lastPass>>

\* The new mn.earliestReadmitTime: now + maxNodeReadmitPeriod, lowered to
\* the soonest future readmitTime before it, raised to at least
\* now + minNodeReadmitPeriod.
NextEarliest ==
  LET cap == now + MaxReadmitPeriod
      soon == {readmit[o] : o \in {o \in nodes : readmit[o] # Never
                                                 /\ readmit[o] > now /\ readmit[o] < cap}}
      t == IF soon = {} THEN cap ELSE Min(soon)
  IN Max({t, now + MinReadmitPeriod})

\* _ReadmitNodes, under the write lock, when earliestReadmitTime is before
\* now: update earliestReadmitTime, then start the loop over mn.nodes.
ReadmitScan(c) ==
  /\ Unlocked /\ pending[c] = None
  /\ earliest < now
  /\ earliest' = NextEarliest
  /\ snap' = [snap EXCEPT ![c] = [nodes |-> nodes, at |-> now]]
  /\ UNCHANGED <<now, alloc, key, addr, backoff, readmit, channel, nodes, healthy, pending,
                 lastPass, applied>>

\* The loop dereferences _GetReadmitTime() of every node of the range that
\* is not in mn.healthyNodes: a nil one makes the pass panic.
NilReadmitInPass(c) == \E o \in snap[c].nodes \ healthy : readmit[o] = Never

\* The nodes of the range the loop appends.
DueInPass(c) == {o \in snap[c].nodes \ healthy : readmit[o] # Never /\ readmit[o] < snap[c].at}

\* Mutation: the readmission test `<=` instead of Before.
ReadmitAppendLe(c) ==
  /\ snap[c] # None /\ ~NilReadmitInPass(c)
  /\ healthy' = healthy \cup {o \in snap[c].nodes : o \notin healthy
                                /\ readmit[o] # Never /\ readmit[o] <= snap[c].at}
  /\ snap' = [snap EXCEPT ![c] = None]
  /\ lastPass' = snap[c].at
  /\ UNCHANGED <<now, alloc, key, addr, backoff, readmit, channel, nodes, earliest, pending, applied>>

\* Mutation: the loop stops after the first readmitted node.
ReadmitAppendFirst(c) ==
  LET due == {o \in snap[c].nodes : o \notin healthy /\ readmit[o] # Never /\ readmit[o] < snap[c].at}
  IN /\ snap[c] # None /\ ~NilReadmitInPass(c)
     /\ healthy' = healthy \cup (IF due = {} THEN {} ELSE {CHOOSE o \in due : TRUE})
     /\ snap' = [snap EXCEPT ![c] = None]
     /\ lastPass' = snap[c].at
     /\ UNCHANGED <<now, alloc, key, addr, backoff, readmit, channel, nodes, earliest, pending, applied>>

\* Mutation: the pass returns without releasing healthyNodesMutex.
ReadmitAppendKeepLock(c) ==
  /\ snap[c] # None /\ ~NilReadmitInPass(c)
  /\ healthy' = healthy \cup {o \in snap[c].nodes : o \notin healthy
                                /\ readmit[o] # Never /\ readmit[o] < snap[c].at}
  /\ lastPass' = snap[c].at
  /\ UNCHANGED <<now, alloc, key, addr, backoff, readmit, channel, nodes, earliest, snap,
                 pending, applied>>

\* _ReadmitNodes, the loop: every node of the range not in mn.healthyNodes
\* whose readmitTime is before the captured `now` is appended. A node with
\* a nil readmitTime makes the loop panic after it has appended the due
\* nodes that come before it in mn.nodes; the pass then does not complete,
\* and the deferred Unlock releases healthyNodesMutex as the panic unwinds.
ReadmitAppend(c) ==
  /\ snap[c] # None
  /\ IF NilReadmitInPass(c)
     THEN /\ \E before \in SUBSET DueInPass(c) : healthy' = healthy \cup before
          /\ UNCHANGED lastPass
     ELSE /\ healthy' = healthy \cup DueInPass(c)
          /\ lastPass' = snap[c].at
  /\ snap' = [snap EXCEPT ![c] = None]
  /\ UNCHANGED <<now, alloc, key, addr, backoff, readmit, channel, nodes, earliest, pending, applied>>

\* node._Close(): close and clear the channel.
NodeClose(o) == channel' = [channel EXCEPT ![o] = FALSE]

\* The clock.
Tick ==
  /\ now < MaxTime
  /\ now' = now + 1
  /\ UNCHANGED <<alloc, key, addr, backoff, readmit, channel, nodes, healthy,
                 earliest, snap, pending, lastPass, applied>>

-----------------------------------------------------------------------------
(* The pool on its own: callers that readmit, report failures and          *)
(* successes of members, and replace the membership.                       *)

Init ==
  LET f == CHOOSE g \in Injection(DOMAIN InitBook, Objs) : TRUE
  IN /\ now = 1
     /\ alloc = [o \in Objs |-> o \in Range(f)]
     /\ key = [o \in Objs |-> IF o \in Range(f) THEN CHOOSE k \in DOMAIN f : f[k] = o
                              ELSE CHOOSE k \in Keys : TRUE]
     /\ addr = [o \in Objs |-> IF o \in Range(f) THEN InitBook[CHOOSE k \in DOMAIN f : f[k] = o]
                               ELSE CHOOSE a \in Addrs : TRUE]
     /\ backoff = [o \in Objs |-> NodeMinBackoff]
     /\ readmit = [o \in Objs |-> Never]
     /\ channel = [o \in Objs |-> FALSE]
     /\ nodes = Range(f)
     /\ healthy = Range(f)
     /\ earliest = 0
     /\ snap = [c \in Callers |-> None]
     /\ pending = [c \in Callers |-> None]
     /\ lastPass = 0
     /\ applied = InitBook

Idle(c) == snap[c] = None /\ pending[c] = None

ReportFailure(c, o) ==
  /\ Idle(c) /\ o \in nodes
  /\ IncreaseBackoff(o)
  /\ UNCHANGED <<now, alloc, key, addr, channel, nodes, earliest, snap, pending, lastPass, applied>>

ReportSuccess(c, o) ==
  /\ Idle(c) /\ o \in nodes
  /\ DecreaseBackoff(o)
  /\ UNCHANGED <<now, alloc, key, addr, readmit, channel, nodes, healthy, earliest,
                 snap, pending, lastPass, applied>>

Next ==
  \/ Tick
  \/ \E c \in Callers :
       \/ ReadmitScan(c) \/ ReadmitAppend(c)
       \/ \E o \in Objs : ReportFailure(c, o) \/ ReportSuccess(c, o)
       \/ \E b \in Books : SetNetworkCompute(c, b)
       \/ SetNetworkAssign(c)

Spec == Init /\ [][Next]_netVars

-----------------------------------------------------------------------------
(* Properties                                                              *)

\* Spec section 3: the healthy subset is always a subset of the full peer
\* list. Broken if a readmission pass or a membership replacement appends a
\* node that _SetNetwork has removed and closed.
HealthyNodesAreMembers == healthy \subseteq nodes

\* A node in mn.healthyNodes has no pending readmission deadline: callers
\* that pick from the healthy list (_GetNode) never get a node that
\* network._IncreaseBackoff has taken out of rotation.
HealthyNodesAreHealthy == \A o \in healthy : IsHealthy(o)

\* Once a readmission pass has run, every member whose deadline had passed
\* by then is back in the healthy list: _ReadmitNodes leaves no node behind,
\* and nothing undoes its appends.
ReadmittedAfterPass ==
  \A o \in nodes \ healthy : readmit[o] # Never /\ readmit[o] >= lastPass

\* The peers the pool holds, as (key, address) entries.
Entries(S) == {<<key[o], addr[o]>> : o \in S}
BookEntries(book) == {<<k, book[k]>> : k \in DOMAIN book}

\* Spec section 3: membership replacement closes and removes exactly the
\* peers whose key is no longer present. Whatever order mn.nodes holds the
\* current members in, the index loop of _GetNodesToRemove and the in-place
\* removals of _SetNetwork that consume its indices leave newNodes as the
\* members whose key the book names, in their order: no index is skipped, and
\* no removal shifts an index still to be used. (The pool above keeps
\* mn.nodes as a set and relies on this.)
RemovalKeepsPresentKeys ==
  \A b \in Books, s \in SetToSeqs(nodes) :
    LET keys == [i \in DOMAIN s |-> key[s[i]]]
    IN RemoveIndices(s, GetNodesToRemove(b, keys))
         = SelectSeq(s, LAMBDA o : key[o] \in DOMAIN b)

\* Spec section 8: replacing the membership with the one the pool already
\* has closes no node and creates no node.
ReplaceIdempotent ==
  [][\A c \in Callers :
       (pending[c] = None /\ pending'[c] # None
          /\ BookEntries(pending'[c].book) = Entries(nodes))
         => (alloc' = alloc /\ channel' = channel /\ pending'[c].nodes = nodes)]_netVars
=============================================================================
