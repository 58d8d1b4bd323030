---------------------------- MODULE MCExecutable ----------------------------
(* Concurrent requests, one unpinned and one pinned to both nodes (and,  *)
(* in the passing run, a batched one), on a client configured with two   *)
(* nodes of which the network has dropped the second.                    *)
EXTENDS Executable, TLC

CONSTANTS k1, k2, a1, a2, a3, r1, r2, r3

MCKeys == {k1, k2}
MCAddrs == {a1, a2}
MCObjs == 1..3
MCInitBook == (k1 :> a1) @@ (k2 :> a2)
MCNetworkBook == k1 :> a1
MCBooks == { MCNetworkBook }
MCPinned == (r1 :> << >>) @@ (r2 :> <<k2, k1>>)
MCMaxRetry == (r1 :> 2) @@ (r2 :> 2)
\* Longer attempt budgets.
MCMaxRetry4 == (r1 :> 4) @@ (r2 :> 4)
\* A third request that is batched and not a batch transaction.
MCPinned3 == MCPinned @@ (r3 :> << >>)
MCMaxRetry3 == MCMaxRetry @@ (r3 :> 2)
=============================================================================
