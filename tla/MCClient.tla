------------------------------- MODULE MCClient -------------------------------
(* The client with two refresher goroutines, a pool of one node that an  *)
(* address book replaces, and room for one _SetTransportSecurity rebuild. *)
EXTENDS Client, TLC

CONSTANTS k1, k2, a1, a2, g1, g2

MCKeys == {k1, k2}
MCAddrs == {a1, a2}
MCObjs == 1..3
MCGoroutines == {g1, g2}
MCInitBook == k1 :> a1
MCBooks == { MCInitBook, k2 :> a2 }
\* The user moves the client to the other node.
MCUserBooks == { k2 :> a2 }
=============================================================================
