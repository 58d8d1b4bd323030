-------------------------- MODULE MCManagedNetwork --------------------------
(* The pool with two keys, three addresses and three node objects; the     *)
(* address books keep, drop and move entries.                              *)
EXTENDS ManagedNetwork, TLC

CONSTANTS k1, k2, a1, a2, a3

MCKeys == {k1, k2}
MCAddrs == {a1, a2, a3}
MCObjs == 1..3
MCInitBook == (k1 :> a1) @@ (k2 :> a2)
MCBooks == { MCInitBook, k1 :> a1, (k1 :> a1) @@ (k2 :> a3) }
=============================================================================
