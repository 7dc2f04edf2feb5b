------------------------ MODULE MCParallelComposite ------------------------
(***************************************************************************)
(* ParallelComposite for TLC: three regions whose mappings agree on one    *)
(* outcome and differ on the other, the second region mapping one only.    *)
(***************************************************************************)
EXTENDS ParallelComposite, TLC

CONSTANTS r1, r2, r3, ok, failed, reached, timeout

MCMapping ==
  [r \in Region |-> CASE r = r1 -> (ok :> reached @@ failed :> timeout)
                      [] r = r2 -> (ok :> timeout @@ failed :> Unmapped)
                      [] r = r3 -> (ok :> Unmapped @@ failed :> reached)]
=============================================================================
