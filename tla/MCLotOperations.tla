-------------------------- MODULE MCLotOperations --------------------------
(***************************************************************************)
(* Instances of LotOperations for TLC.                                     *)
(***************************************************************************)
EXTENDS LotOperations, TLC

CONSTANTS l1, l2, w1, w2

\* Two lots that share both ingredients, of which the stock allows one start
\* and, after a receipt, the other.
SharedNeed == (l1 :> (1 :> 1 @@ 2 :> 1)) @@ (l2 :> (1 :> 2 @@ 2 :> 1))
SmallStock == 1 :> 2 @@ 2 :> 2

Movements == {-1, 1}

\* Stock that just allows both starts until something is withdrawn: both run at
\* the same time, each waits for the other's rows, and either may be refused.
TightStock == 1 :> 3 @@ 2 :> 2
Withdrawals == {-1}
=============================================================================
