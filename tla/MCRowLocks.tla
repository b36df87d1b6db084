----------------------------- MODULE MCRowLocks -----------------------------
(* RowLocks on a small account: two rows of each table. *)
EXTENDS RowLocks, TLC

CONSTANTS t1, t2, o1, o2, l1, l2, c1, c2, i1, i2

Owner == i1 :> o1 @@ i2 :> o1
Keys == t1 :> 1 @@ t2 :> 2 @@ o1 :> 3 @@ o2 :> 4 @@ l1 :> 5 @@ l2 :> 6 @@ c1 :> 7 @@ c2 :> 8
=============================================================================
