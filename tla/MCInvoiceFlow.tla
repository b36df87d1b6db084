--------------------------- MODULE MCInvoiceFlow ---------------------------
(* InvoiceFlow with small amounts and the cards a run needs. *)
EXTENDS InvoiceFlow, TLC

Card(limit, active, unlimited) ==
  [daily_limit |-> limit, is_active |-> active, is_unlimited |-> unlimited]

NoAmounts == {}
TopupOnly == {2}
MixedAmounts == {-2, 2}

\* A metered account with a limit of two charges a day, on or off.
LimitedCards == {Card(2, TRUE, FALSE), Card(2, FALSE, FALSE)}
\* A limit that an operator may lift, and unlimited service.
OpenCards == {Card(None, TRUE, FALSE), Card(1, TRUE, FALSE), Card(None, TRUE, TRUE)}
\* A single metered card without a limit.
PlainCards == {Card(None, TRUE, FALSE)}
Symmetry == Permutations(Sessions) \cup Permutations(Keys)
=============================================================================
