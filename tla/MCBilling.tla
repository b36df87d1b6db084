----------------------------- MODULE MCBilling -----------------------------
(* BillingAudit on small amounts: a price of one, cards with and without a *)
(* daily limit, an unlimited card and a disabled one.                      *)
EXTENDS BillingAudit

Card(limit, active, unlimited) ==
  [daily_limit |-> limit, is_active |-> active, is_unlimited |-> unlimited]

MCAmounts == {-2, 0, 1, 2}

MCCards ==
  {Card(None, TRUE, FALSE), Card(1, TRUE, FALSE), Card(2, TRUE, FALSE),
   Card(2, FALSE, FALSE), Card(None, TRUE, TRUE)}
=============================================================================
