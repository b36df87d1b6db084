------------------------ MODULE BillingRulesProofs ------------------------
(***************************************************************************)
(* What the row computations of BillingService return, for every row.      *)
(***************************************************************************)
EXTENDS BillingRules, TLAPS

\* _append_entry moves the balance by the amount, closes the episode at zero
\* or above and otherwise leaves it alone.
LEMMA AppendEntryEffect ==
  ASSUME NEW row \in AccountRow, NEW amount \in Int
  PROVE  LET new == AppendEntry(row, amount)
         IN  /\ new \in AccountRow
             /\ new.balance = row.balance + amount
             /\ new.balance >= 0 => new.overdraft_until = None /\ new.extensions_used = 0
             /\ new.balance < 0 => /\ new.overdraft_until = row.overdraft_until
                                   /\ new.extensions_used = row.extensions_used
             /\ new.daily_limit = row.daily_limit
             /\ new.is_unlimited = row.is_unlimited
<1> DEFINE new == AppendEntry(row, amount)
           balance == row.balance + amount
           closed == [row EXCEPT !.balance = balance, !.overdraft_until = None,
                                 !.extensions_used = 0]
           debt == [row EXCEPT !.balance = balance]
<1>1. balance \in Int
  BY DEF AccountRow
<1> HIDE DEF balance
<1>2. CASE balance >= 0
  <2>1. new = closed
    BY <1>2 DEF AppendEntry, balance
  <2>2. closed \in AccountRow
    BY <1>1 DEF AccountRow
  <2>3. /\ closed.balance = balance
        /\ closed.overdraft_until = None
        /\ closed.extensions_used = 0
        /\ closed.daily_limit = row.daily_limit
        /\ closed.is_unlimited = row.is_unlimited
    BY DEF AccountRow
  <2> QED
    BY <1>1, <1>2, <2>1, <2>2, <2>3 DEF balance
<1>3. CASE ~(balance >= 0)
  <2>1. new = debt
    BY <1>3 DEF AppendEntry, balance
  <2>2. debt \in AccountRow
    BY <1>1 DEF AccountRow
  <2>3. /\ debt.balance = balance
        /\ debt.overdraft_until = row.overdraft_until
        /\ debt.extensions_used = row.extensions_used
        /\ debt.daily_limit = row.daily_limit
        /\ debt.is_unlimited = row.is_unlimited
    BY DEF AccountRow
  <2> QED
    BY <1>1, <1>3, <2>1, <2>2, <2>3 DEF balance
<1> QED
  BY <1>2, <1>3

\* charge_for_invoice moves the balance by the amount of its entry; a debt it
\* leaves has the deadline it had, or a new one when it had none.
LEMMA ChargedRowEffect ==
  ASSUME NEW row \in AccountRow, NEW t \in Nat
  PROVE  LET new == ChargedRow(row, t)
         IN  /\ new \in AccountRow
             /\ new.balance = row.balance + ChargeAmount(row)
             /\ new.daily_limit = row.daily_limit
             /\ new.is_unlimited = row.is_unlimited
             /\ row.is_unlimited => new = row
             /\ ~row.is_unlimited /\ new.balance >= 0 =>
                  new.overdraft_until = None /\ new.extensions_used = 0
             /\ ~row.is_unlimited /\ new.balance < 0 /\ row.overdraft_until # None =>
                  /\ new.overdraft_until = row.overdraft_until
                  /\ new.extensions_used = row.extensions_used
             /\ ~row.is_unlimited /\ new.balance < 0 /\ row.overdraft_until = None =>
                  /\ new.overdraft_until = t + OverdraftTime
                  /\ new.extensions_used = 0
<1> DEFINE opened == OpenOverdraft(row, t)
<1>1. /\ opened \in AccountRow
      /\ opened.balance = row.balance
      /\ opened.daily_limit = row.daily_limit
      /\ opened.is_unlimited = row.is_unlimited
      /\ row.overdraft_until # None => opened = row
      /\ row.overdraft_until = None /\ row.balance - Price < 0 =>
           /\ opened.overdraft_until = t + OverdraftTime
           /\ opened.extensions_used = 0
  <2> DEFINE until == t + OverdraftTime
             started == [row EXCEPT !.overdraft_until = until, !.extensions_used = 0]
  <2>1. until \in Nat
    BY RulesAssumption
  <2> HIDE DEF until
  <2>2. /\ started \in AccountRow
        /\ started.balance = row.balance
        /\ started.daily_limit = row.daily_limit
        /\ started.is_unlimited = row.is_unlimited
        /\ started.overdraft_until = until
        /\ started.extensions_used = 0
    BY <2>1 DEF AccountRow
  <2>3. CASE StartsOverdraft(row)
    <3>1. opened = started
      BY <2>3 DEF OpenOverdraft, until
    <3> QED
      BY <2>2, <2>3, <3>1 DEF until, StartsOverdraft
  <2>4. CASE ~StartsOverdraft(row)
    <3>1. opened = row
      BY <2>4 DEF OpenOverdraft
    <3>2. row.balance \in Int /\ Price \in Int
      BY RulesAssumption DEF AccountRow
    <3> QED
      BY <2>4, <3>1, <3>2 DEF StartsOverdraft, CoversPrice
  <2> QED
    BY <2>3, <2>4
<1>2. CASE row.is_unlimited
  <2>1. ChargedRow(row, t) = row /\ ChargeAmount(row) = 0
    BY <1>2 DEF ChargedRow, ChargeAmount
  <2>2. row.balance + 0 = row.balance
    BY DEF AccountRow
  <2> QED
    BY <1>2, <2>1, <2>2
<1>3. CASE ~row.is_unlimited
  <2>1. -Price \in Int
    BY RulesAssumption
  <2>2. ChargedRow(row, t) = AppendEntry(opened, -Price)
    BY <1>3 DEF ChargedRow
  <2>3. ChargeAmount(row) = -Price
    BY <1>3 DEF ChargeAmount
  <2> DEFINE new == AppendEntry(opened, -Price)
  <2> HIDE DEF opened
  <2>4. /\ new \in AccountRow
        /\ new.balance = opened.balance + -Price
        /\ new.balance >= 0 => new.overdraft_until = None /\ new.extensions_used = 0
        /\ new.balance < 0 => /\ new.overdraft_until = opened.overdraft_until
                              /\ new.extensions_used = opened.extensions_used
        /\ new.daily_limit = opened.daily_limit
        /\ new.is_unlimited = opened.is_unlimited
    BY <1>1, <2>1, AppendEntryEffect
  <2>5. row.balance \in Int /\ Price \in Int
    BY RulesAssumption DEF AccountRow
  <2> HIDE DEF new
  <2>6. row.balance + -Price = row.balance - Price
    BY <2>5
  <2> QED
    BY <1>1, <1>3, <2>2, <2>3, <2>4, <2>5, <2>6 DEF new
<1> QED
  BY <1>2, <1>3

\* extend_overdraft moves the deadline and the counter and nothing else.
LEMMA ExtendedRowEffect ==
  ASSUME NEW row \in AccountRow, ExtensionAllowed(row)
  PROVE  LET new == ExtendedRow(row)
         IN  /\ new \in AccountRow
             /\ new.balance = row.balance
             /\ new.daily_limit = row.daily_limit
             /\ new.is_unlimited = row.is_unlimited
             /\ new.overdraft_until = row.overdraft_until + ExtensionTime
             /\ new.extensions_used = row.extensions_used + 1
             /\ row.overdraft_until \in Nat
             /\ row.extensions_used < MaxExtensions
<1> DEFINE until == row.overdraft_until + ExtensionTime
           used == row.extensions_used + 1
<1>1. row.overdraft_until \in Nat /\ row.extensions_used < MaxExtensions
  BY DEF ExtensionAllowed, AccountRow
<1>2. until \in Nat /\ used \in Nat
  BY <1>1, RulesAssumption DEF AccountRow
<1>3. ExtendedRow(row) = [row EXCEPT !.overdraft_until = until, !.extensions_used = used]
  BY DEF ExtendedRow
<1> HIDE DEF until, used
<1>4. [row EXCEPT !.overdraft_until = until, !.extensions_used = used] \in AccountRow
  BY <1>2 DEF AccountRow
<1> QED
  BY <1>1, <1>3, <1>4 DEF AccountRow, until, used

\* A saved card changes the three fields of the card.
LEMMA EditedRowEffect ==
  ASSUME NEW row \in AccountRow,
         NEW card \in [daily_limit: Limit, is_active: BOOLEAN, is_unlimited: BOOLEAN]
  PROVE  LET new == EditedRow(row, card)
         IN  /\ new \in AccountRow
             /\ new.balance = row.balance
             /\ new.daily_limit = card.daily_limit
             /\ new.is_unlimited = card.is_unlimited
             /\ card.daily_limit \in Limit
             /\ new.overdraft_until = row.overdraft_until
             /\ new.extensions_used = row.extensions_used
<1> DEFINE limit == card.daily_limit
           active == card.is_active
           unlimited == card.is_unlimited
           new == [row EXCEPT !.daily_limit = limit, !.is_active = active,
                              !.is_unlimited = unlimited]
<1>1. limit \in Limit /\ active \in BOOLEAN /\ unlimited \in BOOLEAN
  OBVIOUS
<1>2. EditedRow(row, card) = new
  BY DEF EditedRow
<1> HIDE DEF limit, active, unlimited
<1>3. new \in AccountRow
  BY <1>1 DEF AccountRow
<1>4. /\ new.balance = row.balance
      /\ new.daily_limit = limit
      /\ new.overdraft_until = row.overdraft_until
      /\ new.extensions_used = row.extensions_used
  BY DEF AccountRow
<1>5. new.is_unlimited = unlimited
  BY Zenon DEF AccountRow
<1> QED
  BY <1>1, <1>2, <1>3, <1>4, <1>5 DEF limit, unlimited

\* The amount of a charge takes nothing or the price from the balance.
LEMMA ChargeAmountRange ==
  ASSUME NEW row \in AccountRow
  PROVE  /\ ChargeAmount(row) \in Int
         /\ 0 - ChargeAmount(row) \in Nat
         /\ ChargeAmount(row) # 0 => ~row.is_unlimited /\ ChargeAmount(row) = -Price
  BY RulesAssumption DEF ChargeAmount
=============================================================================
