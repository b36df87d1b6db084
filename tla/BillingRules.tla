---------------------------- MODULE BillingRules ----------------------------
(***************************************************************************)
(* The arithmetic of one account row: what BillingService computes from    *)
(* the row it holds, without the transaction around it.  Money is an       *)
(* integer, time is a natural number of ticks; overdraft_days,             *)
(* overdraft_extension_days and the calendar day are given in ticks.       *)
(***************************************************************************)
EXTENDS Integers

CONSTANTS
  Price,          \* invoice_price_kopecks
  MinTopup,       \* min_topup_kopecks
  OverdraftTime,  \* overdraft_days
  ExtensionTime,  \* overdraft_extension_days
  MaxExtensions,  \* overdraft_max_extensions
  DayLength,      \* one calendar day of billing_day_timezone
  None            \* the null of a nullable column

\* The ranges config.py declares (ge=0).
ASSUME RulesAssumption ==
  /\ Price \in Nat
  /\ MinTopup \in Nat
  /\ OverdraftTime \in Nat
  /\ ExtensionTime \in Nat
  /\ MaxExtensions \in Nat
  /\ DayLength \in Nat \ {0}
  /\ None \notin Int

Limit == Nat \cup {None}

\* The columns of accounts that billing reads or writes.
AccountRow ==
  [balance: Int, overdraft_until: Nat \cup {None}, extensions_used: Nat,
   daily_limit: Limit, is_active: BOOLEAN, is_unlimited: BOOLEAN]

\* A row as create_account leaves it.
NewAccount(limit, unlimited) ==
  [balance |-> 0, overdraft_until |-> None, extensions_used |-> 0,
   daily_limit |-> limit, is_active |-> TRUE, is_unlimited |-> unlimited]

\* Whether the tick from t to t + 1 starts a new calendar day.
StartsNewDay(t) == (t + 1) % DayLength = 0

\* CHECK (amount_kopecks <> 0): the flush of a zero entry fails.
LedgerAccepts(amount) == amount # 0

---------------------------------------------------------------------------
(* _append_entry *)

\* The cached balance follows the entry; back at zero or above it closes
\* the overdraft episode.
AppendEntry(row, amount) ==
  LET balance == row.balance + amount
  IN  IF balance >= 0
      THEN [row EXCEPT !.balance = balance, !.overdraft_until = None,
                       !.extensions_used = 0]
      ELSE [row EXCEPT !.balance = balance]

---------------------------------------------------------------------------
(* charge_for_invoice *)

CoversPrice(row) == row.balance - Price >= 0

StartsOverdraft(row) == ~CoversPrice(row) /\ row.overdraft_until = None

\* Mutant: a started overdraft never runs out.
SpendAllowed_no_deadline(row, t) ==
  \/ CoversPrice(row)
  \/ StartsOverdraft(row)
  \/ row.overdraft_until # None

SpendAllowed(row, t) ==
  \/ CoversPrice(row)
  \/ StartsOverdraft(row)
  \/ row.overdraft_until # None /\ t <= row.overdraft_until

\* Mutant: the sum of the day is compared before the new charge is added.
WithinDailyLimit_off_by_one(row, spentToday) ==
  row.daily_limit # None => spentToday <= row.daily_limit

WithinDailyLimit(row, spentToday) ==
  row.daily_limit # None => spentToday + Price <= row.daily_limit

\* No exception on the way to the ledger entry, nor in its flush.
ChargeAccepted(row, spentToday, t) ==
  /\ row.is_active
  /\ \/ row.is_unlimited
     \/ /\ WithinDailyLimit(row, spentToday)
        /\ SpendAllowed(row, t)
        /\ LedgerAccepts(-Price)

\* Mutant: an unlimited account gets a ledger entry all the same.
ChargeAmount_for_unlimited(row) == -Price

\* The amount of the ledger entry an accepted charge leaves; 0 is no entry.
ChargeAmount(row) == IF row.is_unlimited THEN 0 ELSE -Price

\* Mutant: every charge made in debt restarts the grace period.
OpenOverdraft_restarts(row, t) ==
  IF CoversPrice(row) THEN row
  ELSE [row EXCEPT !.overdraft_until = t + OverdraftTime, !.extensions_used = 0]

OpenOverdraft(row, t) ==
  IF StartsOverdraft(row)
  THEN [row EXCEPT !.overdraft_until = t + OverdraftTime, !.extensions_used = 0]
  ELSE row

\* The row after an accepted charge decided at time t.
ChargedRow(row, t) ==
  IF row.is_unlimited THEN row ELSE AppendEntry(OpenOverdraft(row, t), -Price)

---------------------------------------------------------------------------
(* The operator's commands and the overdraft extension *)

CommandKinds == {"topup", "refund", "adjust"}

\* Each command's own validation, then the ledger's constraint.
CommandAccepted(kind, amount) ==
  /\ kind = "topup" => amount >= MinTopup
  /\ kind = "refund" => amount > 0
  /\ LedgerAccepts(amount)

ExtensionAllowed(row) ==
  row.overdraft_until # None /\ row.extensions_used < MaxExtensions

ExtendedRow(row) ==
  [row EXCEPT !.overdraft_until = @ + ExtensionTime, !.extensions_used = @ + 1]

\* Mutant: saving the card starts the overdraft over.
EditedRow_forgets_overdraft(row, card) ==
  [row EXCEPT !.daily_limit = card.daily_limit, !.is_active = card.is_active,
              !.is_unlimited = card.is_unlimited, !.overdraft_until = None]

\* The fields of the account card an operator saves.
EditedRow(row, card) ==
  [row EXCEPT !.daily_limit = card.daily_limit, !.is_active = card.is_active,
              !.is_unlimited = card.is_unlimited]
=============================================================================
