------------------------------ MODULE Billing ------------------------------
(***************************************************************************)
(* What lock_account promises: the money operations of one account happen  *)
(* one after another, each on the row its predecessor left.  One action is *)
(* one committed transaction.  InvoiceFlow splits the same operations into *)
(* the steps of concurrent sessions.                                       *)
(*                                                                         *)
(* The journal ledger_entries is kept by its sum, by the sum of its CHARGE *)
(* entries dated today, and by its length.                                 *)
(***************************************************************************)
EXTENDS BillingRules

CONSTANTS
  Amounts,     \* the amounts an operator may type
  Cards,       \* the account cards an operator may save
  MaxTime,     \* bound: last tick of the clock
  MaxEntries,  \* bound: length of the journal
  Lag          \* longest time between the decision and the commit of a charge

ASSUME BillingAssumption ==
  /\ Amounts \subseteq Int
  /\ Cards \subseteq [daily_limit: Limit, is_active: BOOLEAN, is_unlimited: BOOLEAN]
  /\ MaxTime \in Nat
  /\ MaxEntries \in Nat
  /\ Lag \in Nat

VARIABLES
  account,       \* the row of accounts
  ledgerTotal,   \* calculate_balance_from_ledger
  chargedToday,  \* the sum _ensure_daily_limit asks the database for
  entries,       \* number of ledger entries
  now

ledger == <<ledgerTotal, chargedToday, entries>>
vars == <<account, ledger, now>>

TypeOK ==
  /\ account \in AccountRow
  /\ ledgerTotal \in Int
  /\ chargedToday \in Nat
  /\ entries \in 0..MaxEntries
  /\ now \in 0..MaxTime

Init ==
  /\ \E card \in Cards : account = NewAccount(card.daily_limit, card.is_unlimited)
  /\ ledgerTotal = 0
  /\ chargedToday = 0
  /\ entries = 0
  /\ now = 0

\* Mutant: the sum of the day keeps the sign of the entries.
Journal_signed(amount, charge) ==
  /\ ledgerTotal' = ledgerTotal + amount
  /\ chargedToday' = IF charge THEN chargedToday + amount ELSE chargedToday
  /\ entries' = IF amount = 0 THEN entries ELSE entries + 1

\* One entry of the given amount is added to the journal.
Journal(amount, charge) ==
  /\ ledgerTotal' = ledgerTotal + amount
  /\ chargedToday' = IF charge THEN chargedToday - amount ELSE chargedToday
  /\ entries' = IF amount = 0 THEN entries ELSE entries + 1

\* A paid invoice: decided at t, committed now.
Charge(t) ==
  /\ entries < MaxEntries
  /\ ChargeAccepted(account, chargedToday, t)
  /\ account' = ChargedRow(account, t)
  /\ Journal(ChargeAmount(account), TRUE)
  /\ UNCHANGED now

\* topup, refund and adjust from the panel or the command line.
Command(kind, amount) ==
  /\ entries < MaxEntries
  /\ CommandAccepted(kind, amount)
  /\ account' = AppendEntry(account, amount)
  /\ Journal(amount, FALSE)
  /\ UNCHANGED now

ExtendOverdraft ==
  /\ ExtensionAllowed(account)
  /\ account' = ExtendedRow(account)
  /\ UNCHANGED <<ledger, now>>

EditAccount(card) ==
  /\ account' = EditedRow(account, card)
  /\ UNCHANGED <<ledger, now>>

\* Time passes; at local midnight day_start moves past every old entry.
Tick ==
  /\ now < MaxTime
  /\ now' = now + 1
  /\ chargedToday' = IF StartsNewDay(now) THEN 0 ELSE chargedToday
  /\ UNCHANGED <<account, ledgerTotal, entries>>

DecisionTimes == {t \in 0..now : now - t <= Lag}

Next ==
  \/ \E t \in DecisionTimes : Charge(t)
  \/ \E kind \in CommandKinds, amount \in Amounts : Command(kind, amount)
  \/ ExtendOverdraft
  \/ \E card \in Cards : EditAccount(card)
  \/ Tick

Spec == Init /\ [][Next]_vars

---------------------------------------------------------------------------
(* Properties *)

\* The cached balance is the sum of the journal (models/accounts.py, the
\* comment of balance_kopecks), whatever mix of charges, topups, refunds,
\* corrections and edits came before.
BalanceMatchesLedger == account.balance = ledgerTotal

\* A deadline, and a used extension, belong to an episode of debt: neither
\* survives the return to a non-negative balance, so the next episode starts
\* with its full grace period.
OverdraftOnlyInDebt ==
  /\ account.overdraft_until # None => account.balance < 0
  /\ account.extensions_used > 0 => account.overdraft_until # None
=============================================================================
