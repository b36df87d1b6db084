---------------------------- MODULE InvoiceFlow ----------------------------
(***************************************************************************)
(* Concurrent database sessions over one account: QR requests              *)
(* (authenticate, InvoiceService.resolve, commit), the operator's balance  *)
(* commands and the operator's edits of the account card.                  *)
(*                                                                         *)
(* PostgreSQL runs at READ COMMITTED: a statement sees the rows committed  *)
(* before it.  A session keeps every row it loaded (expire_on_commit is    *)
(* off, lock_account does not repopulate), so it works on the copy of the  *)
(* account it read first, and its flush writes the columns whose value     *)
(* differs from that copy.  The row lock of FOR UPDATE lasts to the end of *)
(* the transaction.                                                        *)
(*                                                                         *)
(* An invoice row that does not exist is the row with expires = 0 and no   *)
(* charges: no clock value is below 0, so it is never active.              *)
(*                                                                         *)
(* A request's session is over for the database with its commit.  What     *)
(* follows (a 304, or the logo, the drawing and the sending, each of which *)
(* may fail) changes none of this state and is no action here.             *)
(***************************************************************************)
EXTENDS BillingRules, FiniteSets

CONSTANTS
  Sessions,    \* concurrent database sessions
  Keys,        \* idempotency keys of the account's invoices
  FreeTime,    \* invoice_free_period_days
  Amounts,     \* the amounts an operator may type
  Cards,       \* the account cards the account may start with or be given
  MaxTime,     \* bound: last tick of the clock
  MaxRuns,     \* bound: number of sessions ever opened
  Lag          \* bound: ticks a request may spend between decision and commit

ASSUME FlowAssumption ==
  /\ FreeTime \in Nat \ {0}
  /\ Amounts \subseteq Int
  /\ Cards \subseteq [daily_limit: Limit, is_active: BOOLEAN, is_unlimited: BOOLEAN]
  /\ MaxTime \in Nat
  /\ MaxRuns \in Nat
  /\ Lag \in Nat
  /\ None \notin Sessions
  /\ None \notin Keys

VARIABLES
  account,      \* the committed row of accounts
  ledgerTotal,  \* calculate_balance_from_ledger
  chargedToday, \* the sum _ensure_daily_limit asks the database for
  entries,      \* number of ledger entries
  invoices,     \* the committed rows of invoices, by key
  now,
  lock,         \* session holding the account row lock, or None
  ses,          \* the sessions
  runs          \* sessions opened so far

VARIABLES       \* history, read by no action
  bought,       \* per key, the start times of the free periods it was given
  paid,         \* per key, the ledger entries that name its invoice
  admitted,     \* per key, the requests committed as a hit or as a charge
  overtaken,    \* per key, a hit was committed while a lock holder had read its row
  staleWrite    \* some money operation was written from an outdated balance

ledger == <<ledgerTotal, chargedToday, entries>>
history == <<bought, paid, admitted, overtaken, staleWrite>>
vars == <<account, ledger, invoices, now, lock, ses, runs, history>>

InvoiceRow == [expires: Nat, charges: Nat, hits: Nat]
NoInvoice == [expires |-> 0, charges |-> 0, hits |-> 0]

\* What a session holds: where it is, the invoice a request asks for, the
\* account row as it first read it, resolve's now, the invoice row it read
\* under the lock, and charge_for_invoice's now.
Places ==
  {"idle", "resolve", "touch", "wait", "free", "charge", "commit", "command", "edit"}
Session ==
  [at: Places, key: Keys \cup {None}, loaded: AccountRow, started: 0..MaxTime,
   seen: InvoiceRow, decided: 0..MaxTime]
Closed ==
  [at |-> "idle", key |-> None, loaded |-> NewAccount(None, FALSE), started |-> 0,
   seen |-> NoInvoice, decided |-> 0]

\* The places of a session whose transaction holds the account row.
Holding == {"free", "charge", "commit"}

TypeOK ==
  /\ account \in AccountRow
  /\ ledgerTotal \in Int
  /\ chargedToday \in Nat
  /\ entries \in Nat
  /\ invoices \in [Keys -> InvoiceRow]
  /\ now \in 0..MaxTime
  /\ lock \in Sessions \cup {None}
  /\ ses \in [Sessions -> Session]
  /\ runs \in 0..MaxRuns
  /\ bought \in [Keys -> SUBSET (0..MaxTime)]
  /\ paid \in [Keys -> Nat]
  /\ admitted \in [Keys -> Nat]
  /\ overtaken \in [Keys -> BOOLEAN]
  /\ staleWrite \in BOOLEAN

Init ==
  /\ \E card \in Cards : account = NewAccount(card.daily_limit, card.is_unlimited)
  /\ ledgerTotal = 0
  /\ chargedToday = 0
  /\ entries = 0
  /\ invoices = [k \in Keys |-> NoInvoice]
  /\ now = 0
  /\ lock = None
  /\ ses = [s \in Sessions |-> Closed]
  /\ runs = 0
  /\ bought = [k \in Keys |-> {}]
  /\ paid = [k \in Keys |-> 0]
  /\ admitted = [k \in Keys |-> 0]
  /\ overtaken = [k \in Keys |-> FALSE]
  /\ staleWrite = FALSE

---------------------------------------------------------------------------
(* Sessions and transactions *)

\* Mutant: a session that ends keeps the row locked (no rollback).
Close_keeps_lock(s) ==
  /\ ses' = [ses EXCEPT ![s] = Closed]
  /\ lock' = lock

\* The session ends: its row locks are released, its copies are dropped.
Close(s) ==
  /\ ses' = [ses EXCEPT ![s] = Closed]
  /\ lock' = IF lock = s THEN None ELSE lock

\* A session starts by reading the account row into its identity map.
Open(s, place, k) ==
  /\ ses[s].at = "idle"
  /\ runs < MaxRuns
  /\ runs' = runs + 1
  /\ ses' = [ses EXCEPT ![s] = [Closed EXCEPT !.at = place, !.key = k, !.loaded = account]]
  /\ UNCHANGED <<account, ledger, invoices, now, lock, history>>

\* A column is part of the UPDATE only when it differs from the loaded value.
Flushed(current, before, after) == IF after # before THEN after ELSE current

\* The account row after the flush of a copy loaded as before and now after.
WriteBack(before, after) ==
  [balance |-> Flushed(account.balance, before.balance, after.balance),
   overdraft_until |->
     Flushed(account.overdraft_until, before.overdraft_until, after.overdraft_until),
   extensions_used |->
     Flushed(account.extensions_used, before.extensions_used, after.extensions_used),
   daily_limit |-> Flushed(account.daily_limit, before.daily_limit, after.daily_limit),
   is_active |-> Flushed(account.is_active, before.is_active, after.is_active),
   is_unlimited |-> Flushed(account.is_unlimited, before.is_unlimited, after.is_unlimited)]

\* Mutant: the sum of the day is not restricted to charges.
Journal_every_type(amount, charge) ==
  /\ ledgerTotal' = ledgerTotal + amount
  /\ chargedToday' = chargedToday - amount
  /\ entries' = IF amount = 0 THEN entries ELSE entries + 1

\* Mutant: only charges are written down, a balance command leaves no entry.
Journal_only_charges(amount, charge) ==
  /\ ledgerTotal' = IF charge THEN ledgerTotal + amount ELSE ledgerTotal
  /\ chargedToday' = IF charge THEN chargedToday - amount ELSE chargedToday
  /\ entries' = IF amount = 0 \/ ~charge THEN entries ELSE entries + 1

\* One entry of the given amount is added to the journal.
Journal(amount, charge) ==
  /\ ledgerTotal' = ledgerTotal + amount
  /\ chargedToday' = IF charge THEN chargedToday - amount ELSE chargedToday
  /\ entries' = IF amount = 0 THEN entries ELSE entries + 1

\* The commit of a request that resolve let through; its answer is still to
\* be drawn.
Admit(s) == admitted' = [admitted EXCEPT ![ses[s].key] = @ + 1]

\* A session holds the account row, and a copy of k's invoice read under it.
ReadUnderLock(k) == \E s \in Sessions : ses[s].at \in Holding /\ ses[s].key = k

---------------------------------------------------------------------------
(* A QR request *)

\* authenticate: the account is active in the row just read.
Authenticate(s, k) == account.is_active /\ Open(s, "resolve", k)

\* resolve captures the time of the request before it waits for anything.
Resolve(s) ==
  /\ ses[s].at = "resolve"
  /\ ses' = [ses EXCEPT ![s].at = "touch", ![s].started = now]
  /\ UNCHANGED <<account, ledger, invoices, now, lock, runs, history>>

\* _touch_active_invoice finds a live invoice: one atomic UPDATE, which waits
\* for no account lock, and the commit.
TouchActive(s) ==
  LET k == ses[s].key IN
  /\ ses[s].at = "touch"
  /\ invoices[k].expires > ses[s].started
  /\ invoices' = [invoices EXCEPT ![k].hits = @ + 1]
  /\ overtaken' = [overtaken EXCEPT ![k] = @ \/ ReadUnderLock(k)]
  /\ Admit(s)
  /\ Close(s)
  /\ UNCHANGED <<account, ledger, now, runs, bought, paid, staleWrite>>

\* ... or it finds none, and the request goes on to lock the account.
TouchMiss(s) ==
  /\ ses[s].at = "touch"
  /\ ~(invoices[ses[s].key].expires > ses[s].started)
  /\ ses' = [ses EXCEPT ![s].at = "wait"]
  /\ UNCHANGED <<account, ledger, invoices, now, lock, runs, history>>

\* Mutant: the invoice is not looked up again once the lock is granted.
LockAccount_without_recheck(s) ==
  LET invoice == invoices[ses[s].key] IN
  /\ ses[s].at = "wait"
  /\ lock = None
  /\ lock' = s
  /\ ses' = [ses EXCEPT ![s].seen = invoice, ![s].at = "charge"]
  /\ UNCHANGED <<account, ledger, invoices, now, runs, history>>

\* The row lock is granted, and the invoice is looked up again: another
\* request may have paid for it during the wait.  The copy of the account
\* stays the one authenticate loaded.
LockAccount(s) ==
  LET invoice == invoices[ses[s].key] IN
  /\ ses[s].at = "wait"
  /\ lock = None
  /\ lock' = s
  /\ ses' = [ses EXCEPT ![s].seen = invoice,
                        ![s].at = IF ses[s].started < invoice.expires
                                  THEN "free" ELSE "charge"]
  /\ UNCHANGED <<account, ledger, invoices, now, runs, history>>

\* Mutant: the hit of a request that waited for the lock is not counted.
CommitFree_without_hit(s) ==
  LET k == ses[s].key IN
  /\ ses[s].at = "free"
  /\ invoices' = [invoices EXCEPT ![k].hits = ses[s].seen.hits]
  /\ Admit(s)
  /\ Close(s)
  /\ UNCHANGED <<account, ledger, now, runs, bought, paid, overtaken, staleWrite>>

\* The invoice turned out to be live: the hit is counted on the row as it
\* was read, and the request is free.
CommitFree(s) ==
  LET k == ses[s].key IN
  /\ ses[s].at = "free"
  /\ invoices' = [invoices EXCEPT ![k].hits = ses[s].seen.hits + 1]
  /\ Admit(s)
  /\ Close(s)
  /\ UNCHANGED <<account, ledger, now, runs, bought, paid, overtaken, staleWrite>>

\* charge_for_invoice accepts: limits and flags are those of the loaded row,
\* the sum of the day is read afresh.
Decide(s) ==
  /\ ses[s].at = "charge"
  /\ ChargeAccepted(ses[s].loaded, chargedToday, now)
  /\ ses' = [ses EXCEPT ![s].at = "commit", ![s].decided = now]
  /\ UNCHANGED <<account, ledger, invoices, now, lock, runs, history>>

\* Mutant: a refusal leaves the invoice it had prepared committed.
Refuse_commits_invoice(s) ==
  /\ ses[s].at = "charge"
  /\ ~ChargeAccepted(ses[s].loaded, chargedToday, now)
  /\ invoices' = [invoices EXCEPT ![ses[s].key] =
       [expires |-> ses[s].started + FreeTime, charges |-> ses[s].seen.charges + 1,
        hits |-> ses[s].seen.hits + 1]]
  /\ Close(s)
  /\ UNCHANGED <<account, ledger, now, runs, history>>

\* charge_for_invoice raises: the placeholder is drawn and nothing of the
\* prepared invoice is committed.
Refuse(s) ==
  /\ ses[s].at = "charge"
  /\ ~ChargeAccepted(ses[s].loaded, chargedToday, now)
  /\ Close(s)
  /\ UNCHANGED <<account, ledger, invoices, now, runs, history>>

\* The invoice is created or renewed and paid for in one commit.  Without
\* the account row in the UPDATE (an unlimited account) nothing is charged,
\* but the invoice counts as a charged event.
CommitCharge(s) ==
  LET k == ses[s].key
      before == ses[s].loaded
      seen == ses[s].seen
  IN
  /\ ses[s].at = "commit"
  /\ account' = WriteBack(before, ChargedRow(before, ses[s].decided))
  /\ Journal(ChargeAmount(before), TRUE)
  /\ invoices' = [invoices EXCEPT ![k] =
       [expires |-> ses[s].started + FreeTime, charges |-> seen.charges + 1,
        hits |-> seen.hits + 1]]
  /\ bought' = [bought EXCEPT ![k] = @ \cup {ses[s].started}]
  /\ paid' = [paid EXCEPT ![k] = IF before.is_unlimited THEN @ ELSE @ + 1]
  /\ staleWrite' = (staleWrite \/ before.balance # account.balance)
  /\ Admit(s)
  /\ Close(s)
  /\ UNCHANGED <<now, runs, overtaken>>

---------------------------------------------------------------------------
(* The operator *)

\* topup, refund or adjust: the panel and the command line read the account,
\* lock its row, and work on what they read.
OpenCommand(s) == Open(s, "command", None)

Command(s, kind, amount) ==
  LET before == ses[s].loaded IN
  /\ ses[s].at = "command"
  /\ lock = None
  /\ CommandAccepted(kind, amount)
  /\ account' = WriteBack(before, AppendEntry(before, amount))
  /\ Journal(amount, FALSE)
  /\ staleWrite' = (staleWrite \/ before.balance # account.balance)
  /\ Close(s)
  /\ UNCHANGED <<invoices, now, runs, bought, paid, admitted, overtaken>>

\* The account card: no explicit lock, the UPDATE waits for the row's holder.
OpenEdit(s) == Open(s, "edit", None)

SaveCard(s, card) ==
  LET before == ses[s].loaded IN
  /\ ses[s].at = "edit"
  /\ lock = None
  /\ account' = WriteBack(before, EditedRow(before, card))
  /\ Close(s)
  /\ UNCHANGED <<ledger, invoices, now, runs, history>>

---------------------------------------------------------------------------
(* The environment *)

\* A session ends without a commit: an error, a lost connection, a restart,
\* a refused command.
Rollback(s) ==
  /\ ses[s].at # "idle"
  /\ Close(s)
  /\ UNCHANGED <<account, ledger, invoices, now, runs, history>>

\* Time passes; at local midnight day_start moves past every old entry.
Tick ==
  /\ now < MaxTime
  /\ \A s \in Sessions : ses[s].at = "commit" => now + 1 - ses[s].decided <= Lag
  /\ now' = now + 1
  /\ chargedToday' = IF StartsNewDay(now) THEN 0 ELSE chargedToday
  /\ UNCHANGED <<account, ledgerTotal, entries, invoices, lock, ses, runs, history>>

\* All bounds are used up and every session has ended.
Finished ==
  /\ \A s \in Sessions : ses[s].at = "idle"
  /\ runs = MaxRuns
  /\ now = MaxTime
  /\ UNCHANGED vars

\* The steps of a session that has started: the server takes them by itself.
Proceed(s) ==
  \/ Resolve(s) \/ TouchActive(s) \/ TouchMiss(s)
  \/ LockAccount(s) \/ CommitFree(s)
  \/ Decide(s) \/ Refuse(s) \/ CommitCharge(s)
  \/ \E kind \in CommandKinds, amount \in Amounts : Command(s, kind, amount)
  \/ \E card \in Cards : SaveCard(s, card)

Next ==
  \/ \E s \in Sessions, k \in Keys : Authenticate(s, k)
  \/ \E s \in Sessions : OpenCommand(s) \/ OpenEdit(s) \/ Proceed(s) \/ Rollback(s)
  \/ Tick
  \/ Finished

Spec == Init /\ [][Next]_vars

\* A waiting session gets the row lock: PostgreSQL queues the waiters, and
\* only MaxRuns sessions exist, so weak fairness says enough.
LiveSpec == Spec /\ \A s \in Sessions : WF_vars(Proceed(s))

---------------------------------------------------------------------------
(* Properties that hold whatever the interleaving *)

\* The row lock has one holder, and exactly the sessions between FOR UPDATE
\* and the end of their transaction hold it.
LockHolder == \A s \in Sessions : lock = s <=> ses[s].at \in Holding

\* Idempotency: the free periods bought for one invoice never overlap, so
\* nobody pays for the same parameters twice within a free period, however
\* requests wait for each other and whatever clock they captured.
PeriodsDisjoint ==
  \A k \in Keys : \A a, b \in bought[k] : a < b => b - a >= FreeTime

\* charge_count is the number of periods bought: two requests never share a
\* period and a refused request leaves no period behind.
OnePeriodPerCharge ==
  \A k \in Keys : Cardinality(bought[k]) = invoices[k].charges

\* Both sides of one promise: nobody pays twice within a free period, and
\* every period the customer got is counted once.
ChargedOnce == PeriodsDisjoint /\ OnePeriodPerCharge

AlwaysMetered == \A card \in Cards : ~card.is_unlimited

\* An invoice and its ledger entry are committed together or not at all: on
\* a metered account every period has its entry.
EveryPeriodPaid ==
  AlwaysMetered => \A k \in Keys : paid[k] = invoices[k].charges

FixedLimit == \A c, d \in Cards : c.daily_limit = d.daily_limit

\* The daily limit holds for concurrent requests: the sum is read under the
\* row lock, and an entry dated after midnight fits into the new day.
DailyLimitHolds ==
  FixedLimit /\ account.daily_limit # None => chargedToday <= account.daily_limit

\* hit_count never runs ahead of the requests let through and counts at least
\* the charged ones.  It loses a hit only when the atomic UPDATE of one request
\* overtook another that had read the row under the account lock; the lock
\* and its second look keep the requests that go through it from losing any.
HitsKept ==
  \A k \in Keys :
    /\ invoices[k].charges <= invoices[k].hits
    /\ invoices[k].hits <= admitted[k]
    /\ ~overtaken[k] => invoices[k].hits = admitted[k]

\* The cached balance leaves the sum of the journal only through a session
\* that wrote a balance computed from an outdated copy.
DriftNeedsStaleCopy == ~staleWrite => account.balance = ledgerTotal

\* An edit of the card never touches money: the balance moves only together
\* with the journal.
EditsKeepMoney ==
  [][account'.balance # account.balance \/ account'.overdraft_until # account.overdraft_until
     => entries' = entries + 1]_vars

\* Every session ends: nobody waits for the row lock for ever.
SessionsEnd == \A s \in Sessions : ses[s].at # "idle" ~> ses[s].at = "idle"

---------------------------------------------------------------------------
(* What the code's comments promise and concurrency takes away *)

\* lock_account: two requests cannot both read the same balance and charge
\* it, leaving the total wrong; the cached balance is the sum of the journal.
BalanceMatchesLedger == account.balance = ledgerTotal

\* hit_count is the number of all requests for the invoice, free ones included.
HitCountExact == \A k \in Keys : invoices[k].hits = admitted[k]

\* The cached balance and the hit counter are exact.
SerialExact == BalanceMatchesLedger /\ HitCountExact

---------------------------------------------------------------------------
(* One session at a time implements the serial account. *)

Serial == INSTANCE Billing WITH MaxEntries <- MaxRuns

SerialSpec == Serial!Spec
=============================================================================
