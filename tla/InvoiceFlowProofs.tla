------------------------- MODULE InvoiceFlowProofs -------------------------
(***************************************************************************)
(* What survives every interleaving of the sessions of InvoiceFlow, for    *)
(* any number of sessions and invoices and for every price and period.     *)
(***************************************************************************)
EXTENDS InvoiceFlow, BillingRulesProofs, FiniteSetTheorems

---------------------------------------------------------------------------
(* The inductive invariant *)

\* The places of a session that serves a request.
Asking == {"resolve", "touch", "wait"} \cup Holding

\* A daily limit in force is the one of some card, and an account whose cards
\* are all metered is metered.
OfCards(row) ==
  /\ \E card \in Cards : row.daily_limit = card.daily_limit
  /\ AlwaysMetered => ~row.is_unlimited

KeyKnown(s) == ses[s].at \in Asking => ses[s].key \in Keys

LoadedOfCards(s) == ses[s].at # "idle" => OfCards(ses[s].loaded)

\* What the holder of the row lock read of the invoice stays true: nobody
\* else buys a period, and hits are only ever added.
SeenHolds(s) ==
  ses[s].at \in Holding =>
    /\ ses[s].seen.charges = invoices[ses[s].key].charges
    /\ ses[s].seen.charges <= ses[s].seen.hits
    /\ ses[s].seen.hits <= admitted[ses[s].key]

\* A session about to charge found no live period.
PeriodOver(s) ==
  ses[s].at \in {"charge", "commit"} => invoices[ses[s].key].expires <= ses[s].started

\* The limit a charge was decided under still has room for it.
RoomLeft(s) ==
  ses[s].at = "commit" /\ ~ses[s].loaded.is_unlimited =>
    Price # 0 /\ WithinDailyLimit(ses[s].loaded, chargedToday)

SessionInv(s) ==
  KeyKnown(s) /\ LoadedOfCards(s) /\ SeenHolds(s) /\ PeriodOver(s) /\ RoomLeft(s)

\* The periods of an invoice end no later than the row says.
PeriodsEnd == \A k \in Keys : \A a \in bought[k] : a + FreeTime <= invoices[k].expires

\* The hits lie between the charged requests and all that were let through.
HitsWithinAdmitted ==
  \A k \in Keys : invoices[k].charges <= invoices[k].hits /\ invoices[k].hits <= admitted[k]

InvoiceInv ==
  /\ PeriodsEnd
  /\ PeriodsDisjoint
  /\ OnePeriodPerCharge
  /\ EveryPeriodPaid
  /\ HitsWithinAdmitted

AccountInv ==
  /\ OfCards(account)
  /\ DailyLimitHolds
  /\ DriftNeedsStaleCopy

FlowInv ==
  /\ TypeOK
  /\ LockHolder
  /\ \A s \in Sessions : SessionInv(s)
  /\ InvoiceInv
  /\ AccountInv

---------------------------------------------------------------------------
(* The pieces of a step *)

LEMMA SessionTypes ==
  ASSUME TypeOK, NEW s \in Sessions
  PROVE  /\ ses[s] \in Session
         /\ ses[s].at \in Places /\ ses[s].key \in Keys \cup {None}
         /\ ses[s].loaded \in AccountRow
         /\ ses[s].started \in 0..MaxTime /\ ses[s].started \in Nat
         /\ ses[s].seen \in InvoiceRow
         /\ ses[s].decided \in 0..MaxTime /\ ses[s].decided \in Nat
<1>1. ses[s] \in Session
  BY DEF TypeOK
<1> QED
  BY <1>1, FlowAssumption DEF Session

LEMMA InvoiceTypes ==
  ASSUME TypeOK, NEW k \in Keys
  PROVE  /\ invoices[k] \in InvoiceRow
         /\ invoices[k].expires \in Nat /\ invoices[k].charges \in Nat /\ invoices[k].hits \in Nat
         /\ bought[k] \subseteq 0..MaxTime
         /\ paid[k] \in Nat /\ admitted[k] \in Nat /\ overtaken[k] \in BOOLEAN
  BY DEF TypeOK, InvoiceRow

LEMMA ClosedType == Closed \in Session /\ Closed.at = "idle"
<1>1. NewAccount(None, FALSE) \in AccountRow
  BY DEF NewAccount, AccountRow, Limit
<1>2. NoInvoice \in InvoiceRow
  BY DEF NoInvoice, InvoiceRow
<1>3. 0 \in 0..MaxTime
  BY FlowAssumption
<1> QED
  BY <1>1, <1>2, <1>3 DEF Closed, Session, Places

\* One session moves, the others stay.
LEMMA OneSessionMoves ==
  ASSUME TypeOK, NEW s \in Sessions, NEW rec \in Session, ses' = [ses EXCEPT ![s] = rec]
  PROVE  /\ ses' \in [Sessions -> Session]
         /\ ses'[s] = rec
         /\ \A r \in Sessions : r # s => ses'[r] = ses[r]
  BY DEF TypeOK

\* The row lock follows its holder through every kind of step.
LEMMA LockFollows ==
  ASSUME TypeOK, LockHolder, NEW s \in Sessions,
         \A r \in Sessions : r # s => ses'[r] = ses[r],
         \/ lock' = lock /\ (ses'[s].at \in Holding <=> ses[s].at \in Holding)
         \/ lock' = (IF lock = s THEN None ELSE lock) /\ ses'[s].at \notin Holding
         \/ lock = None /\ lock' = s /\ ses'[s].at \in Holding
  PROVE  LockHolder' /\ lock' \in Sessions \cup {None}
<1>1. lock \in Sessions \cup {None} /\ None \notin Sessions
  BY FlowAssumption DEF TypeOK
<1> QED
  BY <1>1 DEF LockHolder

\* A session that did not move keeps its invariant when the invoice it may
\* have locked keeps its period and the sum of the day did not grow.
LEMMA OtherSession ==
  ASSUME TypeOK, TypeOK', NEW r \in Sessions, SessionInv(r), ses'[r] = ses[r],
         ses[r].at \in Holding =>
           /\ invoices'[ses[r].key].charges = invoices[ses[r].key].charges
           /\ invoices'[ses[r].key].expires = invoices[ses[r].key].expires,
         \A k \in Keys : admitted[k] <= admitted'[k],
         ses[r].at = "commit" => chargedToday' <= chargedToday
  PROVE  SessionInv(r)'
<1>1. KeyKnown(r)' /\ LoadedOfCards(r)'
  BY DEF SessionInv, KeyKnown, LoadedOfCards, OfCards, AlwaysMetered
<1>2. ses[r].at \in Holding => ses[r].key \in Keys
  BY DEF SessionInv, KeyKnown, Asking
<1>3. /\ ses[r].seen \in InvoiceRow /\ ses[r].loaded \in AccountRow
  BY SessionTypes
<1>4. SeenHolds(r)'
  <2> SUFFICES ASSUME ses[r].at \in Holding
               PROVE  /\ ses[r].seen.charges = invoices'[ses[r].key].charges
                      /\ ses[r].seen.charges <= ses[r].seen.hits
                      /\ ses[r].seen.hits <= admitted'[ses[r].key]
    BY DEF SeenHolds
  <2>1. ses[r].key \in Keys
    BY <1>2
  <2>2. admitted[ses[r].key] \in Nat /\ admitted'[ses[r].key] \in Nat /\ ses[r].seen.hits \in Nat
    BY <1>3, <2>1 DEF TypeOK, InvoiceRow
  <2>3. /\ ses[r].seen.charges = invoices[ses[r].key].charges
        /\ ses[r].seen.charges <= ses[r].seen.hits
        /\ ses[r].seen.hits <= admitted[ses[r].key]
    BY DEF SessionInv, SeenHolds
  <2>4. admitted[ses[r].key] <= admitted'[ses[r].key]
    BY <2>1
  <2> QED
    BY <2>2, <2>3, <2>4
<1>5. PeriodOver(r)'
  BY <1>2 DEF SessionInv, PeriodOver, Holding
<1>6. RoomLeft(r)'
  <2> SUFFICES ASSUME ses[r].at = "commit", ~ses[r].loaded.is_unlimited
               PROVE  Price # 0 /\ WithinDailyLimit(ses[r].loaded, chargedToday')
    BY DEF RoomLeft, WithinDailyLimit
  <2>1. Price # 0 /\ WithinDailyLimit(ses[r].loaded, chargedToday)
    BY DEF SessionInv, RoomLeft
  <2>2. /\ chargedToday' <= chargedToday /\ chargedToday \in Nat /\ chargedToday' \in Nat
        /\ Price \in Nat
    BY RulesAssumption DEF TypeOK
  <2>3. ses[r].loaded.daily_limit # None => ses[r].loaded.daily_limit \in Nat
    BY <1>3 DEF AccountRow, Limit
  <2> QED
    BY <2>1, <2>2, <2>3 DEF WithinDailyLimit
<1> QED
  BY <1>1, <1>4, <1>5, <1>6 DEF SessionInv

\* A step that moves one session and leaves the data alone.
LEMMA QuietStep ==
  ASSUME FlowInv, NEW s \in Sessions, NEW rec \in Session, ses' = [ses EXCEPT ![s] = rec],
         UNCHANGED <<account, ledger, invoices, now, history>>, runs' \in 0..MaxRuns,
         SessionInv(s)',
         \/ lock' = lock /\ (rec.at \in Holding <=> ses[s].at \in Holding)
         \/ lock' = (IF lock = s THEN None ELSE lock) /\ rec.at \notin Holding
         \/ lock = None /\ lock' = s /\ rec.at \in Holding
  PROVE  FlowInv'
<1>1. TypeOK /\ LockHolder
  BY DEF FlowInv
<1>2. /\ ses' \in [Sessions -> Session] /\ ses'[s] = rec
      /\ \A r \in Sessions : r # s => ses'[r] = ses[r]
  BY <1>1, OneSessionMoves
<1>3. LockHolder' /\ lock' \in Sessions \cup {None}
  BY <1>1, <1>2, LockFollows
<1>4. TypeOK'
  BY <1>1, <1>2, <1>3 DEF TypeOK, ledger, history
<1>5. ASSUME NEW r \in Sessions PROVE SessionInv(r)'
  <2>1. CASE r = s
    BY <2>1
  <2>2. CASE r # s
    <3>1. \A k \in Keys : admitted[k] <= admitted'[k]
      BY <1>1 DEF history, TypeOK
    <3>2. chargedToday' <= chargedToday
      BY <1>1 DEF ledger, TypeOK
    <3>3. SessionInv(r) /\ ses'[r] = ses[r]
      BY <1>2, <2>2 DEF FlowInv
    <3> QED
      BY <1>1, <1>4, <3>1, <3>2, <3>3, OtherSession
  <2> QED
    BY <2>1, <2>2
<1>6. InvoiceInv'
  BY DEF FlowInv, InvoiceInv, PeriodsEnd, PeriodsDisjoint, OnePeriodPerCharge, EveryPeriodPaid,
         HitsWithinAdmitted, AlwaysMetered, history
<1>7. AccountInv'
  BY DEF FlowInv, AccountInv, OfCards, DailyLimitHolds, FixedLimit, DriftNeedsStaleCopy,
         AlwaysMetered, history, ledger
<1> QED
  BY <1>3, <1>4, <1>5, <1>6, <1>7 DEF FlowInv

---------------------------------------------------------------------------
(* The steps that write nothing *)

LEMMA OpenStep ==
  ASSUME FlowInv, NEW s \in Sessions, NEW place \in {"resolve", "command", "edit"},
         NEW k \in Keys \cup {None}, place = "resolve" => k \in Keys, Open(s, place, k)
  PROVE  FlowInv'
<1> DEFINE rec == [Closed EXCEPT !.at = place, !.key = k, !.loaded = account]
<1>1. TypeOK /\ OfCards(account)
  BY DEF FlowInv, AccountInv
<1>2. account \in AccountRow
  BY <1>1 DEF TypeOK
<1>3. /\ rec \in Session /\ rec.at = place /\ rec.key = k /\ rec.loaded = account
  BY <1>2, ClosedType DEF Session, Places
<1> HIDE DEF rec
<1>4. /\ ses' = [ses EXCEPT ![s] = rec]
      /\ UNCHANGED <<account, ledger, invoices, now, lock, history>>
      /\ runs' \in 0..MaxRuns /\ ses[s].at = "idle"
  BY <1>1, FlowAssumption DEF Open, TypeOK, rec
<1>5. ses'[s] = rec
  BY <1>1, <1>3, <1>4, OneSessionMoves
<1>6. SessionInv(s)'
  BY <1>1, <1>3, <1>5
  DEF SessionInv, KeyKnown, LoadedOfCards, OfCards, AlwaysMetered, SeenHolds, PeriodOver,
      RoomLeft, Asking, Holding
<1>7. rec.at \notin Holding /\ ses[s].at \notin Holding
  BY <1>3, <1>4 DEF Holding
<1> QED
  BY <1>3, <1>4, <1>6, <1>7, QuietStep

LEMMA ResolveStep == ASSUME FlowInv, NEW s \in Sessions, Resolve(s) PROVE FlowInv'
<1> DEFINE rec == [ses[s] EXCEPT !.at = "touch", !.started = now]
<1>1. TypeOK /\ SessionInv(s) /\ ses[s] \in Session /\ ses[s].at = "resolve"
  BY SessionTypes DEF FlowInv, Resolve
<1>2. now \in 0..MaxTime
  BY <1>1 DEF TypeOK
<1>3. /\ rec \in Session /\ rec.at = "touch" /\ rec.key = ses[s].key
      /\ rec.loaded = ses[s].loaded
  BY <1>1, <1>2 DEF Session, Places
<1>4. /\ ses' = [ses EXCEPT ![s] = rec]
      /\ UNCHANGED <<account, ledger, invoices, now, lock, runs, history>>
  BY DEF Resolve
<1> HIDE DEF rec
<1>5. ses'[s] = rec
  BY <1>1, <1>3, <1>4, OneSessionMoves
<1>6. SessionInv(s)'
  BY <1>1, <1>3, <1>5
  DEF SessionInv, KeyKnown, LoadedOfCards, OfCards, AlwaysMetered, SeenHolds, PeriodOver,
      RoomLeft, Asking, Holding
<1>7. rec.at \notin Holding /\ ses[s].at \notin Holding /\ runs' \in 0..MaxRuns
  BY <1>1, <1>3, <1>4 DEF Holding, TypeOK
<1> QED
  BY <1>3, <1>4, <1>6, <1>7, QuietStep

LEMMA TouchMissStep == ASSUME FlowInv, NEW s \in Sessions, TouchMiss(s) PROVE FlowInv'
<1> DEFINE rec == [ses[s] EXCEPT !.at = "wait"]
<1>1. TypeOK /\ SessionInv(s) /\ ses[s] \in Session /\ ses[s].at = "touch"
  BY SessionTypes DEF FlowInv, TouchMiss
<1>2. /\ rec \in Session /\ rec.at = "wait" /\ rec.key = ses[s].key
      /\ rec.loaded = ses[s].loaded
  BY <1>1 DEF Session, Places
<1>3. /\ ses' = [ses EXCEPT ![s] = rec]
      /\ UNCHANGED <<account, ledger, invoices, now, lock, runs, history>>
  BY DEF TouchMiss
<1> HIDE DEF rec
<1>4. ses'[s] = rec
  BY <1>1, <1>2, <1>3, OneSessionMoves
<1>5. SessionInv(s)'
  BY <1>1, <1>2, <1>4
  DEF SessionInv, KeyKnown, LoadedOfCards, OfCards, AlwaysMetered, SeenHolds, PeriodOver,
      RoomLeft, Asking, Holding
<1>6. rec.at \notin Holding /\ ses[s].at \notin Holding /\ runs' \in 0..MaxRuns
  BY <1>1, <1>2, <1>3 DEF Holding, TypeOK
<1> QED
  BY <1>2, <1>3, <1>5, <1>6, QuietStep

\* The holder of the lock reads the invoice as it is: a session goes on to
\* charge only when the period is over for the time it captured.
LEMMA LockAccountStep == ASSUME FlowInv, NEW s \in Sessions, LockAccount(s) PROVE FlowInv'
<1> DEFINE k == ses[s].key
           place == IF ses[s].started < invoices[k].expires THEN "free" ELSE "charge"
           rec == [ses[s] EXCEPT !.seen = invoices[k], !.at = place]
<1>1. TypeOK /\ SessionInv(s) /\ ses[s] \in Session /\ ses[s].at = "wait"
  BY SessionTypes DEF FlowInv, LockAccount
<1>2. k \in Keys
  BY <1>1 DEF SessionInv, KeyKnown, Asking
<1>3. /\ invoices[k] \in InvoiceRow /\ invoices[k].expires \in Nat
      /\ ses[s].started \in Nat
  BY <1>1, <1>2, InvoiceTypes, SessionTypes
<1>4. place \in {"free", "charge"}
  OBVIOUS
<1>5. place = "charge" => invoices[k].expires <= ses[s].started
  BY <1>3
<1>6. invoices[k].charges <= invoices[k].hits /\ invoices[k].hits <= admitted[k]
  BY <1>2 DEF FlowInv, InvoiceInv, HitsWithinAdmitted
<1> HIDE DEF place, k
<1>7. /\ rec \in Session /\ rec.at = place /\ rec.key = ses[s].key
      /\ rec.loaded = ses[s].loaded /\ rec.started = ses[s].started
      /\ rec.seen = invoices[k]
  BY <1>1, <1>3, <1>4 DEF Session, Places
<1>8. /\ ses' = [ses EXCEPT ![s] = rec] /\ lock = None /\ lock' = s
      /\ UNCHANGED <<account, ledger, invoices, now, runs, history>>
  BY DEF LockAccount, k, place
<1> HIDE DEF rec
<1>9. ses'[s] = rec
  BY <1>1, <1>7, <1>8, OneSessionMoves
<1>10. UNCHANGED admitted
  BY <1>8 DEF history
<1>11. SessionInv(s)'
  BY <1>1, <1>2, <1>4, <1>5, <1>6, <1>7, <1>8, <1>9, <1>10
  DEF SessionInv, KeyKnown, LoadedOfCards, OfCards, AlwaysMetered, SeenHolds, PeriodOver,
      RoomLeft, Asking, k
<1>12. rec.at \in Holding /\ runs' \in 0..MaxRuns
  BY <1>1, <1>4, <1>7, <1>8 DEF Holding, TypeOK
<1> QED
  BY <1>7, <1>8, <1>11, <1>12, QuietStep

LEMMA DecideStep == ASSUME FlowInv, NEW s \in Sessions, Decide(s) PROVE FlowInv'
<1> DEFINE rec == [ses[s] EXCEPT !.at = "commit", !.decided = now]
<1>1. TypeOK /\ SessionInv(s) /\ ses[s] \in Session /\ ses[s].at = "charge"
  BY SessionTypes DEF FlowInv, Decide
<1>2. now \in 0..MaxTime
  BY <1>1 DEF TypeOK
<1>3. /\ rec \in Session /\ rec.at = "commit" /\ rec.key = ses[s].key
      /\ rec.loaded = ses[s].loaded /\ rec.started = ses[s].started
      /\ rec.seen = ses[s].seen
  BY <1>1, <1>2 DEF Session, Places
<1>4. /\ ses' = [ses EXCEPT ![s] = rec]
      /\ UNCHANGED <<account, ledger, invoices, now, lock, runs, history>>
      /\ ChargeAccepted(ses[s].loaded, chargedToday, now)
  BY DEF Decide
<1> HIDE DEF rec
<1>5. ses'[s] = rec
  BY <1>1, <1>3, <1>4, OneSessionMoves
<1>6. /\ KeyKnown(s)' /\ LoadedOfCards(s)' /\ SeenHolds(s)' /\ PeriodOver(s)'
  BY <1>1, <1>3, <1>4, <1>5
  DEF SessionInv, KeyKnown, LoadedOfCards, OfCards, AlwaysMetered, SeenHolds, PeriodOver,
      Asking, Holding, history
<1>7. RoomLeft(s)'
  <2>1. ~ses[s].loaded.is_unlimited =>
          LedgerAccepts(-Price) /\ WithinDailyLimit(ses[s].loaded, chargedToday)
    BY <1>4 DEF ChargeAccepted
  <2>2. LedgerAccepts(-Price) => Price # 0
    BY DEF LedgerAccepts
  <2> QED
    BY <1>3, <1>4, <1>5, <2>1, <2>2 DEF RoomLeft, WithinDailyLimit, ledger
<1>8. rec.at \in Holding /\ ses[s].at \in Holding /\ runs' \in 0..MaxRuns
  BY <1>1, <1>3, <1>4 DEF Holding, TypeOK
<1> QED
  BY <1>3, <1>4, <1>6, <1>7, <1>8, QuietStep DEF SessionInv

\* A session that is closed owes nothing.
LEMMA ClosedInv ==
  ASSUME NEW s \in Sessions, ses'[s] = Closed
  PROVE  SessionInv(s)'
  BY ClosedType
  DEF SessionInv, KeyKnown, LoadedOfCards, SeenHolds, PeriodOver, RoomLeft, Asking, Holding

\* A refused request, a refused command, a lost connection.
LEMMA EmptyCloseStep ==
  ASSUME FlowInv, NEW s \in Sessions, Close(s),
         UNCHANGED <<account, ledger, invoices, now, runs, history>>
  PROVE  FlowInv'
<1>1. TypeOK
  BY DEF FlowInv
<1>2. ses' = [ses EXCEPT ![s] = Closed] /\ lock' = (IF lock = s THEN None ELSE lock)
  BY DEF Close
<1>3. ses'[s] = Closed
  BY <1>1, <1>2, ClosedType, OneSessionMoves
<1>4. SessionInv(s)'
  BY <1>3, ClosedInv
<1>5. Closed.at \notin Holding /\ runs' \in 0..MaxRuns
  BY <1>1, ClosedType DEF Holding, TypeOK
<1> QED
  BY <1>2, <1>4, <1>5, ClosedType, QuietStep

---------------------------------------------------------------------------
(* The steps that write *)

\* A flush leaves each column as it is or as the session computed it; the
\* balance is the computed one when the copy was not outdated.
LEMMA WriteBackEffect ==
  ASSUME account \in AccountRow, NEW before \in AccountRow, NEW after \in AccountRow
  PROVE  LET new == WriteBack(before, after)
         IN  /\ new \in AccountRow
             /\ before.balance = account.balance => new.balance = after.balance
             /\ after.balance = before.balance => new.balance = account.balance
             /\ after.overdraft_until = before.overdraft_until =>
                  new.overdraft_until = account.overdraft_until
             /\ new.daily_limit \in {account.daily_limit, after.daily_limit}
             /\ after.daily_limit = before.daily_limit => new.daily_limit = account.daily_limit
             /\ ~account.is_unlimited /\ ~after.is_unlimited => ~new.is_unlimited
<1> DEFINE balance == Flushed(account.balance, before.balance, after.balance)
           until == Flushed(account.overdraft_until, before.overdraft_until,
                            after.overdraft_until)
           used == Flushed(account.extensions_used, before.extensions_used,
                           after.extensions_used)
           limit == Flushed(account.daily_limit, before.daily_limit, after.daily_limit)
           active == Flushed(account.is_active, before.is_active, after.is_active)
           unlimited == Flushed(account.is_unlimited, before.is_unlimited, after.is_unlimited)
           new == WriteBack(before, after)
<1>1. /\ balance \in Int /\ until \in Nat \cup {None} /\ used \in Nat
      /\ limit \in Limit /\ active \in BOOLEAN /\ unlimited \in BOOLEAN
  BY DEF Flushed, AccountRow
<1>2. /\ before.balance = account.balance => balance = after.balance
      /\ after.balance = before.balance => balance = account.balance
      /\ after.overdraft_until = before.overdraft_until => until = account.overdraft_until
      /\ limit \in {account.daily_limit, after.daily_limit}
      /\ after.daily_limit = before.daily_limit => limit = account.daily_limit
  BY DEF Flushed
<1>3. ~account.is_unlimited /\ ~after.is_unlimited => ~unlimited
  BY DEF Flushed
<1>4. new = [balance |-> balance, overdraft_until |-> until, extensions_used |-> used,
             daily_limit |-> limit, is_active |-> active, is_unlimited |-> unlimited]
  BY DEF WriteBack
<1> HIDE DEF balance, until, used, limit, active, unlimited, new
<1>5. new \in AccountRow
  BY <1>1, <1>4 DEF AccountRow
<1>6. /\ new.balance = balance /\ new.overdraft_until = until /\ new.daily_limit = limit
  BY <1>4
<1>7. new.is_unlimited = unlimited
  BY <1>4, Zenon
<1> QED
  BY <1>2, <1>3, <1>5, <1>6, <1>7 DEF new

\* Closing a session, with whatever else the step writes.
LEMMA CloseEffect ==
  ASSUME FlowInv, NEW s \in Sessions, Close(s)
  PROVE  /\ ses' \in [Sessions -> Session]
         /\ lock' \in Sessions \cup {None}
         /\ LockHolder'
         /\ SessionInv(s)'
         /\ \A r \in Sessions : r # s => ses'[r] = ses[r]
<1>1. TypeOK /\ LockHolder
  BY DEF FlowInv
<1>2. ses' = [ses EXCEPT ![s] = Closed] /\ lock' = (IF lock = s THEN None ELSE lock)
  BY DEF Close
<1>3. /\ ses' \in [Sessions -> Session] /\ ses'[s] = Closed
      /\ \A r \in Sessions : r # s => ses'[r] = ses[r]
  BY <1>1, <1>2, ClosedType, OneSessionMoves
<1>4. Closed.at \notin Holding
  BY ClosedType DEF Holding
<1>5. LockHolder' /\ lock' \in Sessions \cup {None}
  BY <1>1, <1>2, <1>3, <1>4, LockFollows
<1> QED
  BY <1>3, <1>5, ClosedInv

\* Two sessions never hold the lock.
LEMMA OneHolder ==
  ASSUME FlowInv, NEW s \in Sessions, NEW r \in Sessions, ses[s].at \in Holding,
         ses[r].at \in Holding
  PROVE  r = s
  BY DEF FlowInv, LockHolder

\* An admission counts one more request.
LEMMA AdmitEffect ==
  ASSUME TypeOK, NEW s \in Sessions, NEW k \in Keys, k = ses[s].key, Admit(s)
  PROVE  /\ admitted' \in [Keys -> Nat]
         /\ admitted'[k] = admitted[k] + 1
         /\ \A j \in Keys : j # k => admitted'[j] = admitted[j]
         /\ \A j \in Keys : admitted[j] <= admitted'[j]
  BY DEF Admit, TypeOK

\* The fast path: only a hit is added.
LEMMA TouchActiveStep == ASSUME FlowInv, NEW s \in Sessions, TouchActive(s) PROVE FlowInv'
<1> DEFINE k == ses[s].key
<1>1. TypeOK /\ SessionInv(s) /\ ses[s].at = "touch"
  BY DEF FlowInv, TouchActive
<1>2. k \in Keys
  BY <1>1 DEF SessionInv, KeyKnown, Asking
<1>3. /\ invoices' = [invoices EXCEPT ![k].hits = @ + 1]
      /\ Admit(s) /\ Close(s)
      /\ overtaken' = [overtaken EXCEPT ![k] = @ \/ ReadUnderLock(k)]
      /\ UNCHANGED <<account, ledger, now, runs, bought, paid, staleWrite>>
  BY DEF TouchActive
<1>4. /\ admitted' \in [Keys -> Nat]
      /\ admitted'[k] = admitted[k] + 1
      /\ \A j \in Keys : j # k => admitted'[j] = admitted[j]
      /\ \A j \in Keys : admitted[j] <= admitted'[j]
  BY <1>1, <1>2, <1>3, AdmitEffect
<1> HIDE DEF k
<1>5. /\ invoices' \in [Keys -> InvoiceRow]
      /\ invoices'[k].hits = invoices[k].hits + 1
      /\ \A j \in Keys : j # k => invoices'[j] = invoices[j]
      /\ \A j \in Keys : /\ invoices'[j].charges = invoices[j].charges
                         /\ invoices'[j].expires = invoices[j].expires
  BY <1>1, <1>2, <1>3 DEF TypeOK, InvoiceRow
<1>6. /\ ses' \in [Sessions -> Session] /\ lock' \in Sessions \cup {None} /\ LockHolder'
      /\ SessionInv(s)' /\ \A r \in Sessions : r # s => ses'[r] = ses[r]
  BY <1>3, CloseEffect
<1>7. TypeOK'
  <2>1. overtaken' \in [Keys -> BOOLEAN]
    BY <1>1, <1>3 DEF TypeOK, ReadUnderLock
  <2> QED
    BY <1>1, <1>3, <1>4, <1>5, <1>6, <2>1 DEF TypeOK, ledger
<1>8. ASSUME NEW r \in Sessions PROVE SessionInv(r)'
  <2>1. CASE r # s
    <3>1. SessionInv(r) /\ ses'[r] = ses[r]
      BY <1>6, <2>1 DEF FlowInv
    <3>2. ses[r].at \in Holding => ses[r].key \in Keys
      BY <3>1 DEF SessionInv, KeyKnown, Asking
    <3>3. chargedToday' <= chargedToday
      BY <1>1, <1>3 DEF ledger, TypeOK
    <3> QED
      BY <1>1, <1>4, <1>5, <1>7, <3>1, <3>2, <3>3, OtherSession
  <2> QED
    BY <1>6, <2>1
<1>9. InvoiceInv'
  <2>1. PeriodsEnd' /\ PeriodsDisjoint' /\ OnePeriodPerCharge' /\ EveryPeriodPaid'
    BY <1>3, <1>5 DEF FlowInv, InvoiceInv, PeriodsEnd, PeriodsDisjoint, OnePeriodPerCharge,
                      EveryPeriodPaid, AlwaysMetered
  <2>2. ASSUME NEW j \in Keys
        PROVE  invoices'[j].charges <= invoices'[j].hits /\ invoices'[j].hits <= admitted'[j]
    <3>1. invoices[j].charges <= invoices[j].hits /\ invoices[j].hits <= admitted[j]
      BY DEF FlowInv, InvoiceInv, HitsWithinAdmitted
    <3>2. /\ invoices[j].charges \in Nat /\ invoices[j].hits \in Nat /\ admitted[j] \in Nat
      BY <1>1, InvoiceTypes
    <3> QED
      BY <1>4, <1>5, <3>1, <3>2
  <2> QED
    BY <2>1, <2>2 DEF InvoiceInv, HitsWithinAdmitted
<1>10. AccountInv'
  BY <1>3 DEF FlowInv, AccountInv, OfCards, DailyLimitHolds, FixedLimit, DriftNeedsStaleCopy,
              AlwaysMetered, ledger
<1> QED
  BY <1>6, <1>7, <1>8, <1>9, <1>10 DEF FlowInv

\* The slow path finds a live period: the hit is added to the value read,
\* which is no more than the requests admitted.
LEMMA CommitFreeStep == ASSUME FlowInv, NEW s \in Sessions, CommitFree(s) PROVE FlowInv'
<1> DEFINE k == ses[s].key
           hits == ses[s].seen.hits + 1
<1>1. TypeOK /\ SessionInv(s) /\ ses[s].at = "free" /\ ses[s].at \in Holding
  BY DEF FlowInv, CommitFree, Holding
<1>2. k \in Keys
  BY <1>1 DEF SessionInv, KeyKnown, Asking
<1>3. /\ invoices' = [invoices EXCEPT ![k].hits = hits]
      /\ Admit(s) /\ Close(s)
      /\ UNCHANGED <<account, ledger, now, runs, bought, paid, overtaken, staleWrite>>
  BY DEF CommitFree
<1>4. /\ admitted' \in [Keys -> Nat]
      /\ admitted'[k] = admitted[k] + 1
      /\ \A j \in Keys : j # k => admitted'[j] = admitted[j]
      /\ \A j \in Keys : admitted[j] <= admitted'[j]
  BY <1>1, <1>2, <1>3, AdmitEffect
<1>5. ses[s].seen \in InvoiceRow
  BY <1>1, SessionTypes
<1>6. ses[s].seen.hits \in Nat /\ ses[s].seen.charges \in Nat /\ hits \in Nat
  BY <1>5 DEF InvoiceRow
<1>7. /\ ses[s].seen.charges = invoices[k].charges
      /\ ses[s].seen.charges <= ses[s].seen.hits
      /\ ses[s].seen.hits <= admitted[k]
  BY <1>1 DEF SessionInv, SeenHolds
<1>8. invoices[k].charges <= hits /\ hits <= admitted[k] + 1
  BY <1>1, <1>2, <1>6, <1>7, InvoiceTypes
<1> HIDE DEF k, hits
<1>9. /\ invoices' \in [Keys -> InvoiceRow]
      /\ invoices'[k].hits = hits
      /\ \A j \in Keys : j # k => invoices'[j] = invoices[j]
      /\ \A j \in Keys : /\ invoices'[j].charges = invoices[j].charges
                         /\ invoices'[j].expires = invoices[j].expires
  BY <1>1, <1>2, <1>3, <1>6 DEF TypeOK, InvoiceRow
<1>10. /\ ses' \in [Sessions -> Session] /\ lock' \in Sessions \cup {None} /\ LockHolder'
       /\ SessionInv(s)' /\ \A r \in Sessions : r # s => ses'[r] = ses[r]
  BY <1>3, CloseEffect
<1>11. TypeOK'
  BY <1>1, <1>3, <1>4, <1>9, <1>10 DEF TypeOK, ledger
<1>12. ASSUME NEW r \in Sessions PROVE SessionInv(r)'
  <2>1. CASE r # s
    <3>1. SessionInv(r) /\ ses'[r] = ses[r]
      BY <1>10, <2>1 DEF FlowInv
    <3>2. ses[r].at \notin Holding
      BY <1>1, <2>1, OneHolder
    <3>3. ses[r].at # "commit"
      BY <3>2 DEF Holding
    <3> QED
      BY <1>1, <1>4, <1>11, <3>1, <3>2, <3>3, OtherSession
  <2> QED
    BY <1>10, <2>1
<1>13. InvoiceInv'
  <2>1. PeriodsEnd' /\ PeriodsDisjoint' /\ OnePeriodPerCharge' /\ EveryPeriodPaid'
    BY <1>3, <1>9 DEF FlowInv, InvoiceInv, PeriodsEnd, PeriodsDisjoint, OnePeriodPerCharge,
                      EveryPeriodPaid, AlwaysMetered
  <2>2. ASSUME NEW j \in Keys
        PROVE  invoices'[j].charges <= invoices'[j].hits /\ invoices'[j].hits <= admitted'[j]
    <3>1. invoices[j].charges <= invoices[j].hits /\ invoices[j].hits <= admitted[j]
      BY DEF FlowInv, InvoiceInv, HitsWithinAdmitted
    <3> QED
      BY <1>4, <1>8, <1>9, <3>1
  <2> QED
    BY <2>1, <2>2 DEF InvoiceInv, HitsWithinAdmitted
<1>14. AccountInv'
  BY <1>3 DEF FlowInv, AccountInv, OfCards, DailyLimitHolds, FixedLimit, DriftNeedsStaleCopy,
              AlwaysMetered, ledger
<1> QED
  BY <1>10, <1>11, <1>12, <1>13, <1>14 DEF FlowInv

\* A write of the account from a copy: the balance and the journal move by
\* the same amount unless the copy was outdated.
LEMMA AccountWrite ==
  ASSUME FlowInv, NEW before \in AccountRow, NEW after \in AccountRow, NEW amount \in Int,
         account' = WriteBack(before, after), after.balance = before.balance + amount,
         ledgerTotal' = ledgerTotal + amount,
         staleWrite' = (staleWrite \/ before.balance # account.balance)
  PROVE  account' \in AccountRow /\ DriftNeedsStaleCopy' /\ staleWrite' \in BOOLEAN
<1>1. TypeOK /\ DriftNeedsStaleCopy
  BY DEF FlowInv, AccountInv
<1>2. account \in AccountRow /\ ledgerTotal \in Int /\ staleWrite \in BOOLEAN
  BY <1>1 DEF TypeOK
<1>3. /\ account' \in AccountRow
      /\ before.balance = account.balance => account'.balance = after.balance
  BY <1>2, WriteBackEffect
<1>4. account.balance \in Int
  BY <1>2 DEF AccountRow
<1>5. DriftNeedsStaleCopy'
  BY <1>1, <1>2, <1>3, <1>4 DEF DriftNeedsStaleCopy
<1> QED
  BY <1>2, <1>3, <1>5

\* A new period starts when every earlier one is over, so it is a new element
\* and a disjoint one.
LEMMA NewPeriod ==
  ASSUME TypeOK, InvoiceInv, NEW k \in Keys, NEW t \in 0..MaxTime,
         invoices[k].expires <= t
  PROVE  LET now_bought == bought[k] \cup {t}
         IN  /\ now_bought \in SUBSET (0..MaxTime)
             /\ Cardinality(now_bought) = invoices[k].charges + 1
             /\ \A a \in now_bought : a + FreeTime <= t + FreeTime
             /\ \A a, b \in now_bought : a < b => b - a >= FreeTime
<1>1. /\ bought[k] \subseteq 0..MaxTime /\ invoices[k].expires \in Nat
      /\ MaxTime \in Nat /\ FreeTime \in Nat /\ FreeTime > 0 /\ t \in Nat
  BY InvoiceTypes, FlowAssumption
<1>2. \A a \in bought[k] : a \in Nat /\ a + FreeTime <= invoices[k].expires
  BY <1>1 DEF InvoiceInv, PeriodsEnd
<1>3. \A a \in bought[k] : a + FreeTime <= t
  BY <1>1, <1>2
<1>4. t \notin bought[k]
  BY <1>1, <1>3
<1>5. IsFiniteSet(bought[k])
  <2>1. IsFiniteSet(0..MaxTime)
    BY <1>1, FS_Interval
  <2> QED
    BY <1>1, <2>1, FS_Subset
<1>6. Cardinality(bought[k] \cup {t}) = invoices[k].charges + 1
  BY <1>4, <1>5, FS_AddElement DEF InvoiceInv, OnePeriodPerCharge
<1>7. \A a, b \in bought[k] : a < b => b - a >= FreeTime
  BY DEF InvoiceInv, PeriodsDisjoint
<1>8. ASSUME NEW a \in bought[k] \cup {t}, NEW b \in bought[k] \cup {t}, a < b
      PROVE  b - a >= FreeTime
  <2>1. CASE a \in bought[k] /\ b \in bought[k]
    BY <1>7, <1>8, <2>1
  <2>2. CASE a \in bought[k] /\ b = t
    BY <1>1, <1>2, <1>3, <2>2
  <2>3. CASE a = t
    BY <1>1, <1>2, <1>3, <1>8, <2>3
  <2> QED
    BY <1>8, <2>1, <2>2, <2>3
<1>9. \A a \in bought[k] \cup {t} : a + FreeTime <= t + FreeTime
  BY <1>1, <1>2, <1>3
<1> QED
  BY <1>1, <1>6, <1>8, <1>9

LEMMA CommitChargeStep == ASSUME FlowInv, NEW s \in Sessions, CommitCharge(s) PROVE FlowInv'
<1> DEFINE k == ses[s].key
           before == ses[s].loaded
           after == ChargedRow(before, ses[s].decided)
           amount == ChargeAmount(before)
           start == ses[s].started
           row == [expires |-> start + FreeTime, charges |-> ses[s].seen.charges + 1,
                   hits |-> ses[s].seen.hits + 1]
           fee == IF before.is_unlimited THEN 0 ELSE 1
<1>1. TypeOK /\ SessionInv(s) /\ ses[s].at = "commit" /\ ses[s].at \in Holding
  BY DEF FlowInv, CommitCharge, Holding
<1>2. k \in Keys
  BY <1>1 DEF SessionInv, KeyKnown, Asking
<1>3. /\ account' = WriteBack(before, after)
      /\ ledgerTotal' = ledgerTotal + amount
      /\ chargedToday' = chargedToday - amount
      /\ entries' = IF amount = 0 THEN entries ELSE entries + 1
      /\ invoices' = [invoices EXCEPT ![k] = row]
      /\ bought' = [bought EXCEPT ![k] = @ \cup {start}]
      /\ paid' = [paid EXCEPT ![k] = IF before.is_unlimited THEN @ ELSE @ + 1]
      /\ staleWrite' = (staleWrite \/ before.balance # account.balance)
      /\ Admit(s) /\ Close(s)
      /\ UNCHANGED <<now, runs, overtaken>>
  BY DEF CommitCharge, Journal
<1>4. /\ before \in AccountRow /\ ses[s].decided \in Nat /\ start \in 0..MaxTime /\ start \in Nat
      /\ ses[s].seen \in InvoiceRow
  BY <1>1, SessionTypes
<1>5. /\ after \in AccountRow /\ after.balance = before.balance + amount
      /\ after.daily_limit = before.daily_limit
      /\ ~before.is_unlimited => ~after.is_unlimited
  BY <1>4, ChargedRowEffect
<1>6. amount \in Int /\ 0 - amount \in Nat /\ (amount # 0 => ~before.is_unlimited /\ amount = -Price)
  BY <1>4, ChargeAmountRange
<1>7. /\ ses[s].seen.charges = invoices[k].charges
      /\ ses[s].seen.charges <= ses[s].seen.hits
      /\ ses[s].seen.hits <= admitted[k]
      /\ invoices[k].expires <= start
      /\ OfCards(before)
      /\ ~before.is_unlimited => WithinDailyLimit(before, chargedToday)
  BY <1>1 DEF SessionInv, SeenHolds, PeriodOver, LoadedOfCards, RoomLeft
<1>8. /\ row \in InvoiceRow /\ row.expires = start + FreeTime
      /\ row.charges = invoices[k].charges + 1
      /\ row.charges <= row.hits /\ row.hits <= admitted[k] + 1
  <2>1. ses[s].seen.charges \in Nat /\ ses[s].seen.hits \in Nat /\ admitted[k] \in Nat
    BY <1>1, <1>2, <1>4, InvoiceTypes DEF InvoiceRow
  <2> QED
    BY <1>4, <1>7, <2>1, FlowAssumption DEF InvoiceRow
<1>9. /\ admitted' \in [Keys -> Nat]
      /\ admitted'[k] = admitted[k] + 1
      /\ \A j \in Keys : j # k => admitted'[j] = admitted[j]
      /\ \A j \in Keys : admitted[j] <= admitted'[j]
  BY <1>1, <1>2, <1>3, AdmitEffect
<1>10. /\ account' \in AccountRow /\ DriftNeedsStaleCopy' /\ staleWrite' \in BOOLEAN
  BY <1>3, <1>4, <1>5, <1>6, AccountWrite
<1>11. InvoiceInv
  BY DEF FlowInv
<1>12. /\ bought[k] \cup {start} \in SUBSET (0..MaxTime)
       /\ Cardinality(bought[k] \cup {start}) = invoices[k].charges + 1
       /\ \A a \in bought[k] \cup {start} : a + FreeTime <= start + FreeTime
       /\ \A a, b \in bought[k] \cup {start} : a < b => b - a >= FreeTime
  BY <1>1, <1>2, <1>4, <1>7, <1>11, NewPeriod
<1>13. /\ ses' \in [Sessions -> Session] /\ lock' \in Sessions \cup {None} /\ LockHolder'
       /\ SessionInv(s)' /\ \A r \in Sessions : r # s => ses'[r] = ses[r]
  BY <1>3, CloseEffect
<1>14. account'.daily_limit \in {account.daily_limit, before.daily_limit}
       /\ (before.daily_limit = after.daily_limit => account'.daily_limit = account.daily_limit)
       /\ (~account.is_unlimited /\ ~after.is_unlimited => ~account'.is_unlimited)
  BY <1>1, <1>3, <1>4, <1>5, WriteBackEffect DEF TypeOK
<1> HIDE DEF k, before, after, amount, start, row
<1>15. /\ invoices' \in [Keys -> InvoiceRow] /\ invoices'[k] = row
       /\ \A j \in Keys : j # k => invoices'[j] = invoices[j]
       /\ bought' \in [Keys -> SUBSET (0..MaxTime)] /\ bought'[k] = bought[k] \cup {start}
       /\ \A j \in Keys : j # k => bought'[j] = bought[j]
  BY <1>1, <1>2, <1>3, <1>8, <1>12 DEF TypeOK
<1>16. /\ paid' \in [Keys -> Nat]
       /\ ~before.is_unlimited => paid'[k] = paid[k] + 1
       /\ \A j \in Keys : j # k => paid'[j] = paid[j]
  BY <1>1, <1>2, <1>3 DEF TypeOK
<1>17. chargedToday' \in Nat /\ entries' \in Nat /\ ledgerTotal' \in Int
  BY <1>1, <1>3, <1>6 DEF TypeOK
<1>18. TypeOK'
  BY <1>1, <1>3, <1>9, <1>10, <1>13, <1>15, <1>16, <1>17 DEF TypeOK
<1>19. ASSUME NEW r \in Sessions PROVE SessionInv(r)'
  <2>1. CASE r # s
    <3>1. SessionInv(r) /\ ses'[r] = ses[r]
      BY <1>13, <2>1 DEF FlowInv
    <3>2. ses[r].at \notin Holding
      BY <1>1, <2>1, OneHolder
    <3>3. ses[r].at # "commit"
      BY <3>2 DEF Holding
    <3> QED
      BY <1>1, <1>9, <1>18, <3>1, <3>2, <3>3, OtherSession
  <2> QED
    BY <1>13, <2>1
<1>20. InvoiceInv'
  <2>1. ASSUME NEW j \in Keys
        PROVE  /\ \A a \in bought'[j] : a + FreeTime <= invoices'[j].expires
               /\ \A a, b \in bought'[j] : a < b => b - a >= FreeTime
               /\ Cardinality(bought'[j]) = invoices'[j].charges
               /\ AlwaysMetered => paid'[j] = invoices'[j].charges
               /\ invoices'[j].charges <= invoices'[j].hits
               /\ invoices'[j].hits <= admitted'[j]
    <3>1. CASE j = k
      <4>1. AlwaysMetered => paid'[k] = invoices[k].charges + 1
        BY <1>2, <1>7, <1>11, <1>16 DEF OfCards, InvoiceInv, EveryPeriodPaid
      <4> QED
        BY <1>8, <1>9, <1>12, <1>15, <3>1, <4>1
    <3>2. CASE j # k
      BY <1>9, <1>11, <1>15, <1>16, <3>2
      DEF InvoiceInv, PeriodsEnd, PeriodsDisjoint, OnePeriodPerCharge, EveryPeriodPaid,
          HitsWithinAdmitted
    <3> QED
      BY <3>1, <3>2
  <2> QED
    BY <2>1 DEF InvoiceInv, PeriodsEnd, PeriodsDisjoint, OnePeriodPerCharge, EveryPeriodPaid,
                HitsWithinAdmitted, AlwaysMetered
<1>21. OfCards(account) /\ DailyLimitHolds
  BY DEF FlowInv, AccountInv
<1>22. OfCards(account)'
  <2>1. account'.daily_limit = account.daily_limit
    BY <1>5, <1>14
  <2>2. AlwaysMetered => ~account'.is_unlimited
    BY <1>5, <1>7, <1>14, <1>21 DEF OfCards
  <2> QED
    BY <1>21, <2>1, <2>2 DEF OfCards, AlwaysMetered
<1>23. DailyLimitHolds'
  <2> SUFFICES ASSUME FixedLimit, account.daily_limit # None
               PROVE  chargedToday - amount <= account.daily_limit
    BY <1>3, <1>5, <1>14 DEF DailyLimitHolds, FixedLimit
  <2>1. before.daily_limit = account.daily_limit
    BY <1>7, <1>21 DEF OfCards, FixedLimit
  <2>2. account.daily_limit \in Nat /\ chargedToday \in Nat /\ Price \in Nat
    BY <1>1, RulesAssumption DEF TypeOK, AccountRow, Limit
  <2>3. CASE amount = 0
    BY <1>21, <2>2, <2>3 DEF DailyLimitHolds
  <2>4. CASE amount # 0
    <3>1. chargedToday + Price <= account.daily_limit
      BY <1>6, <1>7, <2>1, <2>4 DEF WithinDailyLimit
    <3> QED
      BY <1>6, <2>2, <2>4, <3>1
  <2> QED
    BY <2>3, <2>4
<1> QED
  BY <1>10, <1>13, <1>18, <1>19, <1>20, <1>22, <1>23 DEF FlowInv, AccountInv

\* A step that moves no invoice keeps what is known of invoices.
LEMMA InvoicesStay ==
  ASSUME FlowInv, UNCHANGED <<invoices, bought, paid, admitted, overtaken>>
  PROVE  InvoiceInv'
  BY DEF FlowInv, InvoiceInv, PeriodsEnd, PeriodsDisjoint, OnePeriodPerCharge, EveryPeriodPaid,
         HitsWithinAdmitted, AlwaysMetered

\* The sessions that a write of the account leaves alone.
LEMMA SessionsStay ==
  ASSUME FlowInv, TypeOK', NEW s \in Sessions, SessionInv(s)',
         \A r \in Sessions : r # s => ses'[r] = ses[r],
         UNCHANGED <<invoices, admitted, chargedToday>>
  PROVE  \A r \in Sessions : SessionInv(r)'
<1>1. ASSUME NEW r \in Sessions, r # s PROVE SessionInv(r)'
  <2>1. SessionInv(r) /\ ses'[r] = ses[r] /\ TypeOK
    BY <1>1 DEF FlowInv
  <2>2. (\A k \in Keys : admitted[k] <= admitted'[k]) /\ chargedToday' <= chargedToday
    BY <2>1 DEF TypeOK
  <2> QED
    BY <2>1, <2>2, OtherSession
<1> QED
  BY <1>1

LEMMA CommandStep ==
  ASSUME FlowInv, NEW s \in Sessions, NEW kind \in CommandKinds, NEW amount \in Amounts,
         Command(s, kind, amount)
  PROVE  FlowInv'
<1> DEFINE before == ses[s].loaded
           after == AppendEntry(before, amount)
<1>1. TypeOK /\ SessionInv(s) /\ ses[s].at = "command" /\ amount \in Int
  BY FlowAssumption DEF FlowInv, Command
<1>2. /\ account' = WriteBack(before, after)
      /\ ledgerTotal' = ledgerTotal + amount
      /\ chargedToday' = chargedToday
      /\ entries' = IF amount = 0 THEN entries ELSE entries + 1
      /\ staleWrite' = (staleWrite \/ before.balance # account.balance)
      /\ Close(s)
      /\ UNCHANGED <<invoices, now, runs, bought, paid, admitted, overtaken>>
  BY DEF Command, Journal
<1>3. before \in AccountRow
  BY <1>1, SessionTypes
<1>4. /\ after \in AccountRow /\ after.balance = before.balance + amount
      /\ after.daily_limit = before.daily_limit
      /\ ~before.is_unlimited => ~after.is_unlimited
  BY <1>1, <1>3, AppendEntryEffect
<1>5. account' \in AccountRow /\ DriftNeedsStaleCopy' /\ staleWrite' \in BOOLEAN
  BY <1>1, <1>2, <1>3, <1>4, AccountWrite
<1>6. /\ account'.daily_limit = account.daily_limit
      /\ ~account.is_unlimited /\ ~after.is_unlimited => ~account'.is_unlimited
  BY <1>1, <1>2, <1>3, <1>4, WriteBackEffect DEF TypeOK
<1> HIDE DEF before, after
<1>7. /\ ses' \in [Sessions -> Session] /\ lock' \in Sessions \cup {None} /\ LockHolder'
      /\ SessionInv(s)' /\ \A r \in Sessions : r # s => ses'[r] = ses[r]
  BY <1>2, CloseEffect
<1>8. TypeOK'
  BY <1>1, <1>2, <1>5, <1>7 DEF TypeOK
<1>9. \A r \in Sessions : SessionInv(r)'
  BY <1>2, <1>7, <1>8, SessionsStay
<1>10. InvoiceInv'
  BY <1>2, InvoicesStay
<1>11. OfCards(before)
  BY <1>1 DEF SessionInv, LoadedOfCards, before
<1>12. OfCards(account)' /\ DailyLimitHolds'
  <2>1. OfCards(account) /\ DailyLimitHolds
    BY DEF FlowInv, AccountInv
  <2>2. AlwaysMetered => ~account'.is_unlimited
    BY <1>4, <1>6, <1>11, <2>1 DEF OfCards
  <2> QED
    BY <1>2, <1>6, <2>1, <2>2 DEF OfCards, AlwaysMetered, DailyLimitHolds, FixedLimit
<1> QED
  BY <1>5, <1>7, <1>8, <1>9, <1>10, <1>12 DEF FlowInv, AccountInv

LEMMA SaveCardStep ==
  ASSUME FlowInv, NEW s \in Sessions, NEW card \in Cards, SaveCard(s, card)
  PROVE  FlowInv'
<1> DEFINE before == ses[s].loaded
           after == EditedRow(before, card)
<1>1. TypeOK /\ SessionInv(s) /\ ses[s].at = "edit"
  BY DEF FlowInv, SaveCard
<1>2. /\ account' = WriteBack(before, after) /\ Close(s)
      /\ UNCHANGED <<ledgerTotal, chargedToday, entries, invoices, now, runs>>
      /\ UNCHANGED <<bought, paid, admitted, overtaken, staleWrite>>
  BY DEF SaveCard, ledger, history
<1>3. before \in AccountRow
  BY <1>1, SessionTypes
<1>4. /\ after \in AccountRow /\ after.balance = before.balance
      /\ after.daily_limit = card.daily_limit
      /\ ~card.is_unlimited => ~after.is_unlimited
  BY <1>3, FlowAssumption, EditedRowEffect
<1>5. /\ account' \in AccountRow
      /\ account'.balance = account.balance
      /\ account'.daily_limit \in {account.daily_limit, card.daily_limit}
      /\ ~account.is_unlimited /\ ~after.is_unlimited => ~account'.is_unlimited
  BY <1>1, <1>2, <1>3, <1>4, WriteBackEffect DEF TypeOK
<1> HIDE DEF before, after
<1>6. /\ ses' \in [Sessions -> Session] /\ lock' \in Sessions \cup {None} /\ LockHolder'
      /\ SessionInv(s)' /\ \A r \in Sessions : r # s => ses'[r] = ses[r]
  BY <1>2, CloseEffect
<1>7. TypeOK'
  BY <1>1, <1>2, <1>5, <1>6 DEF TypeOK
<1>8. \A r \in Sessions : SessionInv(r)'
  BY <1>2, <1>6, <1>7, SessionsStay
<1>9. InvoiceInv'
  BY <1>2, InvoicesStay
<1>10. AccountInv'
  <2>1. OfCards(account) /\ DailyLimitHolds /\ DriftNeedsStaleCopy
    BY DEF FlowInv, AccountInv
  <2>2. OfCards(account)'
    <3>1. \E c \in Cards : account'.daily_limit = c.daily_limit
      BY <1>5, <2>1 DEF OfCards
    <3>2. AlwaysMetered => ~account'.is_unlimited
      BY <1>4, <1>5, <2>1 DEF OfCards, AlwaysMetered
    <3> QED
      BY <3>1, <3>2 DEF OfCards, AlwaysMetered
  <2>3. DailyLimitHolds'
    <3>1. FixedLimit => account'.daily_limit = account.daily_limit
      BY <1>5, <2>1 DEF OfCards, FixedLimit
    <3> QED
      BY <1>2, <2>1, <3>1 DEF DailyLimitHolds, FixedLimit
  <2>4. DriftNeedsStaleCopy'
    BY <1>2, <1>5, <2>1 DEF DriftNeedsStaleCopy
  <2> QED
    BY <2>2, <2>3, <2>4 DEF AccountInv
<1> QED
  BY <1>6, <1>7, <1>8, <1>9, <1>10 DEF FlowInv

\* The sum of the day only falls when time passes.
LEMMA TickStep == ASSUME FlowInv, Tick PROVE FlowInv'
<1>1. TypeOK /\ LockHolder /\ InvoiceInv /\ AccountInv
  BY DEF FlowInv
<1>2. /\ now' \in 0..MaxTime /\ chargedToday' \in Nat /\ chargedToday' <= chargedToday
      /\ UNCHANGED <<account, ledgerTotal, entries, invoices, lock, ses, runs>>
      /\ UNCHANGED <<bought, paid, admitted, overtaken, staleWrite>>
  BY <1>1, FlowAssumption DEF Tick, TypeOK, history
<1>3. TypeOK'
  BY <1>1, <1>2 DEF TypeOK
<1>4. LockHolder'
  BY <1>1, <1>2 DEF LockHolder
<1>5. ASSUME NEW r \in Sessions PROVE SessionInv(r)'
  <2>1. SessionInv(r) /\ ses'[r] = ses[r]
    BY <1>2 DEF FlowInv
  <2>2. \A k \in Keys : admitted[k] <= admitted'[k]
    BY <1>1, <1>2 DEF TypeOK
  <2> QED
    BY <1>1, <1>2, <1>3, <2>1, <2>2, OtherSession
<1>6. InvoiceInv'
  BY <1>2, InvoicesStay
<1>7. DailyLimitHolds'
  <2> SUFFICES ASSUME FixedLimit, account.daily_limit # None
               PROVE  chargedToday' <= account.daily_limit
    BY <1>2 DEF DailyLimitHolds, FixedLimit
  <2>1. account.daily_limit \in Nat /\ chargedToday \in Nat
    BY <1>1 DEF TypeOK, AccountRow, Limit
  <2>2. chargedToday <= account.daily_limit
    BY <1>1 DEF AccountInv, DailyLimitHolds
  <2> QED
    BY <1>2, <2>1, <2>2
<1>8. OfCards(account)' /\ DriftNeedsStaleCopy'
  BY <1>1, <1>2 DEF AccountInv, OfCards, AlwaysMetered, DriftNeedsStaleCopy
<1> QED
  BY <1>3, <1>4, <1>5, <1>6, <1>7, <1>8 DEF FlowInv, AccountInv

---------------------------------------------------------------------------
(* The invariant *)

LEMMA InitInv == Init => FlowInv
<1> SUFFICES ASSUME Init PROVE FlowInv
  OBVIOUS
<1>1. PICK card \in Cards : account = NewAccount(card.daily_limit, card.is_unlimited)
  BY DEF Init
<1>2. card.daily_limit \in Limit /\ card.is_unlimited \in BOOLEAN
  BY FlowAssumption
<1>3. account \in AccountRow
  BY <1>1, <1>2 DEF NewAccount, AccountRow
<1>4. /\ account.balance = 0 /\ account.daily_limit = card.daily_limit
      /\ ~card.is_unlimited => ~account.is_unlimited
  BY <1>1 DEF NewAccount
<1>5. \A s \in Sessions : ses[s] = Closed
  BY DEF Init
<1>6. NoInvoice \in InvoiceRow
  BY DEF NoInvoice, InvoiceRow
<1>7. TypeOK
  <2>1. 0 \in 0..MaxTime /\ 0 \in 0..MaxRuns
    BY FlowAssumption
  <2>2. ses \in [Sessions -> Session] /\ invoices \in [Keys -> InvoiceRow]
    BY <1>6, ClosedType DEF Init
  <2>3. /\ bought \in [Keys -> SUBSET (0..MaxTime)] /\ paid \in [Keys -> Nat]
        /\ admitted \in [Keys -> Nat] /\ overtaken \in [Keys -> BOOLEAN]
    BY DEF Init
  <2>4. /\ ledgerTotal \in Int /\ chargedToday \in Nat /\ entries \in Nat /\ now \in 0..MaxTime
        /\ runs \in 0..MaxRuns
    BY <2>1 DEF Init
  <2>5. lock \in Sessions \cup {None}
    BY DEF Init
  <2>6. staleWrite \in BOOLEAN
    BY DEF Init
  <2> QED
    BY <1>3, <2>2, <2>3, <2>4, <2>5, <2>6 DEF TypeOK
<1>8. LockHolder
  BY <1>5, ClosedType, FlowAssumption DEF Init, LockHolder, Holding
<1>9. \A s \in Sessions : SessionInv(s)
  BY <1>5, ClosedType
  DEF SessionInv, KeyKnown, LoadedOfCards, SeenHolds, PeriodOver, RoomLeft, Asking, Holding
<1>10. InvoiceInv
  <2>1. \A k \in Keys : /\ bought[k] = {} /\ paid[k] = 0 /\ admitted[k] = 0
                        /\ invoices[k].charges = 0 /\ invoices[k].hits = 0
    BY DEF Init, NoInvoice
  <2>2. OnePeriodPerCharge
    BY <2>1, FS_EmptySet DEF OnePeriodPerCharge
  <2>3. PeriodsEnd /\ PeriodsDisjoint
    BY <2>1 DEF PeriodsEnd, PeriodsDisjoint
  <2>4. EveryPeriodPaid /\ HitsWithinAdmitted
    BY <2>1 DEF EveryPeriodPaid, HitsWithinAdmitted
  <2> QED
    BY <2>2, <2>3, <2>4 DEF InvoiceInv
<1>11. AccountInv
  <2>1. OfCards(account)
    BY <1>4 DEF OfCards, AlwaysMetered
  <2>2. DriftNeedsStaleCopy
    BY <1>4 DEF Init, DriftNeedsStaleCopy
  <2>3. DailyLimitHolds
    BY <1>2, <1>4 DEF Init, DailyLimitHolds, Limit
  <2> QED
    BY <2>1, <2>2, <2>3 DEF AccountInv
<1> QED
  BY <1>7, <1>8, <1>9, <1>10, <1>11 DEF FlowInv

LEMMA StepInv == FlowInv /\ [Next]_vars => FlowInv'
<1> SUFFICES ASSUME FlowInv, [Next]_vars PROVE FlowInv'
  OBVIOUS
<1>1. ASSUME NEW s \in Sessions, NEW k \in Keys, Authenticate(s, k) PROVE FlowInv'
  BY <1>1, OpenStep DEF Authenticate
<1>2. ASSUME NEW s \in Sessions, OpenCommand(s) \/ OpenEdit(s) PROVE FlowInv'
  BY <1>2, OpenStep DEF OpenCommand, OpenEdit
<1>3. ASSUME NEW s \in Sessions, Proceed(s) PROVE FlowInv'
  <2>1. CASE Refuse(s)
    BY <2>1, EmptyCloseStep DEF Refuse
  <2> QED
    BY <1>3, <2>1, ResolveStep, TouchActiveStep, TouchMissStep, LockAccountStep,
       CommitFreeStep, DecideStep, CommitChargeStep, CommandStep, SaveCardStep DEF Proceed
<1>4. ASSUME NEW s \in Sessions, Rollback(s) PROVE FlowInv'
  BY <1>4, EmptyCloseStep DEF Rollback
<1>5. CASE Tick
  BY <1>5, TickStep
<1>6. CASE UNCHANGED vars
  <2>1. UNCHANGED <<account, ledgerTotal, chargedToday, entries, invoices, now, lock, ses, runs>>
    BY <1>6 DEF vars, ledger
  <2>2. UNCHANGED <<bought, paid, admitted, overtaken, staleWrite>>
    BY <1>6 DEF vars, history
  <2>3. TypeOK'
    BY <2>1, <2>2 DEF FlowInv, TypeOK
  <2>4. \A s \in Sessions : SessionInv(s)'
    <3>1. (\A k \in Keys : admitted[k] <= admitted'[k]) /\ chargedToday' <= chargedToday
      BY <2>1, <2>2 DEF FlowInv, TypeOK
    <3>2. TypeOK
      BY DEF FlowInv
    <3> QED
      BY <2>1, <2>3, <3>1, <3>2, OtherSession DEF FlowInv
  <2>5. LockHolder' /\ InvoiceInv'
    BY <2>1, <2>2, InvoicesStay DEF FlowInv, LockHolder
  <2>6. AccountInv'
    BY <2>1, <2>2 DEF FlowInv, AccountInv, OfCards, AlwaysMetered, DailyLimitHolds, FixedLimit,
                      DriftNeedsStaleCopy
  <2> QED
    BY <2>3, <2>4, <2>5, <2>6 DEF FlowInv
<1> QED
  BY <1>1, <1>2, <1>3, <1>4, <1>5, <1>6 DEF Next, Finished

\* Every row, session and counter stays in its type.
THEOREM FlowTypeCorrect == Spec => []TypeOK
<1>1. FlowInv => TypeOK
  BY DEF FlowInv
<1> QED
  BY <1>1, InitInv, StepInv, PTL DEF Spec

\* The row lock has one holder: the session between FOR UPDATE and the end of
\* its transaction.
THEOREM LockCorrect == Spec => []LockHolder
<1>1. FlowInv => LockHolder
  BY DEF FlowInv
<1> QED
  BY <1>1, InitInv, StepInv, PTL DEF Spec

\* Idempotency: no two free periods of one invoice overlap.
THEOREM IdempotencyCorrect == Spec => []PeriodsDisjoint
<1>1. FlowInv => PeriodsDisjoint
  BY DEF FlowInv, InvoiceInv
<1> QED
  BY <1>1, InitInv, StepInv, PTL DEF Spec

\* charge_count is the number of free periods bought.
THEOREM ChargesCorrect == Spec => []OnePeriodPerCharge
<1>1. FlowInv => OnePeriodPerCharge
  BY DEF FlowInv, InvoiceInv
<1> QED
  BY <1>1, InitInv, StepInv, PTL DEF Spec

\* No two periods of a key overlap, and each is counted once.
THEOREM ChargedOnceCorrect == Spec => []ChargedOnce
<1>1. FlowInv => ChargedOnce
  BY DEF FlowInv, InvoiceInv, ChargedOnce
<1> QED
  BY <1>1, InitInv, StepInv, PTL DEF Spec

\* A metered account has one ledger entry per period.
THEOREM PeriodsPaidCorrect == Spec => []EveryPeriodPaid
<1>1. FlowInv => EveryPeriodPaid
  BY DEF FlowInv, InvoiceInv
<1> QED
  BY <1>1, InitInv, StepInv, PTL DEF Spec

\* The daily limit survives concurrent requests and midnight.
THEOREM DailyLimitCorrect == Spec => []DailyLimitHolds
<1>1. FlowInv => DailyLimitHolds
  BY DEF FlowInv, AccountInv
<1> QED
  BY <1>1, InitInv, StepInv, PTL DEF Spec

\* The cached balance leaves the journal only by a write from an outdated copy.
THEOREM DriftCorrect == Spec => []DriftNeedsStaleCopy
<1>1. FlowInv => DriftNeedsStaleCopy
  BY DEF FlowInv, AccountInv
<1> QED
  BY <1>1, InitInv, StepInv, PTL DEF Spec

\* The body of EditsKeepMoney.
MoneyMovesWithJournal ==
  account'.balance # account.balance \/ account'.overdraft_until # account.overdraft_until
    => entries' = entries + 1

LEMMA MoneySteps == FlowInv /\ [Next]_vars => [MoneyMovesWithJournal]_vars
<1> SUFFICES ASSUME FlowInv, Next PROVE MoneyMovesWithJournal
  BY DEF MoneyMovesWithJournal
<1>1. TypeOK /\ account \in AccountRow
  BY DEF FlowInv, TypeOK
<1>2. ASSUME account' = account PROVE MoneyMovesWithJournal
  BY <1>2 DEF MoneyMovesWithJournal
<1>3. ASSUME NEW s \in Sessions, CommitCharge(s) PROVE MoneyMovesWithJournal
  <2> DEFINE before == ses[s].loaded
             after == ChargedRow(before, ses[s].decided)
             amount == ChargeAmount(before)
  <2>1. before \in AccountRow /\ ses[s].decided \in Nat
    BY <1>1, SessionTypes
  <2>2. /\ account' = WriteBack(before, after)
        /\ entries' = IF amount = 0 THEN entries ELSE entries + 1
        /\ ses[s].at = "commit"
    BY <1>3 DEF CommitCharge, Journal
  <2>3. after \in AccountRow /\ (before.is_unlimited => after = before)
    BY <2>1, ChargedRowEffect
  <2>4. CASE before.is_unlimited
    BY <1>1, <2>1, <2>2, <2>3, <2>4, WriteBackEffect DEF MoneyMovesWithJournal
  <2>5. CASE ~before.is_unlimited
    <3>1. amount = -Price
      BY <2>5 DEF ChargeAmount
    <3>2. Price # 0
      BY <2>2, <2>5 DEF FlowInv, SessionInv, RoomLeft
    <3>3. amount # 0
      BY <3>1, <3>2, RulesAssumption
    <3> QED
      BY <2>2, <3>3 DEF MoneyMovesWithJournal
  <2> QED
    BY <2>4, <2>5
<1>4. ASSUME NEW s \in Sessions, NEW kind \in CommandKinds, NEW amount \in Amounts,
             Command(s, kind, amount)
      PROVE  MoneyMovesWithJournal
  BY <1>4 DEF Command, CommandAccepted, LedgerAccepts, Journal, MoneyMovesWithJournal
<1>5. ASSUME NEW s \in Sessions, NEW card \in Cards, SaveCard(s, card)
      PROVE  MoneyMovesWithJournal
  <2> DEFINE before == ses[s].loaded
             after == EditedRow(before, card)
  <2>1. before \in AccountRow
    BY <1>1, SessionTypes
  <2>2. account' = WriteBack(before, after)
    BY <1>5 DEF SaveCard
  <2>3. /\ after \in AccountRow /\ after.balance = before.balance
        /\ after.overdraft_until = before.overdraft_until
    BY <2>1, FlowAssumption, EditedRowEffect
  <2> QED
    BY <1>1, <2>1, <2>2, <2>3, WriteBackEffect DEF MoneyMovesWithJournal
<1>6. ASSUME NEW s \in Sessions, Proceed(s) PROVE MoneyMovesWithJournal
  <2>1. CASE Resolve(s) \/ TouchActive(s) \/ TouchMiss(s) \/ LockAccount(s) \/ CommitFree(s)
             \/ Decide(s) \/ Refuse(s)
    BY <1>2, <2>1 DEF Resolve, TouchActive, TouchMiss, LockAccount, CommitFree, Decide, Refuse
  <2> QED
    BY <1>3, <1>4, <1>5, <1>6, <2>1 DEF Proceed
<1> QED
  BY <1>2, <1>6 DEF Next, Authenticate, OpenCommand, OpenEdit, Open, Rollback, Tick, Finished, vars

\* An edit of the card, a free request and a refusal leave the money alone.
THEOREM EditsCorrect == Spec => EditsKeepMoney
<1>1. FlowInv /\ [Next]_vars =>
        [account'.balance # account.balance
            \/ account'.overdraft_until # account.overdraft_until
          => entries' = entries + 1]_vars
  BY MoneySteps DEF MoneyMovesWithJournal
<1> QED
  BY <1>1, InitInv, StepInv, PTL DEF Spec, EditsKeepMoney
---------------------------------------------------------------------------
(* The hits *)

\* The hits read under the lock are those of the row, unless the atomic
\* UPDATE of another request came in between.
HitSeen(s) ==
  ses[s].at \in Holding /\ ~overtaken[ses[s].key] =>
    ses[s].seen.hits = invoices[ses[s].key].hits

HitsInv ==
  /\ \A k \in Keys : ~overtaken[k] => invoices[k].hits = admitted[k]
  /\ \A s \in Sessions : HitSeen(s)

\* A step that admits nobody and lets no session read a row keeps them true.
LEMMA SilentStep ==
  ASSUME HitsInv,
         UNCHANGED <<invoices, admitted, overtaken>>,
         \A s \in Sessions : ses'[s] = ses[s] \/ HitSeen(s)'
  PROVE  HitsInv'
  BY DEF HitsInv, HitSeen

\* A session that ends.
LEMMA SilentClose ==
  ASSUME FlowInv, HitsInv, NEW s \in Sessions, Close(s),
         UNCHANGED <<invoices, admitted, overtaken>>
  PROVE  HitsInv'
<1>1. TypeOK /\ ses' = [ses EXCEPT ![s] = Closed]
  BY DEF FlowInv, Close
<1>2. ses'[s] = Closed /\ \A r \in Sessions : r # s => ses'[r] = ses[r]
  BY <1>1, ClosedType, OneSessionMoves
<1>3. HitSeen(s)'
  BY <1>2, ClosedType DEF HitSeen, Holding
<1> QED
  BY <1>2, <1>3, SilentStep

\* A step of one session that admits nobody.
LEMMA SilentMove ==
  ASSUME FlowInv, HitsInv, NEW s \in Sessions, NEW new \in Session,
         ses' = [ses EXCEPT ![s] = new],
         new.at \in Holding /\ ~overtaken[new.key] => new.seen.hits = invoices[new.key].hits,
         UNCHANGED <<invoices, admitted, overtaken>>
  PROVE  HitsInv'
<1>1. TypeOK
  BY DEF FlowInv
<1>2. ses'[s] = new /\ \A r \in Sessions : r # s => ses'[r] = ses[r]
  BY <1>1 DEF TypeOK
<1>3. HitSeen(s)'
  BY <1>2 DEF HitSeen
<1> QED
  BY <1>2, <1>3, SilentStep

\* A request admitted: its hit is counted unless it was overtaken, and every
\* other session that has read the row is overtaken by it.
LEMMA AdmittedStep ==
  ASSUME FlowInv, HitsInv, NEW s \in Sessions, NEW k \in Keys, k = ses[s].key,
         Admit(s), Close(s),
         invoices' \in [Keys -> InvoiceRow],
         \A j \in Keys : j # k => invoices'[j] = invoices[j] /\ overtaken'[j] = overtaken[j],
         overtaken[k] => overtaken'[k],
         ~overtaken'[k] => invoices'[k].hits = invoices[k].hits + 1,
         \A r \in Sessions : r # s /\ ses[r].at \in Holding /\ ses[r].key = k => overtaken'[k]
  PROVE  HitsInv'
<1>1. TypeOK
  BY DEF FlowInv
<1>2. /\ admitted'[k] = admitted[k] + 1
      /\ \A j \in Keys : j # k => admitted'[j] = admitted[j]
  BY <1>1, AdmitEffect
<1>3. ses' = [ses EXCEPT ![s] = Closed]
  BY DEF Close
<1>4. ses'[s] = Closed /\ \A r \in Sessions : r # s => ses'[r] = ses[r]
  BY <1>1, <1>3, ClosedType, OneSessionMoves
<1>5. ASSUME NEW j \in Keys, ~overtaken'[j] PROVE invoices'[j].hits = admitted'[j]
  <2>1. ~overtaken[j]
    BY <1>5
  <2>2. invoices[j].hits = admitted[j]
    BY <2>1 DEF HitsInv
  <2> QED
    BY <1>2, <1>5, <2>2
<1>6. ASSUME NEW r \in Sessions PROVE HitSeen(r)'
  <2>1. CASE r = s
    BY <1>4, <2>1, ClosedType DEF HitSeen, Holding
  <2>2. CASE r # s
    <3>1. SUFFICES ASSUME ses[r].at \in Holding, ~overtaken'[ses[r].key]
                   PROVE  ses[r].seen.hits = invoices'[ses[r].key].hits
      BY <1>4, <2>2 DEF HitSeen
    <3>2. ses[r].key \in Keys
      BY <3>1 DEF FlowInv, SessionInv, KeyKnown, Asking
    <3>3. ses[r].key # k
      BY <2>2, <3>1
    <3> QED
      BY <3>1, <3>2, <3>3 DEF HitsInv, HitSeen
  <2> QED
    BY <2>1, <2>2
<1> QED
  BY <1>5, <1>6 DEF HitsInv

LEMMA HitsStep == FlowInv /\ HitsInv /\ [Next]_vars => HitsInv'
<1> SUFFICES ASSUME FlowInv, HitsInv, [Next]_vars PROVE HitsInv'
  OBVIOUS
<1>0. TypeOK
  BY DEF FlowInv
<1>1. ASSUME NEW s \in Sessions, NEW place \in Places, NEW k \in Keys \cup {None},
             place \notin Holding, Open(s, place, k)
      PROVE  HitsInv'
  <2> DEFINE new == [Closed EXCEPT !.at = place, !.key = k, !.loaded = account]
  <2>1. ses' = [ses EXCEPT ![s] = new] /\ UNCHANGED <<invoices, history>>
    BY <1>1 DEF Open
  <2>2. new \in Session /\ new.at = place
    BY <1>0, <1>1, ClosedType DEF Session, TypeOK, Closed
  <2> HIDE DEF new
  <2> QED
    BY <1>1, <2>1, <2>2, SilentMove DEF history
<1>2. ASSUME NEW s \in Sessions, Resolve(s) PROVE HitsInv'
  <2> DEFINE new == [ses[s] EXCEPT !.at = "touch", !.started = now]
  <2>1. ses' = [ses EXCEPT ![s] = new] /\ UNCHANGED <<invoices, history>>
    BY <1>0, <1>2 DEF Resolve, TypeOK
  <2>2. new \in Session /\ new.at \notin Holding
    BY <1>0, SessionTypes DEF Session, Places, TypeOK, Holding
  <2> HIDE DEF new
  <2> QED
    BY <2>1, <2>2, SilentMove DEF history
<1>3. ASSUME NEW s \in Sessions, TouchMiss(s) PROVE HitsInv'
  <2> DEFINE new == [ses[s] EXCEPT !.at = "wait"]
  <2>1. ses' = [ses EXCEPT ![s] = new] /\ UNCHANGED <<invoices, history>>
    BY <1>0, <1>3 DEF TouchMiss, TypeOK
  <2>2. new \in Session /\ new.at \notin Holding
    BY <1>0, SessionTypes DEF Session, Places, Holding
  <2> HIDE DEF new
  <2> QED
    BY <2>1, <2>2, SilentMove DEF history
<1>4. ASSUME NEW s \in Sessions, LockAccount(s) PROVE HitsInv'
  <2> DEFINE k == ses[s].key
             place == IF ses[s].started < invoices[k].expires THEN "free" ELSE "charge"
             new == [ses[s] EXCEPT !.seen = invoices[k], !.at = place]
  <2>1. ses' = [ses EXCEPT ![s] = new] /\ UNCHANGED <<invoices, history>>
    BY <1>0, <1>4 DEF LockAccount, TypeOK
  <2>2. k \in Keys
    BY <1>4 DEF LockAccount, FlowInv, SessionInv, KeyKnown, Asking
  <2>3. new \in Session /\ new.key = k /\ new.seen = invoices[k]
    BY <1>0, <2>2, SessionTypes DEF Session, Places, TypeOK
  <2> HIDE DEF new
  <2> QED
    BY <2>1, <2>3, SilentMove DEF history
<1>5. ASSUME NEW s \in Sessions, Decide(s) PROVE HitsInv'
  <2> DEFINE new == [ses[s] EXCEPT !.at = "commit", !.decided = now]
  <2>1. ses' = [ses EXCEPT ![s] = new] /\ UNCHANGED <<invoices, history>>
    BY <1>0, <1>5 DEF Decide, TypeOK
  <2>2. new \in Session /\ new.key = ses[s].key /\ new.seen = ses[s].seen
    BY <1>0, SessionTypes DEF Session, Places, TypeOK
  <2>3. ses[s].at \in Holding
    BY <1>5 DEF Decide, Holding
  <2>4. ~overtaken[ses[s].key] => ses[s].seen.hits = invoices[ses[s].key].hits
    BY <2>3 DEF HitsInv, HitSeen
  <2> HIDE DEF new
  <2> QED
    BY <2>1, <2>2, <2>4, SilentMove DEF history
<1>6. ASSUME NEW s \in Sessions, TouchActive(s) PROVE HitsInv'
  <2> DEFINE k == ses[s].key
  <2>1. k \in Keys
    BY <1>6 DEF TouchActive, FlowInv, SessionInv, KeyKnown, Asking
  <2>2. /\ invoices' = [invoices EXCEPT ![k].hits = @ + 1]
        /\ overtaken' = [overtaken EXCEPT ![k] = @ \/ ReadUnderLock(k)]
        /\ Admit(s) /\ Close(s)
    BY <1>6 DEF TouchActive
  <2> HIDE DEF k
  <2>3. /\ invoices' \in [Keys -> InvoiceRow]
        /\ invoices'[k].hits = invoices[k].hits + 1
        /\ \A j \in Keys : j # k => invoices'[j] = invoices[j]
    BY <1>0, <2>1, <2>2 DEF TypeOK, InvoiceRow
  <2>4. /\ overtaken'[k] = (overtaken[k] \/ ReadUnderLock(k))
        /\ \A j \in Keys : j # k => overtaken'[j] = overtaken[j]
    BY <1>0, <2>1, <2>2 DEF TypeOK
  <2>5. \A r \in Sessions : ses[r].at \in Holding /\ ses[r].key = k => overtaken'[k]
    BY <2>4 DEF ReadUnderLock
  <2> QED
    BY <2>1, <2>2, <2>3, <2>4, <2>5, AdmittedStep DEF k
<1>7. ASSUME NEW s \in Sessions, NEW row \in InvoiceRow, ses[s].at \in Holding,
             row.hits = ses[s].seen.hits + 1,
             invoices' = [invoices EXCEPT ![ses[s].key] = row],
             overtaken' = overtaken, Admit(s), Close(s)
      PROVE  HitsInv'
  <2> DEFINE k == ses[s].key
  <2>1. k \in Keys
    BY <1>7 DEF FlowInv, SessionInv, KeyKnown, Asking
  <2> HIDE DEF k
  <2>2. /\ invoices' \in [Keys -> InvoiceRow] /\ invoices'[k] = row
        /\ \A j \in Keys : j # k => invoices'[j] = invoices[j]
    BY <1>0, <1>7, <2>1 DEF TypeOK, k
  <2>3. ~overtaken[k] => invoices'[k].hits = invoices[k].hits + 1
    BY <1>7, <2>2 DEF HitsInv, HitSeen, k
  <2>4. \A r \in Sessions : r # s => ~(ses[r].at \in Holding)
    BY <1>7, OneHolder
  <2> QED
    BY <1>7, <2>1, <2>2, <2>3, <2>4, AdmittedStep DEF k
<1>8. ASSUME NEW s \in Sessions, CommitFree(s) PROVE HitsInv'
  <2> DEFINE k == ses[s].key
             row == [invoices[k] EXCEPT !.hits = ses[s].seen.hits + 1]
  <2>1. k \in Keys /\ ses[s].at \in Holding
    BY <1>8 DEF CommitFree, FlowInv, SessionInv, KeyKnown, Asking, Holding
  <2>2. ses[s].seen \in InvoiceRow /\ invoices[k] \in InvoiceRow
    BY <1>0, <2>1, SessionTypes, InvoiceTypes
  <2>3. row \in InvoiceRow /\ row.hits = ses[s].seen.hits + 1
    BY <2>2 DEF InvoiceRow
  <2>4. /\ invoices' = [invoices EXCEPT ![k] = row]
        /\ overtaken' = overtaken /\ Admit(s) /\ Close(s)
    BY <1>0, <1>8, <2>1 DEF CommitFree, TypeOK, InvoiceRow
  <2> HIDE DEF row
  <2> QED
    BY <1>7, <2>1, <2>3, <2>4
<1>9. ASSUME NEW s \in Sessions, CommitCharge(s) PROVE HitsInv'
  <2> DEFINE row == [expires |-> ses[s].started + FreeTime, charges |-> ses[s].seen.charges + 1,
                     hits |-> ses[s].seen.hits + 1]
  <2>1. ses[s].at \in Holding
    BY <1>9 DEF CommitCharge, Holding
  <2>2. row \in InvoiceRow /\ row.hits = ses[s].seen.hits + 1
    BY <1>0, SessionTypes, FlowAssumption DEF InvoiceRow
  <2>3. /\ invoices' = [invoices EXCEPT ![ses[s].key] = row]
        /\ overtaken' = overtaken /\ Admit(s) /\ Close(s)
    BY <1>9 DEF CommitCharge
  <2> HIDE DEF row
  <2> QED
    BY <1>7, <2>1, <2>2, <2>3
<1>10. ASSUME NEW s \in Sessions,
             \/ Refuse(s) \/ Rollback(s)
             \/ \E kind \in CommandKinds, amount \in Amounts : Command(s, kind, amount)
             \/ \E card \in Cards : SaveCard(s, card)
      PROVE  HitsInv'
  BY <1>10, SilentClose DEF Refuse, Rollback, Command, SaveCard, history
<1>11. CASE Tick \/ UNCHANGED vars
  BY <1>11, SilentStep DEF Tick, vars, history
<1>12. ASSUME NEW s \in Sessions, NEW k \in Keys, Authenticate(s, k) PROVE HitsInv'
  BY <1>1, <1>12 DEF Authenticate, Places, Holding
<1>13. ASSUME NEW s \in Sessions, OpenCommand(s) \/ OpenEdit(s) PROVE HitsInv'
  BY <1>1, <1>13 DEF OpenCommand, OpenEdit, Places, Holding
<1> QED
  BY <1>2, <1>3, <1>4, <1>5, <1>6, <1>8, <1>9, <1>10, <1>11, <1>12, <1>13
  DEF Next, Proceed, Finished

LEMMA HitsInit == Init => HitsInv
<1> SUFFICES ASSUME Init PROVE HitsInv
  OBVIOUS
<1>1. \A s \in Sessions : ses[s] = Closed
  BY DEF Init
<1> QED
  BY <1>1, ClosedType DEF Init, HitsInv, HitSeen, NoInvoice, Holding

\* hit_count lies between the charges and the requests let through, and loses
\* a hit only when the atomic UPDATE of one request overtook a lock holder
\* that had read the row.
THEOREM HitsCorrect == Spec => []HitsKept
<1>1. FlowInv /\ HitsInv => HitsKept
  BY DEF FlowInv, InvoiceInv, HitsInv, HitsWithinAdmitted, HitsKept
<1> QED
  BY <1>1, InitInv, StepInv, HitsInit, HitsStep, PTL DEF Spec
---------------------------------------------------------------------------
(* One session at a time *)

\* No two sessions are open at once.
OneAtATime ==
  \A r, s \in Sessions : ses[r].at # "idle" /\ ses[s].at # "idle" => r = s

\* The copy a session works on is the committed row, and the session has not
\* written its entry yet.
CopyCurrent(s) == ses[s].at # "idle" => ses[s].loaded = account /\ entries < runs

\* The hits read under the lock are those of the row.
HitsCurrent(s) ==
  ses[s].at \in Holding => ses[s].seen.hits = invoices[ses[s].key].hits

\* What was decided before the commit could be decided again at the commit.
ChargeStands(s) ==
  ses[s].at = "commit" =>
    /\ ChargeAccepted(ses[s].loaded, chargedToday, ses[s].decided)
    /\ ses[s].decided <= now
    /\ now - ses[s].decided <= Lag

SerialInv ==
  /\ SerialExact
  /\ entries <= runs
  /\ \A s \in Sessions : CopyCurrent(s) /\ HitsCurrent(s) /\ ChargeStands(s)

\* A session that moves on and writes nothing keeps its copy.
LEMMA SerialMove ==
  ASSUME FlowInv, SerialInv, NEW s \in Sessions, NEW rec \in Session,
         ses' = [ses EXCEPT ![s] = rec], ses[s].at # "idle", rec.loaded = ses[s].loaded,
         UNCHANGED <<account, ledgerTotal, chargedToday, entries, invoices, now, runs, admitted>>,
         rec.at \in Holding => rec.seen.hits = invoices[rec.key].hits,
         rec.at = "commit" =>
           /\ ChargeAccepted(rec.loaded, chargedToday, rec.decided)
           /\ rec.decided <= now
           /\ now - rec.decided <= Lag
  PROVE  SerialInv'
<1>1. /\ ses'[s] = rec /\ \A r \in Sessions : r # s => ses'[r] = ses[r]
  BY OneSessionMoves DEF FlowInv
<1>2. SerialExact' /\ entries' <= runs'
  BY DEF SerialInv, SerialExact, BalanceMatchesLedger, HitCountExact
<1>3. ASSUME NEW r \in Sessions
      PROVE  CopyCurrent(r)' /\ HitsCurrent(r)' /\ ChargeStands(r)'
  <2>1. CopyCurrent(r) /\ HitsCurrent(r) /\ ChargeStands(r) /\ CopyCurrent(s)
    BY DEF SerialInv
  <2>2. CopyCurrent(r)'
    BY <1>1, <2>1 DEF CopyCurrent
  <2>3. HitsCurrent(r)'
    BY <1>1, <2>1 DEF HitsCurrent
  <2>4. ChargeStands(r)'
    BY <1>1, <2>1 DEF ChargeStands, ChargeAccepted, WithinDailyLimit, SpendAllowed,
                      LedgerAccepts, CoversPrice, StartsOverdraft
  <2> QED
    BY <2>2, <2>3, <2>4
<1> QED
  BY <1>2, <1>3 DEF SerialInv

\* The only open session ends: no copy is left to be outdated.
LEMMA SerialEnd ==
  ASSUME FlowInv, OneAtATime, NEW s \in Sessions, ses[s].at # "idle", Close(s),
         SerialExact', entries' <= runs'
  PROVE  SerialInv'
<1>1. TypeOK /\ ses' = [ses EXCEPT ![s] = Closed]
  BY DEF FlowInv, Close
<1>2. ses'[s] = Closed /\ \A r \in Sessions : r # s => ses'[r] = ses[r]
  BY <1>1, ClosedType, OneSessionMoves
<1>3. \A r \in Sessions : ses'[r].at = "idle"
  BY <1>2, ClosedType DEF OneAtATime
<1> QED
  BY <1>3 DEF SerialInv, CopyCurrent, HitsCurrent, ChargeStands, Holding

\* An open session still has its entry to write.
LEMMA RoomForEntry ==
  ASSUME FlowInv, SerialInv, NEW s \in Sessions, ses[s].at # "idle"
  PROVE  /\ ses[s].loaded = account /\ account \in AccountRow
         /\ entries \in Nat /\ runs \in Nat /\ entries < runs /\ runs <= MaxRuns
         /\ account.balance = ledgerTotal
  BY FlowAssumption DEF SerialInv, SerialExact, BalanceMatchesLedger, CopyCurrent, FlowInv, TypeOK

LEMMA SerialOpen ==
  ASSUME FlowInv, SerialInv, NEW s \in Sessions, NEW place \in {"resolve", "command", "edit"},
         NEW k \in Keys \cup {None}, Open(s, place, k)
  PROVE  SerialInv'
<1> DEFINE rec == [Closed EXCEPT !.at = place, !.key = k, !.loaded = account]
<1>1. /\ ses' = [ses EXCEPT ![s] = rec] /\ runs' = runs + 1
      /\ UNCHANGED <<account, ledgerTotal, chargedToday, entries, invoices, now, admitted>>
  BY DEF Open, ledger, history
<1>2. rec.at = place /\ rec.loaded = account
  BY ClosedType DEF Closed
<1>3. TypeOK /\ runs \in Nat /\ entries \in Nat /\ entries <= runs
  BY FlowAssumption DEF FlowInv, TypeOK, SerialInv
<1> HIDE DEF rec
<1>4. ses'[s] = rec /\ \A r \in Sessions : r # s => ses'[r] = ses[r]
  BY <1>1, <1>3 DEF TypeOK
<1>5. SerialExact' /\ entries' <= runs'
  BY <1>1, <1>3 DEF SerialInv, SerialExact, BalanceMatchesLedger, HitCountExact
<1>6. ASSUME NEW r \in Sessions
      PROVE  CopyCurrent(r)' /\ HitsCurrent(r)' /\ ChargeStands(r)'
  <2>1. CASE r = s
    BY <1>1, <1>2, <1>3, <1>4, <2>1 DEF CopyCurrent, HitsCurrent, ChargeStands, Holding
  <2>2. CASE r # s
    <3>1. ses'[r] = ses[r] /\ CopyCurrent(r) /\ HitsCurrent(r) /\ ChargeStands(r)
      BY <1>4, <2>2 DEF SerialInv
    <3>2. CopyCurrent(r)'
      BY <1>1, <1>3, <3>1 DEF CopyCurrent
    <3>3. HitsCurrent(r)' /\ ChargeStands(r)'
      BY <1>1, <3>1 DEF HitsCurrent, ChargeStands, ChargeAccepted, WithinDailyLimit,
                        SpendAllowed, LedgerAccepts, CoversPrice, StartsOverdraft
    <3> QED
      BY <3>2, <3>3
  <2> QED
    BY <2>1, <2>2
<1> QED
  BY <1>5, <1>6 DEF SerialInv

\* A free request and a charged one count one hit and one admission.
LEMMA HitAdmitted ==
  ASSUME TypeOK, HitCountExact, NEW s \in Sessions, NEW k \in Keys, k = ses[s].key, Admit(s),
         invoices' \in [Keys -> InvoiceRow], invoices'[k].hits = invoices[k].hits + 1,
         \A j \in Keys : j # k => invoices'[j] = invoices[j]
  PROVE  HitCountExact'
<1>1. /\ admitted'[k] = admitted[k] + 1
      /\ \A j \in Keys : j # k => admitted'[j] = admitted[j]
  BY AdmitEffect
<1> QED
  BY <1>1 DEF HitCountExact

\* A write from a current copy leaves the row the session computed.
LEMMA WriteBackCurrent ==
  ASSUME account \in AccountRow, NEW after \in AccountRow
  PROVE  WriteBack(account, after) = after
<1>1. WriteBack(account, after) =
        [balance |-> after.balance, overdraft_until |-> after.overdraft_until,
         extensions_used |-> after.extensions_used, daily_limit |-> after.daily_limit,
         is_active |-> after.is_active, is_unlimited |-> after.is_unlimited]
  BY DEF WriteBack, Flushed
<1> QED
  BY <1>1 DEF AccountRow

\* A write from a current copy moves the balance and the journal together.
LEMMA SerialWrite ==
  ASSUME FlowInv, SerialInv, NEW s \in Sessions, ses[s].at # "idle",
         NEW after \in AccountRow, NEW amount \in Int,
         account' = WriteBack(ses[s].loaded, after),
         after.balance = ses[s].loaded.balance + amount,
         ledgerTotal' = ledgerTotal + amount
  PROVE  account' = after /\ BalanceMatchesLedger'
<1>1. /\ ses[s].loaded = account /\ account \in AccountRow
      /\ account.balance = ledgerTotal
  BY RoomForEntry
<1>2. account' = after
  BY <1>1, WriteBackCurrent
<1> QED
  BY <1>1, <1>2 DEF BalanceMatchesLedger

LEMMA SerialCharge ==
  ASSUME FlowInv, SerialInv, OneAtATime, NEW s \in Sessions, CommitCharge(s)
  PROVE  /\ SerialInv'
         /\ account' = ChargedRow(account, ses[s].decided)
<1> DEFINE k == ses[s].key
           before == ses[s].loaded
           after == ChargedRow(before, ses[s].decided)
           amount == ChargeAmount(before)
           row == [expires |-> ses[s].started + FreeTime, charges |-> ses[s].seen.charges + 1,
                   hits |-> ses[s].seen.hits + 1]
<1>1. TypeOK /\ ses[s].at = "commit" /\ SessionInv(s) /\ HitsCurrent(s)
  BY DEF FlowInv, CommitCharge, SerialInv
<1>2. k \in Keys /\ ses[s].seen.hits = invoices[k].hits
  BY <1>1 DEF SessionInv, KeyKnown, Asking, Holding, HitsCurrent
<1>3. /\ account' = WriteBack(before, after)
      /\ ledgerTotal' = ledgerTotal + amount
      /\ entries' = IF amount = 0 THEN entries ELSE entries + 1
      /\ invoices' = [invoices EXCEPT ![k] = row]
      /\ Admit(s) /\ Close(s) /\ runs' = runs
  BY DEF CommitCharge, Journal
<1>4. before \in AccountRow /\ ses[s].decided \in Nat
      /\ ses[s].started \in Nat /\ ses[s].seen \in InvoiceRow
  BY <1>1, SessionTypes
<1>5. after \in AccountRow /\ after.balance = before.balance + amount /\ amount \in Int
  BY <1>4, ChargedRowEffect, ChargeAmountRange
<1>6. row \in InvoiceRow /\ row.hits = invoices[k].hits + 1
  BY <1>2, <1>4, FlowAssumption DEF InvoiceRow
<1>7. /\ before = account
      /\ entries \in Nat /\ runs \in Nat /\ entries < runs
  BY <1>1, RoomForEntry
<1> HIDE DEF k, before, after, amount, row
<1>8. account' = after /\ BalanceMatchesLedger'
  BY <1>1, <1>3, <1>5, SerialWrite DEF before
<1>9. HitCountExact'
  <2>1. /\ invoices' \in [Keys -> InvoiceRow] /\ invoices'[k].hits = invoices[k].hits + 1
        /\ \A j \in Keys : j # k => invoices'[j] = invoices[j]
    BY <1>1, <1>2, <1>3, <1>6 DEF TypeOK
  <2> QED
    BY <1>1, <1>2, <1>3, <2>1, HitAdmitted DEF SerialInv, SerialExact, k
<1>10. entries' <= runs'
  BY <1>3, <1>7
<1>11. SerialInv'
  BY <1>1, <1>3, <1>8, <1>9, <1>10, SerialEnd DEF SerialExact
<1> QED
  BY <1>7, <1>8, <1>11 DEF after, before

LEMMA SerialCommand ==
  ASSUME FlowInv, SerialInv, OneAtATime, NEW s \in Sessions, NEW kind \in CommandKinds,
         NEW amount \in Amounts, Command(s, kind, amount)
  PROVE  SerialInv' /\ account' = AppendEntry(account, amount)
<1> DEFINE before == ses[s].loaded
           after == AppendEntry(before, amount)
<1>1. TypeOK /\ ses[s].at = "command" /\ amount \in Int
  BY FlowAssumption DEF FlowInv, Command
<1>2. /\ account' = WriteBack(before, after)
      /\ ledgerTotal' = ledgerTotal + amount
      /\ entries' = IF amount = 0 THEN entries ELSE entries + 1
      /\ Close(s) /\ UNCHANGED <<invoices, runs, admitted>>
  BY DEF Command, Journal
<1>3. /\ before = account /\ account \in AccountRow
      /\ entries \in Nat /\ runs \in Nat /\ entries < runs
  BY <1>1, RoomForEntry
<1>4. after \in AccountRow /\ after.balance = before.balance + amount
  BY <1>1, <1>3, AppendEntryEffect
<1> HIDE DEF before, after
<1>5. account' = after /\ BalanceMatchesLedger'
  BY <1>1, <1>2, <1>4, SerialWrite DEF before
<1>6. HitCountExact' /\ entries' <= runs'
  BY <1>2, <1>3 DEF SerialInv, SerialExact, HitCountExact
<1>7. SerialInv'
  BY <1>1, <1>2, <1>5, <1>6, SerialEnd DEF SerialExact
<1> QED
  BY <1>3, <1>5, <1>7 DEF before, after

LEMMA SerialEdit ==
  ASSUME FlowInv, SerialInv, OneAtATime, NEW s \in Sessions, NEW card \in Cards,
         SaveCard(s, card)
  PROVE  SerialInv' /\ account' = EditedRow(account, card)
<1> DEFINE before == ses[s].loaded
           after == EditedRow(before, card)
<1>1. ses[s].at = "edit"
  BY DEF SaveCard
<1>2. /\ account' = WriteBack(before, after) /\ Close(s)
      /\ UNCHANGED <<ledgerTotal, entries, invoices, runs, admitted>>
  BY DEF SaveCard, ledger, history
<1>3. /\ before = account /\ account \in AccountRow /\ account.balance = ledgerTotal
      /\ entries \in Nat /\ runs \in Nat /\ entries < runs
  BY <1>1, RoomForEntry
<1>4. after \in AccountRow /\ after.balance = before.balance
  BY <1>3, FlowAssumption, EditedRowEffect
<1> HIDE DEF before, after
<1>5. account' = after
  BY <1>2, <1>3, <1>4, WriteBackCurrent
<1>6. SerialExact' /\ entries' <= runs'
  BY <1>2, <1>3, <1>4, <1>5
  DEF SerialInv, SerialExact, BalanceMatchesLedger, HitCountExact
<1>7. SerialInv'
  BY <1>1, <1>2, <1>6, SerialEnd
<1> QED
  BY <1>3, <1>5, <1>7 DEF before, after

\* The paths of a request that are let through and charge nothing.
LEMMA SerialFree ==
  ASSUME FlowInv, SerialInv, OneAtATime, NEW s \in Sessions, TouchActive(s) \/ CommitFree(s)
  PROVE  SerialInv' /\ UNCHANGED <<account, ledger, now>>
<1> DEFINE k == ses[s].key
           hits == invoices[k].hits + 1
<1>1. TypeOK /\ SessionInv(s) /\ HitsCurrent(s) /\ ses[s].at \in {"touch", "free"}
  BY DEF FlowInv, SerialInv, TouchActive, CommitFree
<1>2. k \in Keys
  BY <1>1 DEF SessionInv, KeyKnown, Asking, Holding
<1>3. invoices' = [invoices EXCEPT ![k].hits = hits]
  <2>1. CASE TouchActive(s)
    BY <1>1, <1>2, <2>1 DEF TouchActive, TypeOK
  <2>2. CASE CommitFree(s)
    BY <1>1, <2>2 DEF CommitFree, HitsCurrent, Holding
  <2> QED
    BY <2>1, <2>2
<1>4. /\ Admit(s) /\ Close(s)
      /\ UNCHANGED <<account, ledgerTotal, chargedToday, entries, now, runs>>
  BY DEF TouchActive, CommitFree, ledger
<1>5. invoices[k] \in InvoiceRow /\ hits \in Nat
  BY <1>1, <1>2, InvoiceTypes
<1> HIDE DEF k, hits
<1>6. /\ invoices' \in [Keys -> InvoiceRow] /\ invoices'[k].hits = hits
      /\ \A j \in Keys : j # k => invoices'[j] = invoices[j]
  BY <1>1, <1>2, <1>3, <1>5 DEF TypeOK, InvoiceRow
<1>7. HitCountExact'
  BY <1>1, <1>2, <1>4, <1>6, HitAdmitted DEF SerialInv, SerialExact, k, hits
<1>8. BalanceMatchesLedger' /\ entries' <= runs'
  BY <1>4 DEF SerialInv, SerialExact, BalanceMatchesLedger
<1>9. ses[s].at # "idle"
  BY <1>1
<1>10. SerialInv'
  BY <1>4, <1>7, <1>8, <1>9, SerialEnd DEF SerialExact
<1> QED
  BY <1>4, <1>10 DEF ledger

\* A session that ends without a commit.
LEMMA SerialNothing ==
  ASSUME FlowInv, SerialInv, OneAtATime, NEW s \in Sessions, Refuse(s) \/ Rollback(s)
  PROVE  SerialInv' /\ UNCHANGED <<account, ledger, now>>
<1>1. /\ Close(s) /\ ses[s].at # "idle"
      /\ UNCHANGED <<account, ledgerTotal, chargedToday, entries, invoices, now, runs, admitted>>
  BY DEF Refuse, Rollback, ledger, history
<1>2. SerialExact' /\ entries' <= runs'
  BY <1>1 DEF SerialInv, SerialExact, BalanceMatchesLedger, HitCountExact
<1> QED
  BY <1>1, <1>2, SerialEnd DEF ledger

\* The steps of a request up to its commit.
LEMMA SerialProgress ==
  ASSUME FlowInv, SerialInv, NEW s \in Sessions,
         Resolve(s) \/ TouchMiss(s) \/ LockAccount(s) \/ Decide(s)
  PROVE  SerialInv' /\ UNCHANGED <<account, ledger, now>>
<1>1. /\ UNCHANGED <<account, ledgerTotal, chargedToday, entries, invoices, now, runs, admitted>>
      /\ ses[s].at # "idle"
  BY DEF Resolve, TouchMiss, LockAccount, Decide, ledger, history
<1>2. TypeOK /\ SessionInv(s) /\ HitsCurrent(s) /\ ses[s] \in Session /\ now \in 0..MaxTime
  BY SessionTypes DEF FlowInv, SerialInv, TypeOK
<1>3. CASE Resolve(s)
  <2> DEFINE rec == [ses[s] EXCEPT !.at = "touch", !.started = now]
  <2>1. /\ rec \in Session /\ rec.at = "touch" /\ rec.loaded = ses[s].loaded
    BY <1>2 DEF Session, Places
  <2>2. ses' = [ses EXCEPT ![s] = rec]
    BY <1>3 DEF Resolve
  <2> HIDE DEF rec
  <2>3. SerialInv'
    BY <1>1, <2>1, <2>2, SerialMove DEF Holding
  <2> QED
    BY <1>1, <2>3 DEF ledger
<1>4. CASE TouchMiss(s)
  <2> DEFINE rec == [ses[s] EXCEPT !.at = "wait"]
  <2>1. /\ rec \in Session /\ rec.at = "wait" /\ rec.loaded = ses[s].loaded
    BY <1>2 DEF Session, Places
  <2>2. ses' = [ses EXCEPT ![s] = rec]
    BY <1>4 DEF TouchMiss
  <2> HIDE DEF rec
  <2>3. SerialInv'
    BY <1>1, <2>1, <2>2, SerialMove DEF Holding
  <2> QED
    BY <1>1, <2>3 DEF ledger
<1>5. CASE LockAccount(s)
  <2> DEFINE k == ses[s].key
             place == IF ses[s].started < invoices[k].expires THEN "free" ELSE "charge"
             rec == [ses[s] EXCEPT !.seen = invoices[k], !.at = place]
  <2>1. k \in Keys
    BY <1>2, <1>5 DEF LockAccount, SessionInv, KeyKnown, Asking
  <2>2. invoices[k] \in InvoiceRow
    BY <1>2, <2>1, InvoiceTypes
  <2>3. place \in {"free", "charge"}
    OBVIOUS
  <2> HIDE DEF place
  <2>4. /\ rec \in Session /\ rec.at = place /\ rec.loaded = ses[s].loaded
        /\ rec.key = k /\ rec.seen = invoices[k]
    BY <1>2, <2>2, <2>3 DEF Session, Places
  <2>5. ses' = [ses EXCEPT ![s] = rec]
    BY <1>5 DEF LockAccount, place
  <2> HIDE DEF rec
  <2>6. SerialInv'
    BY <1>1, <2>3, <2>4, <2>5, SerialMove
  <2> QED
    BY <1>1, <2>6 DEF ledger
<1>6. CASE Decide(s)
  <2> DEFINE rec == [ses[s] EXCEPT !.at = "commit", !.decided = now]
  <2>1. /\ rec \in Session /\ rec.at = "commit" /\ rec.loaded = ses[s].loaded
        /\ rec.key = ses[s].key /\ rec.seen = ses[s].seen /\ rec.decided = now
    BY <1>2 DEF Session, Places
  <2>2. ses' = [ses EXCEPT ![s] = rec] /\ ChargeAccepted(ses[s].loaded, chargedToday, now)
    BY <1>6 DEF Decide
  <2>3. ses[s].seen.hits = invoices[ses[s].key].hits
    BY <1>2, <1>6 DEF Decide, HitsCurrent, Holding
  <2>4. now <= now /\ now - now <= Lag
    BY <1>2, FlowAssumption
  <2> HIDE DEF rec
  <2>5. SerialInv'
    BY <1>1, <2>1, <2>2, <2>3, <2>4, SerialMove
  <2> QED
    BY <1>1, <2>5 DEF ledger
<1> QED
  BY <1>3, <1>4, <1>5, <1>6

\* Midnight takes no charge back that was accepted before it.
LEMMA StillAccepted ==
  ASSUME NEW row \in AccountRow, NEW spent \in Nat, NEW less \in Nat, less <= spent, NEW t,
         ChargeAccepted(row, spent, t)
  PROVE  ChargeAccepted(row, less, t)
<1>1. Price \in Nat /\ row.daily_limit \in Nat \cup {None}
  BY RulesAssumption DEF AccountRow, Limit
<1>2. WithinDailyLimit(row, spent) => WithinDailyLimit(row, less)
  <2> HAVE WithinDailyLimit(row, spent)
  <2> SUFFICES ASSUME row.daily_limit # None PROVE less + Price <= row.daily_limit
    BY DEF WithinDailyLimit
  <2> QED
    BY <1>1 DEF WithinDailyLimit
<1> QED
  BY <1>2 DEF ChargeAccepted

LEMMA SerialTick == ASSUME FlowInv, SerialInv, Tick PROVE SerialInv'
<1>1. /\ UNCHANGED <<account, ledgerTotal, entries, invoices, ses, runs, admitted>>
      /\ now' = now + 1
      /\ \A s \in Sessions : ses[s].at = "commit" => now + 1 - ses[s].decided <= Lag
  BY DEF Tick, history
<1>2. TypeOK /\ now \in Nat /\ chargedToday \in Nat
  BY FlowAssumption DEF FlowInv, TypeOK
<1>3. chargedToday' \in Nat /\ chargedToday' <= chargedToday
  BY <1>2 DEF Tick
<1>4. SerialExact' /\ entries' <= runs'
  BY <1>1 DEF SerialInv, SerialExact, BalanceMatchesLedger, HitCountExact
<1>5. ASSUME NEW s \in Sessions
      PROVE  CopyCurrent(s)' /\ HitsCurrent(s)' /\ ChargeStands(s)'
  <2>1. CopyCurrent(s) /\ HitsCurrent(s) /\ ChargeStands(s)
    BY DEF SerialInv
  <2>2. CopyCurrent(s)' /\ HitsCurrent(s)'
    BY <1>1, <2>1 DEF CopyCurrent, HitsCurrent
  <2>3. ChargeStands(s)'
    <3>1. SUFFICES ASSUME ses'[s].at = "commit"
                   PROVE  /\ ChargeAccepted(ses'[s].loaded, chargedToday', ses'[s].decided)
                          /\ ses'[s].decided <= now'
                          /\ now' - ses'[s].decided <= Lag
      BY DEF ChargeStands, ChargeAccepted, WithinDailyLimit, SpendAllowed, LedgerAccepts,
             CoversPrice, StartsOverdraft
    <3>2. ses[s].loaded \in AccountRow /\ ses[s].decided \in Nat
      BY <1>2, SessionTypes
    <3>3. /\ ChargeAccepted(ses[s].loaded, chargedToday, ses[s].decided)
          /\ ses[s].decided <= now
      BY <1>1, <2>1, <3>1 DEF ChargeStands
    <3>4. ChargeAccepted(ses[s].loaded, chargedToday', ses[s].decided)
      BY <1>2, <1>3, <3>2, <3>3, StillAccepted
    <3> QED
      BY <1>1, <1>2, <3>1, <3>2, <3>3, <3>4
  <2> QED
    BY <2>2, <2>3
<1> QED
  BY <1>4, <1>5 DEF SerialInv

LEMMA SerialInit == Init => SerialInv
<1> SUFFICES ASSUME Init PROVE SerialInv
  OBVIOUS
<1>1. \A s \in Sessions : ses[s].at = "idle"
  BY ClosedType DEF Init
<1>2. SerialExact
  BY DEF Init, SerialExact, BalanceMatchesLedger, HitCountExact, NewAccount, NoInvoice
<1>3. entries <= runs
  BY DEF Init
<1> QED
  BY <1>1, <1>2, <1>3 DEF SerialInv, CopyCurrent, HitsCurrent, ChargeStands, Holding

LEMMA SerialStay == ASSUME SerialInv, UNCHANGED vars PROVE SerialInv'
<1>1. UNCHANGED <<account, ledgerTotal, chargedToday, entries, invoices, now, ses, runs, admitted>>
  BY DEF vars, ledger, history
<1>2. SerialExact' /\ entries' <= runs'
  BY <1>1 DEF SerialInv, SerialExact, BalanceMatchesLedger, HitCountExact
<1>3. ASSUME NEW s \in Sessions
      PROVE  CopyCurrent(s)' /\ HitsCurrent(s)' /\ ChargeStands(s)'
  BY <1>1 DEF SerialInv, CopyCurrent, HitsCurrent, ChargeStands, ChargeAccepted,
              WithinDailyLimit, SpendAllowed, LedgerAccepts, CoversPrice, StartsOverdraft
<1> QED
  BY <1>2, <1>3 DEF SerialInv

LEMMA SerialStep == FlowInv /\ SerialInv /\ OneAtATime /\ [Next]_vars => SerialInv'
<1> SUFFICES ASSUME FlowInv, SerialInv, OneAtATime, [Next]_vars PROVE SerialInv'
  OBVIOUS
<1>1. ASSUME NEW s \in Sessions,
             (\E k \in Keys : Authenticate(s, k)) \/ OpenCommand(s) \/ OpenEdit(s)
      PROVE  SerialInv'
  BY <1>1, SerialOpen DEF Authenticate, OpenCommand, OpenEdit
<1>2. ASSUME NEW s \in Sessions, Proceed(s) PROVE SerialInv'
  BY <1>2, SerialProgress, SerialFree, SerialNothing, SerialCharge, SerialCommand, SerialEdit
  DEF Proceed
<1>3. CASE Finished \/ UNCHANGED vars
  BY <1>3, SerialStay DEF Finished
<1> QED
  BY <1>1, <1>2, <1>3, SerialNothing, SerialTick DEF Next

\* As long as no two sessions are open at once, the cached balance is the sum
\* of the journal and the hit counter is the number of requests let through:
\* what the comments promise is true of requests that do not meet.
THEOREM SerialCorrect == Spec /\ []OneAtATime => []SerialExact
<1>1. SerialInv => SerialExact
  BY DEF SerialInv
<1> QED
  BY <1>1, InitInv, StepInv, SerialInit, SerialStep, PTL DEF Spec

---------------------------------------------------------------------------
(* The refinement *)

\* The steps between FOR UPDATE and the commit are silent in Billing; the
\* commit is its transaction.
LEMMA SerialRefines ==
  FlowInv /\ SerialInv /\ OneAtATime /\ [Next]_vars => [Serial!Next]_(Serial!vars)
<1> SUFFICES ASSUME FlowInv, SerialInv, OneAtATime, [Next]_vars
             PROVE  [Serial!Next]_(Serial!vars)
  OBVIOUS
<1>0. TypeOK
  BY DEF FlowInv
<1>1. UNCHANGED <<account, ledger, now>> => [Serial!Next]_(Serial!vars)
  BY DEF Serial!vars, Serial!ledger, ledger
<1>2. ASSUME NEW s \in Sessions, CommitCharge(s) PROVE Serial!Next
  <2> DEFINE t == ses[s].decided
  <2>1. /\ ses[s].loaded = account /\ entries < MaxRuns
    <3>1. ses[s].at # "idle"
      BY <1>2 DEF CommitCharge
    <3> QED
      BY <3>1, RoomForEntry, FlowAssumption
  <2>2. /\ ChargeAccepted(account, chargedToday, t) /\ t <= now /\ now - t <= Lag
    BY <1>2, <2>1 DEF CommitCharge, SerialInv, ChargeStands
  <2>3. t \in Nat /\ now \in Nat
    BY <1>0, SessionTypes, FlowAssumption DEF TypeOK
  <2>4. t \in Serial!DecisionTimes
    BY <2>2, <2>3 DEF Serial!DecisionTimes
  <2>5. Serial!ChargeAccepted(account, chargedToday, t)
    BY <2>2
    DEF ChargeAccepted, WithinDailyLimit, SpendAllowed, LedgerAccepts, CoversPrice,
        StartsOverdraft, Serial!ChargeAccepted, Serial!WithinDailyLimit, Serial!SpendAllowed,
        Serial!LedgerAccepts, Serial!CoversPrice, Serial!StartsOverdraft
  <2>6. account' = Serial!ChargedRow(account, t)
    <3>1. account' = ChargedRow(account, t)
      BY <1>2, SerialCharge
    <3> QED
      BY <3>1
      DEF ChargedRow, AppendEntry, OpenOverdraft, StartsOverdraft, CoversPrice,
          Serial!ChargedRow, Serial!AppendEntry, Serial!OpenOverdraft, Serial!StartsOverdraft,
          Serial!CoversPrice
  <2>7. Serial!Journal(Serial!ChargeAmount(account), TRUE) /\ UNCHANGED now
    BY <1>2, <2>1
    DEF CommitCharge, Journal, ChargeAmount, Serial!Journal, Serial!ChargeAmount
  <2> HIDE DEF t
  <2>8. Serial!Charge(t)
    BY <2>1, <2>5, <2>6, <2>7 DEF Serial!Charge
  <2> QED
    BY <2>4, <2>8 DEF Serial!Next
<1>3. ASSUME NEW s \in Sessions, NEW kind \in CommandKinds, NEW amount \in Amounts,
             Command(s, kind, amount)
      PROVE  Serial!Next
  <2>1. entries < MaxRuns
    <3>1. ses[s].at # "idle"
      BY <1>3 DEF Command
    <3> QED
      BY <3>1, RoomForEntry, FlowAssumption
  <2>2. account' = Serial!AppendEntry(account, amount)
    BY <1>3, SerialCommand DEF AppendEntry, Serial!AppendEntry
  <2>3. /\ Serial!CommandAccepted(kind, amount) /\ Serial!Journal(amount, FALSE)
        /\ UNCHANGED now
    BY <1>3
    DEF Command, CommandAccepted, LedgerAccepts, Journal, Serial!CommandAccepted,
        Serial!LedgerAccepts, Serial!Journal
  <2>4. Serial!Command(kind, amount)
    BY <2>1, <2>2, <2>3 DEF Serial!Command
  <2>5. kind \in Serial!CommandKinds
    BY DEF CommandKinds, Serial!CommandKinds
  <2> QED
    BY <2>4, <2>5 DEF Serial!Next
<1>4. ASSUME NEW s \in Sessions, NEW card \in Cards, SaveCard(s, card) PROVE Serial!Next
  <2>1. account' = Serial!EditedRow(account, card)
    BY <1>4, SerialEdit DEF EditedRow, Serial!EditedRow
  <2>2. Serial!EditAccount(card)
    BY <1>4, <2>1 DEF SaveCard, ledger, Serial!EditAccount, Serial!ledger
  <2> QED
    BY <2>2 DEF Serial!Next
<1>5. CASE Tick
  <2>1. Serial!Tick
    BY <1>5 DEF Tick, StartsNewDay, Serial!Tick, Serial!StartsNewDay
  <2> QED
    BY <2>1 DEF Serial!Next
<1>6. ASSUME NEW s \in Sessions,
             (\E k \in Keys : Authenticate(s, k)) \/ OpenCommand(s) \/ OpenEdit(s)
      PROVE  UNCHANGED <<account, ledger, now>>
  BY <1>6 DEF Authenticate, OpenCommand, OpenEdit, Open
<1>7. CASE Finished \/ UNCHANGED vars
  BY <1>1, <1>7 DEF Finished, vars
<1> QED
  BY <1>1, <1>2, <1>3, <1>4, <1>5, <1>6, <1>7, SerialProgress, SerialFree, SerialNothing
  DEF Next, Proceed

\* Sessions that do not meet implement the serial account: every commit is
\* one of its transactions, on the row the one before it left, decided within
\* the lag; everything else leaves the account alone.
THEOREM SerialImplemented == Spec /\ []OneAtATime => SerialSpec
<1>1. Init => Serial!Init
  BY DEF Init, NewAccount, Serial!Init, Serial!NewAccount
<1> QED
  BY <1>1, InitInv, StepInv, SerialInit, SerialStep, SerialRefines, PTL
  DEF Spec, SerialSpec, Serial!Spec

\* With a single session the condition is met by itself.
THEOREM OneSessionSerial ==
  ASSUME \A r, s \in Sessions : r = s
  PROVE  Spec => []SerialExact /\ SerialSpec
<1>1. OneAtATime
  BY DEF OneAtATime
<1> QED
  BY <1>1, SerialCorrect, SerialImplemented, PTL
=============================================================================
