--------------------------- MODULE BillingProofs ---------------------------
(***************************************************************************)
(* What holds of a serialised account for every price, every period and    *)
(* every amount: the type of the row, the cached balance, the shape of an  *)
(* overdraft episode and the daily limit.                                  *)
(***************************************************************************)
EXTENDS BillingAudit, BillingRulesProofs

---------------------------------------------------------------------------
(* The serialised account *)

LEMMA InitType == Init => TypeOK /\ BalanceMatchesLedger /\ OverdraftOnlyInDebt
<1> SUFFICES ASSUME Init PROVE TypeOK /\ BalanceMatchesLedger /\ OverdraftOnlyInDebt
  OBVIOUS
<1>1. PICK card \in Cards : account = NewAccount(card.daily_limit, card.is_unlimited)
  BY DEF Init
<1>2. card.daily_limit \in Limit /\ card.is_unlimited \in BOOLEAN
  BY BillingAssumption
<1>3. account \in AccountRow
  BY <1>1, <1>2 DEF NewAccount, AccountRow
<1>4. account.balance = 0 /\ account.overdraft_until = None /\ account.extensions_used = 0
  BY <1>1 DEF NewAccount
<1> QED
  BY <1>3, <1>4, BillingAssumption
  DEF Init, TypeOK, BalanceMatchesLedger, OverdraftOnlyInDebt

SerialInv == TypeOK /\ BalanceMatchesLedger /\ OverdraftOnlyInDebt

LEMMA StepSerial == SerialInv /\ [Next]_vars => SerialInv'
<1> SUFFICES ASSUME SerialInv, [Next]_vars PROVE SerialInv'
  OBVIOUS
<1> USE DEF SerialInv
<1>0. /\ account \in AccountRow /\ ledgerTotal \in Int /\ chargedToday \in Nat
      /\ entries \in 0..MaxEntries /\ now \in 0..MaxTime
      /\ MaxEntries \in Nat /\ MaxTime \in Nat
  BY BillingAssumption DEF TypeOK
<1>1. ASSUME NEW t \in DecisionTimes, Charge(t) PROVE SerialInv'
  <2>1. t \in Nat
    BY DEF DecisionTimes
  <2> DEFINE amount == ChargeAmount(account)
             new == ChargedRow(account, t)
  <2>2. /\ account' = new /\ ledgerTotal' = ledgerTotal + amount
        /\ chargedToday' = chargedToday - amount
        /\ entries' = IF amount = 0 THEN entries ELSE entries + 1
        /\ entries < MaxEntries /\ now' = now
    BY <1>1 DEF Charge, Journal
  <2>3. amount \in Int /\ 0 - amount \in Nat
    BY <1>0, ChargeAmountRange
  <2>4. /\ new \in AccountRow /\ new.balance = account.balance + amount
        /\ account.is_unlimited => new = account
        /\ ~account.is_unlimited /\ new.balance >= 0 =>
             new.overdraft_until = None /\ new.extensions_used = 0
        /\ ~account.is_unlimited /\ new.balance < 0 /\ account.overdraft_until # None =>
             new.overdraft_until = account.overdraft_until
        /\ ~account.is_unlimited /\ new.balance < 0 /\ account.overdraft_until = None =>
             new.overdraft_until = t + OverdraftTime /\ new.extensions_used = 0
    BY <1>0, <2>1, ChargedRowEffect
  <2> HIDE DEF amount, new
  <2>5. TypeOK'
    BY <1>0, <2>2, <2>3, <2>4 DEF TypeOK
  <2>6. BalanceMatchesLedger'
    BY <2>2, <2>4 DEF BalanceMatchesLedger
  <2>7. new.balance \in Int /\ new.extensions_used \in Nat
    BY <2>4 DEF AccountRow
  <2>8. OverdraftOnlyInDebt'
    BY <2>2, <2>4, <2>7 DEF OverdraftOnlyInDebt
  <2> QED
    BY <2>5, <2>6, <2>8
<1>2. ASSUME NEW kind \in CommandKinds, NEW amount \in Amounts, Command(kind, amount)
      PROVE SerialInv'
  <2>1. amount \in Int
    BY BillingAssumption
  <2> DEFINE new == AppendEntry(account, amount)
  <2>2. /\ account' = new /\ ledgerTotal' = ledgerTotal + amount
        /\ chargedToday' = chargedToday
        /\ entries' = IF amount = 0 THEN entries ELSE entries + 1
        /\ entries < MaxEntries /\ now' = now
    BY <1>2 DEF Command, Journal
  <2>3. /\ new \in AccountRow /\ new.balance = account.balance + amount
        /\ new.balance >= 0 => new.overdraft_until = None /\ new.extensions_used = 0
        /\ new.balance < 0 => /\ new.overdraft_until = account.overdraft_until
                              /\ new.extensions_used = account.extensions_used
    BY <1>0, <2>1, AppendEntryEffect
  <2> HIDE DEF new
  <2>4. TypeOK'
    BY <1>0, <2>1, <2>2, <2>3 DEF TypeOK
  <2>5. BalanceMatchesLedger'
    BY <2>2, <2>3 DEF BalanceMatchesLedger
  <2>6. new.balance \in Int
    BY <2>3 DEF AccountRow
  <2>7. OverdraftOnlyInDebt'
    BY <2>2, <2>3, <2>6 DEF OverdraftOnlyInDebt
  <2> QED
    BY <2>4, <2>5, <2>7
<1>3. CASE ExtendOverdraft
  <2> DEFINE new == ExtendedRow(account)
  <2>1. /\ account' = new
        /\ UNCHANGED <<ledgerTotal, chargedToday, entries, now>>
        /\ ExtensionAllowed(account)
    BY <1>3 DEF ExtendOverdraft, ledger
  <2>2. /\ new \in AccountRow /\ new.balance = account.balance
        /\ account.overdraft_until # None
        /\ new.overdraft_until # None
    <3>1. /\ new \in AccountRow /\ new.balance = account.balance
          /\ account.overdraft_until \in Nat
          /\ new.overdraft_until = account.overdraft_until + ExtensionTime
      BY <1>0, <2>1, ExtendedRowEffect
    <3> QED
      BY <3>1, RulesAssumption
  <2> HIDE DEF new
  <2> QED
    BY <1>0, <2>1, <2>2 DEF TypeOK, BalanceMatchesLedger, OverdraftOnlyInDebt
<1>4. ASSUME NEW card \in Cards, EditAccount(card) PROVE SerialInv'
  <2> DEFINE new == EditedRow(account, card)
  <2>1. account' = new /\ UNCHANGED <<ledgerTotal, chargedToday, entries, now>>
    BY <1>4 DEF EditAccount, ledger
  <2>2. /\ new \in AccountRow /\ new.balance = account.balance
        /\ new.overdraft_until = account.overdraft_until
        /\ new.extensions_used = account.extensions_used
    BY <1>0, BillingAssumption, EditedRowEffect
  <2> HIDE DEF new
  <2> QED
    BY <1>0, <2>1, <2>2 DEF TypeOK, BalanceMatchesLedger, OverdraftOnlyInDebt
<1>5. CASE Tick
  <2>1. /\ now < MaxTime /\ now' = now + 1 /\ chargedToday' \in Nat
        /\ UNCHANGED <<account, ledgerTotal, entries>>
    BY <1>0, <1>5 DEF Tick
  <2> QED
    BY <1>0, <2>1 DEF TypeOK, BalanceMatchesLedger, OverdraftOnlyInDebt
<1>6. CASE UNCHANGED vars
  BY <1>6 DEF vars, ledger, TypeOK, BalanceMatchesLedger, OverdraftOnlyInDebt
<1> QED
  BY <1>1, <1>2, <1>3, <1>4, <1>5, <1>6 DEF Next

\* The row, the journal sums and the clock stay in their types.
THEOREM TypeCorrect == Spec => []TypeOK
<1>1. Init => SerialInv
  BY InitType DEF SerialInv
<1>2. SerialInv => TypeOK
  BY DEF SerialInv
<1> QED
  BY <1>1, <1>2, StepSerial, PTL DEF Spec

\* On a serialised account the cached balance is the sum of the journal.
THEOREM BalanceCorrect == Spec => []BalanceMatchesLedger
<1>1. Init => SerialInv
  BY InitType DEF SerialInv
<1>2. SerialInv => BalanceMatchesLedger
  BY DEF SerialInv
<1> QED
  BY <1>1, <1>2, StepSerial, PTL DEF Spec

\* A deadline and a used extension exist only while the account is in debt.
THEOREM OverdraftCorrect == Spec => []OverdraftOnlyInDebt
<1>1. Init => SerialInv
  BY InitType DEF SerialInv
<1>2. SerialInv => OverdraftOnlyInDebt
  BY DEF SerialInv
<1> QED
  BY <1>1, <1>2, StepSerial, PTL DEF Spec

---------------------------------------------------------------------------
(* The auditor's view *)

\* The cap the auditor remembers is at least the limit in force.
CapCoversLimit ==
  dayCap # None => account.daily_limit # None /\ account.daily_limit <= dayCap

AuditInv ==
  /\ SerialInv
  /\ episodeStart \in 0..MaxTime
  /\ decidedAt \in 0..MaxTime
  /\ dayCap \in Limit
  /\ EpisodeDeadline
  /\ DayCapHolds
  /\ CapCoversLimit

\* One more extension moves the last deadline by the extension time.
LEMMA LastDeadlineStep ==
  ASSUME NEW t \in Nat, NEW e \in Nat
  PROVE  LastDeadline(t, e + 1) = LastDeadline(t, e) + ExtensionTime
  BY RulesAssumption DEF LastDeadline

\* More extensions never move the last deadline back.
LEMMA LastDeadlineMonotone ==
  ASSUME NEW t \in Nat, NEW e \in Nat, NEW f \in Nat, e <= f
  PROVE  LastDeadline(t, e) <= LastDeadline(t, f)
<1> DEFINE d == f - e
<1>1. d \in Nat /\ f = e + d
  OBVIOUS
<1> HIDE DEF d
<1>2. d * ExtensionTime \in Nat /\ e * ExtensionTime \in Nat
  BY <1>1, RulesAssumption
<1>3. f * ExtensionTime = e * ExtensionTime + d * ExtensionTime
  BY <1>1, RulesAssumption
<1> QED
  BY <1>2, <1>3, RulesAssumption DEF LastDeadline

\* A charge is decided no earlier than time 0 and no later than now.
LEMMA DecisionTimesRange ==
  ASSUME now \in 0..MaxTime, NEW t \in DecisionTimes
  PROVE  t \in 0..MaxTime /\ t \in Nat
  BY BillingAssumption DEF DecisionTimes

LEMMA AuditStepIsStep == [AuditNext]_auditVars => [Next]_vars
<1> SUFFICES ASSUME [AuditNext]_auditVars PROVE [Next]_vars
  OBVIOUS
<1>1. ASSUME NEW t \in DecisionTimes, AuditCharge(t) PROVE Next
  BY <1>1 DEF AuditCharge, Next
<1>2. ASSUME NEW card \in Cards, AuditEdit(card) PROVE Next
  BY <1>2 DEF AuditEdit, Next
<1>3. CASE AuditTick
  BY <1>3 DEF AuditTick, Next
<1>4. CASE AuditOther
  BY <1>4 DEF AuditOther, Next
<1>5. CASE UNCHANGED auditVars
  BY <1>5 DEF auditVars, vars
<1> QED
  BY <1>1, <1>2, <1>3, <1>4, <1>5 DEF AuditNext

LEMMA AuditInitInv == AuditInit => AuditInv
<1> SUFFICES ASSUME AuditInit PROVE AuditInv
  OBVIOUS
<1>1. Init /\ SerialInv
  BY InitType DEF AuditInit, SerialInv
<1>2. account.overdraft_until = None /\ account.daily_limit \in Limit
  <2>1. PICK card \in Cards : account = NewAccount(card.daily_limit, card.is_unlimited)
    BY <1>1 DEF Init
  <2>2. card.daily_limit \in Limit
    BY BillingAssumption
  <2> QED
    BY <2>1, <2>2 DEF NewAccount
<1>3. chargedToday = 0 /\ episodeStart = 0 /\ decidedAt = 0 /\ dayCap = account.daily_limit
  BY DEF AuditInit, Init
<1>4. EpisodeDeadline
  BY <1>2 DEF EpisodeDeadline
<1>5. dayCap # None => dayCap \in Nat
  BY <1>2, <1>3 DEF Limit
<1>6. DayCapHolds /\ CapCoversLimit
  BY <1>3, <1>5 DEF DayCapHolds, CapCoversLimit
<1> QED
  BY <1>1, <1>2, <1>3, <1>4, <1>6, BillingAssumption DEF AuditInv

LEMMA AuditStepInv == AuditInv /\ [AuditNext]_auditVars => AuditInv'
<1> SUFFICES ASSUME AuditInv, [AuditNext]_auditVars PROVE AuditInv'
  OBVIOUS
<1>1. SerialInv'
  BY AuditStepIsStep, StepSerial DEF AuditInv
<1>2. /\ account \in AccountRow /\ chargedToday \in Nat /\ now \in 0..MaxTime
      /\ episodeStart \in 0..MaxTime /\ decidedAt \in 0..MaxTime /\ dayCap \in Limit
  BY DEF AuditInv, SerialInv, TypeOK
<1>3. /\ account.daily_limit \in Limit
      /\ account.extensions_used \in Nat
      /\ account.balance \in Int
      /\ account.overdraft_until # None => account.overdraft_until \in Nat
  BY <1>2 DEF AccountRow
<1>4. episodeStart \in Nat
  BY <1>2
<1>5. ASSUME NEW t \in DecisionTimes, AuditCharge(t) PROVE AuditInv'
  <2> DEFINE amount == ChargeAmount(account)
             new == ChargedRow(account, t)
  <2>1. t \in 0..MaxTime /\ t \in Nat
    BY <1>2, DecisionTimesRange
  <2>2. /\ account' = new /\ chargedToday' = chargedToday - amount
        /\ ChargeAccepted(account, chargedToday, t)
        /\ decidedAt' = t /\ dayCap' = dayCap
        /\ episodeStart' = IF account.overdraft_until = None /\ new.overdraft_until # None
                           THEN t ELSE episodeStart
    BY <1>5 DEF AuditCharge, Charge, Journal
  <2>3. /\ new \in AccountRow /\ new.daily_limit = account.daily_limit
        /\ account.is_unlimited => new = account
        /\ ~account.is_unlimited /\ new.balance >= 0 => new.overdraft_until = None
        /\ ~account.is_unlimited /\ new.balance < 0 /\ account.overdraft_until # None =>
             /\ new.overdraft_until = account.overdraft_until
             /\ new.extensions_used = account.extensions_used
        /\ ~account.is_unlimited /\ new.balance < 0 /\ account.overdraft_until = None =>
             new.overdraft_until = t + OverdraftTime /\ new.extensions_used = 0
    BY <1>2, <2>1, ChargedRowEffect
  <2>9. new.balance \in Int
    BY <2>3 DEF AccountRow
  <2>4. /\ amount \in Int
        /\ amount # 0 => ~account.is_unlimited /\ amount = -Price
    BY <1>2, ChargeAmountRange
  <2> HIDE DEF amount, new
  <2>5. EpisodeDeadline'
    <3> SUFFICES ASSUME new.overdraft_until # None
                 PROVE  /\ new.extensions_used <= MaxExtensions
                        /\ new.overdraft_until = LastDeadline(episodeStart', new.extensions_used)
      BY <2>2 DEF EpisodeDeadline, LastDeadline
    <3>1. CASE account.overdraft_until # None
      <4>1. /\ new.overdraft_until = account.overdraft_until
            /\ new.extensions_used = account.extensions_used
        BY <2>3, <2>9, <3>1
      <4>2. episodeStart' = episodeStart
        BY <2>2, <3>1
      <4> QED
        BY <3>1, <4>1, <4>2 DEF AuditInv, EpisodeDeadline
    <3>2. CASE account.overdraft_until = None
      <4>1. new.overdraft_until = t + OverdraftTime /\ new.extensions_used = 0
        BY <2>3, <2>9, <3>2
      <4>2. episodeStart' = t
        BY <2>2, <3>2
      <4> QED
        BY <2>1, <4>1, <4>2, RulesAssumption DEF LastDeadline
    <3> QED
      BY <3>1, <3>2
  <2>6. DayCapHolds'
    <3> SUFFICES ASSUME dayCap # None PROVE chargedToday - amount <= dayCap
      BY <2>2 DEF DayCapHolds
    <3>1. /\ dayCap \in Nat /\ chargedToday <= dayCap
          /\ account.daily_limit \in Nat /\ account.daily_limit <= dayCap
      BY <1>2, <1>3, RulesAssumption DEF AuditInv, DayCapHolds, CapCoversLimit, Limit
    <3>2. CASE amount = 0
      BY <1>2, <3>1, <3>2
    <3>3. CASE amount # 0
      <4>1. chargedToday + Price <= account.daily_limit
        BY <2>2, <2>4, <3>1, <3>3, RulesAssumption DEF ChargeAccepted, WithinDailyLimit
      <4> QED
        BY <1>2, <2>4, <3>1, <3>3, <4>1, RulesAssumption
    <3> QED
      BY <3>2, <3>3
  <2>7. CapCoversLimit'
    BY <2>2, <2>3 DEF AuditInv, CapCoversLimit
  <2>8. episodeStart' \in 0..MaxTime
    BY <1>2, <2>1, <2>2
  <2> QED
    BY <1>1, <1>2, <2>1, <2>2, <2>5, <2>6, <2>7, <2>8 DEF AuditInv
<1>6. ASSUME NEW card \in Cards, AuditEdit(card) PROVE AuditInv'
  <2> DEFINE new == EditedRow(account, card)
  <2>1. /\ account' = new /\ chargedToday' = chargedToday
        /\ dayCap' = LooserLimit(dayCap, card.daily_limit)
        /\ UNCHANGED <<episodeStart, decidedAt>>
    BY <1>6 DEF AuditEdit, EditAccount, ledger
  <2>2. /\ new.daily_limit = card.daily_limit /\ card.daily_limit \in Limit
        /\ new.overdraft_until = account.overdraft_until
        /\ new.extensions_used = account.extensions_used
    BY <1>2, BillingAssumption, EditedRowEffect
  <2> HIDE DEF new
  <2>3. EpisodeDeadline'
    BY <2>1, <2>2 DEF AuditInv, EpisodeDeadline, LastDeadline
  <2>4. dayCap' \in Limit
    BY <1>2, <2>1, <2>2 DEF LooserLimit
  <2>5. DayCapHolds' /\ CapCoversLimit'
    <3> SUFFICES ASSUME dayCap' # None
                 PROVE  /\ chargedToday <= dayCap'
                        /\ card.daily_limit # None /\ card.daily_limit <= dayCap'
      BY <2>1, <2>2 DEF DayCapHolds, CapCoversLimit
    <3>1. dayCap # None /\ card.daily_limit # None
      BY <2>1 DEF LooserLimit
    <3>2. dayCap \in Nat /\ card.daily_limit \in Nat /\ chargedToday <= dayCap
      BY <1>2, <2>2, <3>1 DEF Limit, AuditInv, DayCapHolds
    <3>3. dayCap' = IF dayCap >= card.daily_limit THEN dayCap ELSE card.daily_limit
      BY <2>1, <3>1 DEF LooserLimit
    <3> QED
      BY <1>2, <3>1, <3>2, <3>3
  <2> QED
    BY <1>1, <1>2, <2>1, <2>3, <2>4, <2>5 DEF AuditInv
<1>7. CASE AuditTick
  <2>1. /\ account' = account /\ UNCHANGED <<episodeStart, decidedAt>>
        /\ \/ chargedToday' = 0 /\ dayCap' = account.daily_limit
           \/ chargedToday' = chargedToday /\ dayCap' = dayCap
    BY <1>7 DEF AuditTick, Tick
  <2>2. EpisodeDeadline'
    BY <2>1 DEF AuditInv, EpisodeDeadline, LastDeadline
  <2>3. account.daily_limit # None => account.daily_limit \in Nat
    BY <1>3 DEF Limit
  <2>4. DayCapHolds' /\ CapCoversLimit' /\ dayCap' \in Limit
    BY <1>2, <1>3, <2>1, <2>3 DEF AuditInv, DayCapHolds, CapCoversLimit
  <2> QED
    BY <1>1, <1>2, <2>1, <2>2, <2>4 DEF AuditInv
<1>8. CASE AuditOther
  <2>1. UNCHANGED <<episodeStart, decidedAt, dayCap>>
    BY <1>8 DEF AuditOther
  <2>2. ASSUME NEW kind \in CommandKinds, NEW amount \in Amounts, Command(kind, amount)
        PROVE  AuditInv'
    <3> DEFINE new == AppendEntry(account, amount)
    <3>1. account' = new /\ chargedToday' = chargedToday
      BY <2>2 DEF Command, Journal
    <3>2. amount \in Int
      BY BillingAssumption
    <3>3. /\ new.balance \in Int
          /\ new.balance >= 0 => new.overdraft_until = None
          /\ new.balance < 0 => /\ new.overdraft_until = account.overdraft_until
                                /\ new.extensions_used = account.extensions_used
          /\ new.daily_limit = account.daily_limit
      BY <1>2, <3>2, AppendEntryEffect DEF AccountRow
    <3> HIDE DEF new
    <3>4. EpisodeDeadline'
      <4>1. CASE new.balance >= 0
        BY <3>1, <3>3, <4>1 DEF EpisodeDeadline
      <4>2. CASE new.balance < 0
        BY <2>1, <3>1, <3>3, <4>2 DEF AuditInv, EpisodeDeadline, LastDeadline
      <4> QED
        BY <3>3, <4>1, <4>2
    <3> QED
      BY <1>1, <1>2, <2>1, <3>1, <3>3, <3>4 DEF AuditInv, DayCapHolds, CapCoversLimit
  <2>3. CASE ExtendOverdraft
    <3> DEFINE new == ExtendedRow(account)
    <3>1. /\ account' = new /\ chargedToday' = chargedToday
          /\ ExtensionAllowed(account)
      BY <2>3 DEF ExtendOverdraft, ledger
    <3>2. /\ new.daily_limit = account.daily_limit
          /\ new.overdraft_until = account.overdraft_until + ExtensionTime
          /\ new.extensions_used = account.extensions_used + 1
          /\ account.overdraft_until \in Nat
          /\ account.extensions_used < MaxExtensions
      BY <1>2, <3>1, ExtendedRowEffect
    <3> HIDE DEF new
    <3>3. account.overdraft_until = LastDeadline(episodeStart, account.extensions_used)
      BY <3>2, RulesAssumption DEF AuditInv, EpisodeDeadline
    <3>4. new.overdraft_until = LastDeadline(episodeStart, new.extensions_used)
      BY <1>3, <1>4, <3>2, <3>3, LastDeadlineStep
    <3>5. new.extensions_used <= MaxExtensions
      BY <1>3, <3>2, RulesAssumption
    <3>6. EpisodeDeadline'
      BY <2>1, <3>1, <3>4, <3>5 DEF EpisodeDeadline, LastDeadline
    <3> QED
      BY <1>1, <1>2, <2>1, <3>1, <3>2, <3>6 DEF AuditInv, DayCapHolds, CapCoversLimit
  <2> QED
    BY <1>8, <2>2, <2>3 DEF AuditOther
<1>9. CASE UNCHANGED auditVars
  <2>1. UNCHANGED <<account, chargedToday, episodeStart, decidedAt, dayCap>>
    BY <1>9 DEF auditVars, vars, ledger
  <2> QED
    BY <1>1, <2>1 DEF AuditInv, EpisodeDeadline, LastDeadline, DayCapHolds, CapCoversLimit
<1> QED
  BY <1>5, <1>6, <1>7, <1>8, <1>9 DEF AuditNext

\* The auditor's variables stay in their types.
THEOREM AuditTypeCorrect == AuditSpec => []AuditTypeOK
<1>1. AuditInv => AuditTypeOK
  BY DEF AuditInv, SerialInv, AuditTypeOK
<1> QED
  BY <1>1, AuditInitInv, AuditStepInv, PTL DEF AuditSpec

\* The deadline of an episode is fixed by its first charge and by the number
\* of extensions, of which there are at most overdraft_max_extensions.
THEOREM EpisodeCorrect == AuditSpec => []EpisodeDeadline
<1>1. AuditInv => EpisodeDeadline
  BY DEF AuditInv
<1> QED
  BY <1>1, AuditInitInv, AuditStepInv, PTL DEF AuditSpec

\* An episode of debt is whole: deadline and extensions exist only in debt,
\* and the deadline is the one its first charge and the extensions gave it.
THEOREM OverdraftEpisodeCorrect == AuditSpec => []OverdraftEpisode
<1>1. AuditInv => OverdraftEpisode
  BY DEF AuditInv, SerialInv, OverdraftEpisode
<1> QED
  BY <1>1, AuditInitInv, AuditStepInv, PTL DEF AuditSpec

\* No calendar day is charged more than the loosest limit in force that day.
THEOREM DayCapCorrect == AuditSpec => []DayCapHolds
<1>1. AuditInv => DayCapHolds
  BY DEF AuditInv
<1> QED
  BY <1>1, AuditInitInv, AuditStepInv, PTL DEF AuditSpec

\* The body of NoDebtAfterDeadline: a charge into debt is decided in time.
ChargeInTime ==
  account'.balance < account.balance /\ chargedToday' > chargedToday /\ account'.balance < 0
    => /\ account'.overdraft_until # None
       /\ decidedAt' <= LastDeadline(episodeStart', MaxExtensions)

LEMMA ChargesInTime == AuditInv /\ [AuditNext]_auditVars => [ChargeInTime]_auditVars
<1> SUFFICES ASSUME AuditInv, AuditNext, chargedToday' > chargedToday, account'.balance < 0,
                    account'.balance < account.balance
             PROVE  /\ account'.overdraft_until # None
                    /\ decidedAt' <= LastDeadline(episodeStart', MaxExtensions)
  BY DEF ChargeInTime
<1>1. /\ account \in AccountRow /\ chargedToday \in Nat /\ now \in 0..MaxTime
      /\ episodeStart \in Nat
  BY DEF AuditInv, SerialInv, TypeOK
<1>2. /\ account.balance \in Int /\ account.extensions_used \in Nat
      /\ account.overdraft_until # None => account.overdraft_until \in Nat
  BY <1>1 DEF AccountRow
<1>3. ASSUME NEW t \in DecisionTimes, AuditCharge(t)
      PROVE  /\ account'.overdraft_until # None
             /\ decidedAt' <= LastDeadline(episodeStart', MaxExtensions)
  <2> DEFINE new == ChargedRow(account, t)
  <2>1. t \in Nat
    BY <1>1, DecisionTimesRange
  <2>2. /\ account' = new /\ ChargeAccepted(account, chargedToday, t) /\ decidedAt' = t
        /\ episodeStart' = IF account.overdraft_until = None /\ new.overdraft_until # None
                           THEN t ELSE episodeStart
    BY <1>3 DEF AuditCharge, Charge
  <2>3. /\ new.balance = account.balance + ChargeAmount(account)
        /\ account.is_unlimited => new = account
        /\ ~account.is_unlimited /\ new.balance < 0 /\ account.overdraft_until = None =>
             new.overdraft_until = t + OverdraftTime
        /\ ~account.is_unlimited /\ new.balance < 0 /\ account.overdraft_until # None =>
             new.overdraft_until = account.overdraft_until
    BY <1>1, <2>1, ChargedRowEffect
  <2> HIDE DEF new
  <2>4. ~account.is_unlimited
    BY <1>2, <2>2, <2>3
  <2>5. account.balance - Price < 0
    BY <1>2, <2>2, <2>3, <2>4, RulesAssumption DEF ChargeAmount
  <2>6. SpendAllowed(account, t) /\ ~CoversPrice(account)
    BY <1>2, <2>2, <2>4, <2>5, RulesAssumption DEF ChargeAccepted, CoversPrice
  <2>7. CASE account.overdraft_until = None
    <3>1. new.overdraft_until = t + OverdraftTime
      BY <2>2, <2>3, <2>4, <2>7
    <3>2. episodeStart' = t
      BY <2>1, <2>2, <2>7, <3>1, RulesAssumption
    <3>3. MaxExtensions * ExtensionTime \in Nat
      BY RulesAssumption
    <3>4. new.overdraft_until # None
      BY <2>1, <3>1, RulesAssumption
    <3> QED
      BY <2>1, <2>2, <3>2, <3>3, <3>4, RulesAssumption DEF LastDeadline
  <2>8. CASE account.overdraft_until # None
    <3>1. t <= account.overdraft_until
      BY <2>6, <2>8 DEF SpendAllowed, StartsOverdraft
    <3>2. /\ account.extensions_used <= MaxExtensions
          /\ account.overdraft_until = LastDeadline(episodeStart, account.extensions_used)
      BY <2>8 DEF AuditInv, EpisodeDeadline
    <3>3. LastDeadline(episodeStart, account.extensions_used)
            <= LastDeadline(episodeStart, MaxExtensions)
      BY <1>1, <1>2, <3>2, LastDeadlineMonotone, RulesAssumption
    <3>4. LastDeadline(episodeStart, MaxExtensions) \in Nat
      <4>1. MaxExtensions * ExtensionTime \in Nat
        BY RulesAssumption
      <4> QED
        BY <1>1, <4>1, RulesAssumption DEF LastDeadline
    <3>5. episodeStart' = episodeStart
      BY <2>2, <2>8
    <3>6. new.overdraft_until # None
      BY <2>2, <2>3, <2>4, <2>8
    <3> QED
      BY <1>2, <2>1, <2>2, <2>8, <3>1, <3>2, <3>3, <3>4, <3>5, <3>6
  <2> QED
    BY <2>7, <2>8
<1>4. ASSUME NEW card \in Cards, AuditEdit(card) PROVE FALSE
  <2>1. chargedToday' = chargedToday
    BY <1>4 DEF AuditEdit, EditAccount, ledger
  <2> QED
    BY <1>1, <2>1
<1>5. CASE AuditTick
  <2>1. chargedToday' \in {0, chargedToday}
    BY <1>5 DEF AuditTick, Tick
  <2> QED
    BY <1>1, <2>1
<1>6. CASE AuditOther
  <2>1. chargedToday' = chargedToday
    BY <1>6 DEF AuditOther, Command, Journal, ExtendOverdraft, ledger
  <2> QED
    BY <1>1, <2>1
<1> QED
  BY <1>3, <1>4, <1>5, <1>6 DEF AuditNext

\* Debt is bounded in time: a charge into debt leaves a deadline and is not
\* decided after the last one its episode can have.
THEOREM DebtCorrect == AuditSpec => NoDebtAfterDeadline
<1>1. AuditInv /\ [AuditNext]_auditVars =>
        [account'.balance < account.balance /\ chargedToday' > chargedToday
            /\ account'.balance < 0
          => /\ account'.overdraft_until # None
             /\ decidedAt' <= LastDeadline(episodeStart', MaxExtensions)]_auditVars
  BY ChargesInTime DEF ChargeInTime
<1> QED
  BY <1>1, AuditInitInv, AuditStepInv, PTL DEF AuditSpec, NoDebtAfterDeadline
=============================================================================
