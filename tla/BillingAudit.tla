---------------------------- MODULE BillingAudit ----------------------------
(***************************************************************************)
(* Billing observed by an auditor who remembers what the row forgets: when *)
(* the current overdraft episode started, when the last charge was         *)
(* decided, and the highest daily limit that was in force today.           *)
(***************************************************************************)
EXTENDS Billing

VARIABLES
  episodeStart,  \* decision time of the charge that opened the episode
  decidedAt,     \* decision time of the last charge
  dayCap         \* largest daily limit in force today, None for no limit

auditVars == <<vars, episodeStart, decidedAt, dayCap>>

\* The larger of two limits; no limit is larger than any.
LooserLimit(a, b) ==
  IF a = None \/ b = None THEN None ELSE IF a >= b THEN a ELSE b

AuditTypeOK ==
  /\ TypeOK
  /\ episodeStart \in 0..MaxTime
  /\ decidedAt \in 0..MaxTime
  /\ dayCap \in Limit

AuditInit ==
  /\ Init
  /\ episodeStart = 0
  /\ decidedAt = 0
  /\ dayCap = account.daily_limit

AuditCharge(t) ==
  /\ Charge(t)
  /\ decidedAt' = t
  /\ episodeStart' =
       IF account.overdraft_until = None /\ account'.overdraft_until # None
       THEN t ELSE episodeStart
  /\ UNCHANGED dayCap

AuditEdit(card) ==
  /\ EditAccount(card)
  /\ dayCap' = LooserLimit(dayCap, card.daily_limit)
  /\ UNCHANGED <<episodeStart, decidedAt>>

AuditTick ==
  /\ Tick
  /\ dayCap' = IF StartsNewDay(now) THEN account.daily_limit ELSE dayCap
  /\ UNCHANGED <<episodeStart, decidedAt>>

AuditOther ==
  /\ \/ \E kind \in CommandKinds, amount \in Amounts : Command(kind, amount)
     \/ ExtendOverdraft
  /\ UNCHANGED <<episodeStart, decidedAt, dayCap>>

AuditNext ==
  \/ \E t \in DecisionTimes : AuditCharge(t)
  \/ \E card \in Cards : AuditEdit(card)
  \/ AuditTick
  \/ AuditOther

AuditSpec == AuditInit /\ [][AuditNext]_auditVars

---------------------------------------------------------------------------
(* Properties *)

\* The latest deadline an episode that opened at t can be given.
LastDeadline(t, extensions) == t + OverdraftTime + extensions * ExtensionTime

\* The deadline is the one of the charge that opened the episode plus the
\* extensions granted since: no charge, command or edit within the episode
\* moves it, and there are at most overdraft_max_extensions extensions.
EpisodeDeadline ==
  account.overdraft_until # None =>
    /\ account.extensions_used <= MaxExtensions
    /\ account.overdraft_until = LastDeadline(episodeStart, account.extensions_used)

\* An episode of debt, whole: it starts when the balance first goes below
\* zero, keeps the deadline of its first charge, and leaves neither a deadline
\* nor a used extension to the next one.
OverdraftEpisode == OverdraftOnlyInDebt /\ EpisodeDeadline

\* Debt is bounded in time: a charge that leaves the account in debt leaves it
\* with a deadline, also when the debt began without one (an operator's
\* negative correction sets none), and was decided no later than the last
\* deadline its episode can have.
NoDebtAfterDeadline ==
  [][account'.balance < account.balance /\ chargedToday' > chargedToday
       /\ account'.balance < 0
     => /\ account'.overdraft_until # None
        /\ decidedAt' <= LastDeadline(episodeStart', MaxExtensions)]_auditVars

\* The charges of a calendar day never exceed the loosest limit in force that
\* day, however the limit is edited and however charges straddle midnight.
DayCapHolds == dayCap # None => chargedToday <= dayCap
=============================================================================
