--------------------------- MODULE CabinetAccess ---------------------------
(***************************************************************************)
(* How one customer gets into the cabinet: login with its lockout, one-time *)
(* links for a password and for the address, change of password, and the    *)
(* web sessions these open and close.  Handlers run concurrently, each in   *)
(* a database session of its own.                                           *)
(*                                                                          *)
(* autoflush and expire_on_commit are off: a handler works on the rows as   *)
(* it first read them, nothing it changes is visible before its commit, and *)
(* the commit writes the columns that differ from the values it read.  Two  *)
(* SELECTs that follow each other directly are one step.                    *)
(*                                                                          *)
(* Passwords are numbered in the order they are set: a password is the      *)
(* number of its setting, and 0 is the absence of one.  A time of 0 is      *)
(* locked_until = NULL.                                                     *)
(***************************************************************************)
EXTENDS Integers, Sequences, FiniteSets

CONSTANTS
  Handlers,     \* handlers that may run at the same time
  MaxAttempts,  \* cabinet_max_login_attempts
  LockTime,     \* cabinet_lockout_minutes
  MaxPerHour,   \* password_reset_max_per_hour
  Hour,         \* the window of that limit
  ResetTtl,     \* password_reset_ttl_hours
  InviteTtl,    \* cabinet_invite_ttl_hours
  ConfirmTtl,   \* email_confirm_ttl_hours
  MaxTime,      \* bound: last tick of the clock
  MaxRuns       \* bound: number of handlers ever started

ASSUME AccessAssumption ==
  /\ IsFiniteSet(Handlers) /\ Handlers # {}
  /\ MaxAttempts \in Nat \ {0}
  /\ LockTime \in Nat \ {0}
  /\ MaxPerHour \in Nat \ {0}
  /\ Hour \in Nat \ {0}
  /\ ResetTtl \in Nat \ {0}
  /\ InviteTtl \in Nat \ {0}
  /\ ConfirmTtl \in Nat \ {0}
  /\ MaxTime \in Nat
  /\ MaxRuns \in Nat

VARIABLES
  account,   \* the columns of the row of accounts that access works on
  links,     \* the rows of account_invites in the order of their commits
  sessions,  \* per session ever opened, the password proved for it
  live,      \* the sessions that are neither revoked nor expired
  required,  \* cabinet_require_email_confirmation
  hs,        \* the handlers
  now,
  runs,      \* handlers started so far
  passwords  \* passwords set so far: hash_password never repeats itself

VARIABLES    \* history, read by no action
  uses,      \* per link, how often it was accepted
  requested, \* the links issued from the form for forgotten passwords
  guesses,   \* wrong passwords since the counter was last cleared
  late,      \* sessions opened with an outdated password or behind the back
             \* of a handler that had listed the sessions to close
  overlapped,  \* some handler started while another one was running
  interrupted  \* some change of password stopped between its two commits

history == <<uses, requested, guesses, late, overlapped, interrupted>>
vars == <<account, links, sessions, live, required, hs, now, runs, passwords, history>>

Hash == [set: Nat, outdated: BOOLEAN]
AccountRow ==
  [password: Hash, failed: Nat, locked_until: Nat, confirmed: BOOLEAN, is_active: BOOLEAN]
Purposes == {"password", "email"}
Invite == [purpose: Purposes, created: Nat, expires: Nat, used: BOOLEAN]

\* Where a handler is and what it holds: the account as it read it, its
\* captured clock, the purpose and the lifetime of the link it issues and
\* whether a form asked for it, the pending links it revokes, the link it
\* was opened with, and the sessions it closes.
Places ==
  {"idle", "login", "issue", "issued", "link", "use", "confirm", "open",
   "change", "changed", "close"}
Handler ==
  [at: Places, loaded: AccountRow, started: Nat, purpose: Purposes, ttl: Nat,
   form: BOOLEAN, pending: SUBSET Nat, link: Nat, closing: SUBSET Nat, proof: Nat]

NewAccount(set, outdated, confirmed) ==
  [password |-> [set |-> set, outdated |-> outdated], failed |-> 0, locked_until |-> 0,
   confirmed |-> confirmed, is_active |-> TRUE]
Idle ==
  [at |-> "idle", loaded |-> NewAccount(0, FALSE, FALSE), started |-> 0,
   purpose |-> "email", ttl |-> 0, form |-> FALSE, pending |-> {}, link |-> 0,
   closing |-> {}, proof |-> 0]

TypeOK ==
  /\ account \in AccountRow
  /\ account.failed < MaxAttempts
  /\ links \in Seq(Invite)
  /\ sessions \in Seq(Nat)
  /\ live \subseteq DOMAIN sessions
  /\ required \in BOOLEAN
  /\ hs \in [Handlers -> Handler]
  /\ now \in 0..MaxTime
  /\ runs \in 0..MaxRuns
  /\ passwords \in Nat
  /\ uses \in Seq(Nat)
  /\ Len(uses) = Len(links)
  /\ requested \subseteq DOMAIN links
  /\ guesses \in Nat
  /\ late \subseteq DOMAIN sessions
  /\ overlapped \in BOOLEAN
  /\ interrupted \in BOOLEAN

\* An account the operator has created: no password, no link yet.
InitCreated ==
  /\ account = NewAccount(0, FALSE, FALSE)
  /\ links = <<>>
  /\ sessions = <<>>
  /\ passwords = 0

\* An account registered in the cabinet: a password, whose hash the next
\* login may find outdated, the letter that confirms the address, and a
\* session unless the address must be confirmed first.
InitRegistered ==
  /\ \E outdated \in BOOLEAN : account = NewAccount(1, outdated, FALSE)
  /\ links = <<[purpose |-> "email", created |-> 0, expires |-> ConfirmTtl, used |-> FALSE]>>
  /\ sessions = IF required THEN <<>> ELSE <<1>>
  /\ passwords = 1

Init ==
  /\ required \in BOOLEAN
  /\ InitCreated \/ InitRegistered
  /\ live = DOMAIN sessions
  /\ hs = [h \in Handlers |-> Idle]
  /\ now = 0
  /\ runs = 0
  /\ uses = [i \in DOMAIN links |-> 0]
  /\ requested = {}
  /\ guesses = 0
  /\ late = {}
  /\ overlapped = FALSE
  /\ interrupted = FALSE

---------------------------------------------------------------------------
(* Handlers and their transactions *)

\* A handler starts: it reads the account and what else the entry holds.
Start(h, entry) ==
  /\ hs[h].at = "idle"
  /\ runs < MaxRuns
  /\ runs' = runs + 1
  /\ hs' = [hs EXCEPT ![h] = entry]
  /\ overlapped' = (overlapped \/ \E g \in Handlers : hs[g].at # "idle")
  /\ UNCHANGED <<account, links, sessions, live, required, now, passwords,
                 uses, requested, guesses, late, interrupted>>

Entry(place) == [Idle EXCEPT !.at = place, !.loaded = account, !.started = now]

Goto(h, place) == hs' = [hs EXCEPT ![h].at = place]
End(h) == hs' = [hs EXCEPT ![h] = Idle]

\* A column is part of the UPDATE only when it differs from the value read.
Flushed(current, before, after) == IF after # before THEN after ELSE current

\* The account row after the flush of a copy read as before and now after.
WriteBack(before, after) ==
  [password |-> Flushed(account.password, before.password, after.password),
   failed |-> Flushed(account.failed, before.failed, after.failed),
   locked_until |-> Flushed(account.locked_until, before.locked_until, after.locked_until),
   confirmed |-> Flushed(account.confirmed, before.confirmed, after.confirmed),
   is_active |-> Flushed(account.is_active, before.is_active, after.is_active)]

\* is_usable, at the given time.
IsUsable(invite, time) == ~invite.used /\ time < invite.expires

---------------------------------------------------------------------------
(* Login and logout *)

\* Mutant: the lock is not looked at.
StartLogin_ignores_lock(h) ==
  /\ account.password.set # 0
  /\ Start(h, Entry("login"))

\* authenticate reads the account; a locked one, or one without a password,
\* is turned away without a trace.
StartLogin(h) ==
  /\ account.password.set # 0
  /\ now >= account.locked_until
  /\ Start(h, Entry("login"))

\* Mutant: a full counter is never started over.
FailedRow_keeps_counter(row, time) ==
  LET failed == row.failed + 1 IN
  [row EXCEPT !.failed = failed,
              !.locked_until = IF failed >= MaxAttempts THEN time + LockTime ELSE @]

\* register_failure on the copy that was read, at the captured time.
FailedRow(row, time) ==
  LET failed == row.failed + 1 IN
  IF failed >= MaxAttempts
  THEN [row EXCEPT !.failed = 0, !.locked_until = time + LockTime]
  ELSE [row EXCEPT !.failed = failed]

\* The password is wrong: the failure is committed.
LoginFails(h) ==
  LET before == hs[h].loaded
      after == FailedRow(before, hs[h].started)
  IN
  /\ hs[h].at = "login"
  /\ account' = WriteBack(before, after)
  /\ guesses' = IF after.failed = 0 THEN 0 ELSE guesses + 1
  /\ End(h)
  /\ UNCHANGED <<links, sessions, live, required, now, runs, passwords,
                 uses, requested, late, overlapped, interrupted>>

\* A session opens for someone who proved the given password.
OpenSession(proof) ==
  LET new == Len(sessions) + 1
      behind == \E g \in Handlers : hs[g].at \in {"use", "close"}
  IN
  /\ sessions' = Append(sessions, proof)
  /\ live' = live \cup {new}
  /\ late' = IF behind \/ proof < passwords THEN late \cup {new} ELSE late

\* Mutant: an unconfirmed address does not keep anybody out.
LoginAllowed_unconfirmed(row) == row.is_active

\* What authenticate asks of the copy once the password is right.
LoginAllowed(row) == row.is_active /\ (required => row.confirmed)

\* Mutant: a successful login leaves the failures counted.
SignedInRow_keeps_failures(row) ==
  [row EXCEPT !.password = [set |-> row.password.set, outdated |-> FALSE],
              !.locked_until = 0]

\* The row after a successful login: a hash of the current parameters and
\* no failures.
SignedInRow(row) ==
  [row EXCEPT !.password = [set |-> row.password.set, outdated |-> FALSE],
              !.failed = 0, !.locked_until = 0]

\* The password is right: one commit clears the failures, renews an outdated
\* hash and opens the session.
SignIn(h) ==
  LET before == hs[h].loaded IN
  /\ hs[h].at = "login"
  /\ LoginAllowed(before)
  /\ account' = WriteBack(before, SignedInRow(before))
  /\ OpenSession(before.password.set)
  /\ guesses' = 0
  /\ End(h)
  /\ UNCHANGED <<links, required, now, runs, passwords, uses, requested,
                 overlapped, interrupted>>

\* Logout, or a session that load finds expired or idle for too long.
CloseSession(i) ==
  /\ i \in live
  /\ live' = live \ {i}
  /\ UNCHANGED <<account, links, sessions, required, hs, now, runs, passwords, history>>

---------------------------------------------------------------------------
(* Issuing links *)

\* count_recent: links of a purpose issued within the hour, whoever asked.
CountRecent(purpose) ==
  Cardinality({i \in DOMAIN links :
                 links[i].purpose = purpose /\ links[i].created >= now - Hour})

Issuing(purpose, ttl, form) ==
  [Entry("issue") EXCEPT !.purpose = purpose, !.ttl = ttl, !.form = form]

\* Mutant: the number of letters may exceed the limit by one.
StartForgot_off_by_one(h) ==
  /\ account.is_active
  /\ CountRecent("password") <= MaxPerHour
  /\ Start(h, Issuing("password", ResetTtl, TRUE))

\* prepare_password_reset: nothing for a disabled account or over the limit.
StartForgot(h) ==
  /\ account.is_active
  /\ CountRecent("password") < MaxPerHour
  /\ Start(h, Issuing("password", ResetTtl, TRUE))

\* The operator's invite has no limit of its own.
StartInvite(h) == Start(h, Issuing("password", InviteTtl, FALSE))

\* The letter that confirms the address, asked for once more in the cabinet.
StartResend(h) ==
  /\ live # {}
  /\ account.is_active
  /\ ~account.confirmed
  /\ Start(h, Issuing("email", ConfirmTtl, FALSE))

\* Mutant: the earlier links of the purpose stay as they are.
RevokePending_nothing(h) ==
  /\ hs[h].at = "issue"
  /\ hs' = [hs EXCEPT ![h].at = "issued", ![h].started = now]
  /\ UNCHANGED <<account, links, sessions, live, required, now, runs, passwords, history>>

\* issue captures its time and reads the links it revokes.
RevokePending(h) ==
  /\ hs[h].at = "issue"
  /\ hs' = [hs EXCEPT
       ![h].at = "issued", ![h].started = now,
       ![h].pending = {i \in DOMAIN links :
                         links[i].purpose = hs[h].purpose /\ ~links[i].used}]
  /\ UNCHANGED <<account, links, sessions, live, required, now, runs, passwords, history>>

\* The revoked links and the new one are committed together.
CommitLink(h) ==
  LET revoked == [i \in DOMAIN links |->
        IF i \in hs[h].pending THEN [links[i] EXCEPT !.used = TRUE] ELSE links[i]]
  IN
  /\ hs[h].at = "issued"
  /\ links' = Append(revoked,
       [purpose |-> hs[h].purpose, created |-> now, expires |-> hs[h].started + hs[h].ttl,
        used |-> FALSE])
  /\ uses' = Append(uses, 0)
  /\ requested' = IF hs[h].form THEN requested \cup {Len(links')} ELSE requested
  /\ End(h)
  /\ UNCHANGED <<account, sessions, live, required, now, runs, passwords,
                 guesses, late, overlapped, interrupted>>

---------------------------------------------------------------------------
(* Using links *)

\* The link of a purpose is found usable, its account is active.
OpenLink(h, purpose, place) ==
  \E i \in DOMAIN links :
    /\ links[i].purpose = purpose
    /\ IsUsable(links[i], now)
    /\ account.is_active
    /\ Start(h, [Entry(place) EXCEPT !.link = i])

\* set_password, up to find_account.
StartSetPassword(h) == OpenLink(h, "password", "link")

\* Mutant: the sessions that were open before stay open.
ListSessions_none(h) ==
  /\ \/ hs[h].at = "link" /\ now < links[hs[h].link].expires /\ Goto(h, "use")
     \/ hs[h].at = "changed" /\ Goto(h, "close")
  /\ UNCHANGED <<account, links, sessions, live, required, now, runs, passwords, history>>

\* close_all lists the open sessions: in set_password after a second look at
\* the link, which sees the row as read before and the clock as it is; in a
\* change of password once the new password is committed.
ListSessions(h) ==
  /\ \/ hs[h].at = "link" /\ now < links[hs[h].link].expires
        /\ hs' = [hs EXCEPT ![h].at = "use", ![h].closing = live]
     \/ hs[h].at = "changed"
        /\ hs' = [hs EXCEPT ![h].at = "close", ![h].closing = live]
  /\ UNCHANGED <<account, links, sessions, live, required, now, runs, passwords, history>>

\* Mutant: only an account without a password gets one.
NewPassword_first_only(row) ==
  IF row.password.set = 0 THEN [row EXCEPT !.password.set = passwords + 1] ELSE row

\* A fresh hash on the copy of the account.
NewPassword(row) == [row EXCEPT !.password = [set |-> passwords + 1, outdated |-> FALSE]]

\* Mutant: the link stays usable.
MarkUsed_not(i) ==
  /\ links' = links
  /\ uses' = [uses EXCEPT ![i] = @ + 1]

\* The link is accepted.
MarkUsed(i) ==
  /\ links' = [links EXCEPT ![i].used = TRUE]
  /\ uses' = [uses EXCEPT ![i] = @ + 1]

\* One commit sets the password, lifts the lock, confirms the address, marks
\* the link and closes the sessions listed before.
SetPassword(h) ==
  LET before == hs[h].loaded IN
  /\ hs[h].at = "use"
  /\ passwords' = passwords + 1
  /\ account' = WriteBack(before,
       [NewPassword(before) EXCEPT !.failed = 0, !.locked_until = 0, !.confirmed = TRUE])
  /\ MarkUsed(hs[h].link)
  /\ live' = live \ hs[h].closing
  /\ guesses' = 0
  /\ hs' = [hs EXCEPT ![h] = [Idle EXCEPT !.at = "open", !.proof = passwords + 1]]
  /\ UNCHANGED <<sessions, required, now, runs, requested, late, overlapped, interrupted>>

\* set_password opens a session in a transaction of its own.
OpenAfterReset(h) ==
  /\ hs[h].at = "open"
  /\ OpenSession(hs[h].proof)
  /\ End(h)
  /\ UNCHANGED <<account, links, required, now, runs, passwords, uses, requested,
                 guesses, overlapped, interrupted>>

StartConfirm(h) == OpenLink(h, "email", "confirm")

\* confirm: the address is confirmed and the link marked.
ConfirmEmail(h) ==
  LET before == hs[h].loaded IN
  /\ hs[h].at = "confirm"
  /\ account' = WriteBack(before, [before EXCEPT !.confirmed = TRUE])
  /\ MarkUsed(hs[h].link)
  /\ End(h)
  /\ UNCHANGED <<sessions, live, required, now, runs, passwords, requested, guesses,
                 late, overlapped, interrupted>>

---------------------------------------------------------------------------
(* Change of password in the cabinet *)

\* The viewer's session is live and the current password is the one read.
StartChange(h) ==
  /\ live # {}
  /\ account.is_active
  /\ account.password.set # 0
  /\ Start(h, Entry("change"))

\* The first commit: the new password.
ChangePassword(h) ==
  LET before == hs[h].loaded IN
  /\ hs[h].at = "change"
  /\ passwords' = passwords + 1
  /\ account' = WriteBack(before, NewPassword(before))
  /\ Goto(h, "changed")
  /\ UNCHANGED <<links, sessions, live, required, now, runs, history>>

\* The second commit: the sessions listed in between are closed.
CloseAll(h) ==
  /\ hs[h].at = "close"
  /\ live' = live \ hs[h].closing
  /\ End(h)
  /\ UNCHANGED <<account, links, sessions, required, now, runs, passwords, history>>

---------------------------------------------------------------------------
(* The environment *)

\* The operator turns the account on or off.
SetActive(active) ==
  /\ account.is_active # active
  /\ account' = [account EXCEPT !.is_active = active]
  /\ UNCHANGED <<links, sessions, live, required, hs, now, runs, passwords, history>>

\* A handler ends without its next commit: an error page, a lost connection,
\* a restart.
Abandon(h) ==
  /\ hs[h].at # "idle"
  /\ interrupted' = (interrupted \/ hs[h].at \in {"changed", "close"})
  /\ End(h)
  /\ UNCHANGED <<account, links, sessions, live, required, now, runs, passwords,
                 uses, requested, guesses, late, overlapped>>

Tick ==
  /\ now < MaxTime
  /\ now' = now + 1
  /\ UNCHANGED <<account, links, sessions, live, required, hs, runs, passwords, history>>

Next ==
  \/ \E h \in Handlers :
       \/ StartLogin(h) \/ LoginFails(h) \/ SignIn(h)
       \/ StartForgot(h) \/ StartInvite(h) \/ StartResend(h)
       \/ RevokePending(h) \/ CommitLink(h)
       \/ StartSetPassword(h) \/ ListSessions(h) \/ SetPassword(h) \/ OpenAfterReset(h)
       \/ StartConfirm(h) \/ ConfirmEmail(h)
       \/ StartChange(h) \/ ChangePassword(h) \/ CloseAll(h)
       \/ Abandon(h)
  \/ \E i \in live : CloseSession(i)
  \/ \E active \in BOOLEAN : SetActive(active)
  \/ Tick

Spec == Init /\ [][Next]_vars

---------------------------------------------------------------------------
(* Properties that hold whatever the interleaving *)

\* The hourly limit of letters is overrun by at most one letter for every
\* other handler that was on its way when the limit was read.
LettersBounded ==
  \A t \in 0..now :
    Cardinality({i \in requested : links[i].created \in (t - Hour)..t})
      <= MaxPerHour + Cardinality(Handlers) - 1

\* A link is accepted at most once per handler that may run at a time: after
\* the first acceptance only those that had read it before can follow.
LinkUsesBounded == \A i \in DOMAIN uses : uses[i] <= Cardinality(Handlers)

Usable(purpose) ==
  {i \in DOMAIN links : links[i].purpose = purpose /\ IsUsable(links[i], now)}

\* Issuing links concurrently leaves at most one usable link per handler.
UsableLinksBounded ==
  \A purpose \in Purposes : Cardinality(Usable(purpose)) <= Cardinality(Handlers)

\* Handlers that run one after another keep the promises exactly: one usable
\* link for a purpose, and no link accepted twice.
CalmLinks ==
  ~overlapped => /\ \A purpose \in Purposes : Cardinality(Usable(purpose)) <= 1
                 /\ \A i \in DOMAIN uses : uses[i] <= 1

\* However requests for links meet, few are usable; alone, one is.
LinksStayFew == UsableLinksBounded /\ CalmLinks

MidChange == \E h \in Handlers : hs[h].at \in {"changed", "close"}

\* A session opened with an earlier password outlives the change of password
\* only if it was opened late, or the change was cut between its commits.
OldSessionsNeedRace ==
  MidChange \/ interrupted
    \/ \A i \in live : sessions[i] < account.password.set => i \in late

\* The password in force is the last one set, unless a login that renewed an
\* outdated hash wrote it back over a newer password.
PasswordKept ==
  account.password.set < passwords =>
    /\ overlapped
    /\ ~account.password.outdated
    /\ \E i \in DOMAIN sessions : sessions[i] = account.password.set

\* With confirmation required nobody is let in before the address is confirmed.
SessionsConfirmed == required /\ ~account.confirmed => live = {}

\* One handler at a time: every wrong password is counted.
FailuresCounted == ~overlapped => account.failed = guesses

\* A lock in force is shortened only by a new password from a link, or by
\* a login that had read the account before that lock was set.
LockHolds ==
  [][account.locked_until > now /\ account'.locked_until < account.locked_until
       => \/ passwords' > passwords
          \/ \E h \in Handlers :
               /\ hs[h].at = "login" /\ hs'[h].at = "idle"
               /\ hs[h].loaded.locked_until # account.locked_until]_vars

---------------------------------------------------------------------------
(* What the code's comments promise and concurrency takes away *)

\* AccountInvite.used_at: a link is for one use, so the link of a letter sets
\* a password once.
LinkUsedOnce == \A i \in DOMAIN uses : links[i].purpose = "password" => uses[i] <= 1
=============================================================================
