# nosbp: a TLA+ model of the paid QR code service

nosbp turns the parameters of a CRM template into a bank QR code and charges the
customer's prepaid account for it: once per set of parameters and free period. This
directory holds TLA+ modules that model the service, the TLC runs that check them and the
TLAPS proofs of the main properties. Paths below are relative to `src/src/nosbp/`.

## 1. Inventory

| part | code | state | operations | what makes it hard |
|---|---|---|---|---|
| billing | `billing/service.py`, `db/models/accounts.py`, `db/models/invoices.py` | one row of `accounts` (balance, overdraft deadline, extensions, daily limit, two flags), the append-only journal `ledger_entries` | charge_for_invoice, topup, refund, adjust, extend_overdraft | a cached balance next to the journal, an overdraft with its own life cycle, a limit per local calendar day |
| invoices | `invoices/service.py` | one row of `invoices` per idempotency key: expiry, charge count, hit count | resolve: fast path (atomic UPDATE), slow path (account lock, second look, charge) | concurrent requests for one key, waiting for a row lock with data read before the wait |
| QR API | `payments/routes.py`, `payments/dependencies.py` | none of its own; one database session per request | authenticate, get_qr, _generate | commit or rollback around the charge, a throttled mark on the key, an ETag that outlives the image |
| operator | `admin/crud.py`, `admin/routes/accounts.py`, `scripts/manage.py` | none of its own | balance commands, the account card, deletion | edits the row that requests charge |
| cabinet access | `cabinet/invites.py`, `access.py`, `service.py`, `routes/auth.py` | password, lockout counter, one-time links | register, login, forgot, set password, confirm | concurrent use of a link, two commits per change of password |
| web sessions | `core/sessions.py`, `core/lockout.py`, `admin/service.py`, `admin/dependencies.py`, `admin/cli.py` | session rows (expiry, last activity, revocation), the administrator's row | open, load and renew, close, close_all, purge; password, second factor, disable, unlock from the console | a renewal from an older read, a purge under a list of rows, two commits per command |
| organisations | `web/organizations.py`, `admin/crud.py`, `admin/routes/organizations.py`, `cabinet/routes/organizations.py` | rows with a short name, requisites, one default flag, the key of a logo | create, edit, delete from the panel, the cabinet and the command line | nothing locks the default; an edit writes what differs from its own copy |
| API keys | `payments/tokens.py`, `*/routes/tokens.py`, `payments/dependencies.py` | rows: revocation, last use | issue, revoke, mark of use | the mark is an UPDATE that waits for other requests of the same key |
| logos | `storage/logo_cache.py`, `storage/s3.py` | files in a bucket, a bounded cache with a ttl in the server | upload, get, invalidate | the cache is asked, the bucket answers later, the logo is replaced in between |
| payment document | `payments/gost.py`, `requisites.py`, `idempotency.py`, `core/money.py`, text functions of `admin/stats.py` | none | control digits, normalisation of key and payload, texts of rates and sums | boundary cases of arithmetic and of two normalisations that must agree |
| row locks | all of the above | row locks of PostgreSQL, the entries of its unique index of organisation names | every handler's transaction | orders of locks nobody wrote down in one place |
| notifications, mail | `notifications/`, `mail/` | none that lasts | report a failure, send a letter | nothing: one send after the answer |
| drawing, pages, statistics, configuration, application, solo, migrations | `payments/qr.py`, `pay/`, `admin/stats.py`, `core/`, `../solo/` | none | pure output, reading, loading | nothing a model would show |

How they meet. Every handler runs in one database session (`db/session.py`), a transaction
at PostgreSQL's READ COMMITTED. `get_qr` authenticates the token, which loads the account
row into the session and marks the key; `resolve_organization` reads the receiver;
`InvoiceService.resolve` captures the time and tries the fast path; if no live invoice
answers, `BillingService.lock_account` takes `FOR UPDATE` on the account row and the invoice
is looked up a second time; `charge_for_invoice` decides; the handler commits the invoice,
the journal entry and the balance together or rolls all back; then, unless the reader has the
image already, the logo comes from the cache or the bucket and the image is drawn. The operator's commands take the same row lock,
the account card is saved without it. All parts communicate through rows and row locks, and
through the bucket and the cache of logos.

What makes each part correct:

* billing: the cached balance is the sum of the journal; a debt is bounded in time by one
  episode with its extensions; the charges of a day stay within the limit;
* invoices: nobody pays twice for one key within a free period; a period, its journal entry
  and its counter appear together or not at all; every session ends;
* access: a link works once; a change of password ends the older sessions; guessing a
  password is limited;
* web sessions: a closed session stays closed, a session ends with the credentials that
  opened it, and it is given up only when idle;
* organisations and keys: one default; a named logo can be loaded; an image shows one state
  of the row; the mark of a key tells when it was used;
* payment document: a slip of the typist is noticed, one key is one document;
* row locks: nobody waits for ever, and only named transactions wait in a circle.

## 2. Modules

| module | what it is | code |
|---|---|---|
| `BillingRules` | pure operators on one account row: what a charge, a command, an extension and an edit compute, and when they refuse | `billing/service.py` |
| `Billing` | the abstract account: money operations one after another, each a committed transaction | what `lock_account` promises |
| `BillingAudit` | `Billing` with an auditor's memory: the start of the overdraft episode, the time of the last decision, the loosest limit of the day | properties over several steps |
| `InvoiceFlow` | the detailed system: sessions that interleave at their database statements, the row lock, stale copies, the flush of changed columns | `invoices/service.py`, `payments/routes.py`, `admin/routes/accounts.py` |
| `CabinetAccess` | one customer's access: handlers that interleave between their reads and their commits | `cabinet/`, `core/sessions.py`, `core/lockout.py` |
| `WebSessions` | one administrator's sessions, logins, pages and console commands | `core/sessions.py`, `core/lockout.py`, `admin/` |
| `Organizations` | organisations, keys, logos with their cache, and the requests and pages that read them | `web/organizations.py`, `admin/crud.py`, `payments/`, `storage/`, `pay/` |
| `PaymentDocument` | typing and validating requisites, the texts of rates and sums, key and payload of requests | `payments/`, `core/money.py`, `admin/stats.py` |
| `RowLocks` | the locks every kind of transaction takes on the rows of one account, in order and mode | `db/`, and the statements of the handlers |
| `MC...` | the small constants of the runs | |
| `...Proofs` | lemmas and theorems | |

The modules meet as the parts do. `InvoiceFlow` is built from `BillingRules` and implements
`Billing`. `Organizations` takes the money of a request from `InvoiceFlow` as one step
(`ResolveInvoice`), and the values of the requisites from `PaymentDocument` as model values.
`RowLocks` leaves out what the transactions compute and keeps the locks that the other
modules' commits would wait for. `WebSessions` and `CabinetAccess` are the two users of
`SessionStore`.

### Billing and invoices

`account` is the row with the columns billing uses. The journal is kept as
`ledgerTotal` (its sum, the query of `calculate_balance_from_ledger`), `chargedToday` (the
sum `_ensure_daily_limit` asks for) and `entries` (its length): no code reads anything else
of it. `invoices[k]` is the row of key `k`; a row that does not exist is the row that
expired at time 0 without charges, which the code treats alike. `now` counts ticks, and
`DayLength` ticks make a calendar day of `billing_day_timezone`. In `InvoiceFlow`,
`ses[s]` is a database session: its place in the handler, the copy of the account it loaded
first (`loaded`), the time `resolve` captured (`started`), the invoice it read under the
lock (`seen`) and the time the charge was decided with (`decided`); `lock` is the holder of
the account's row lock.

| action | code |
|---|---|
| `Authenticate` | `authenticate`: token and account read, account active |
| `Resolve` | `resolve` up to the capture of `now` |
| `TouchActive`, `TouchMiss` | `_touch_active_invoice` and its commit, or no row |
| `LockAccount` | `lock_account` granted, then the second look at the invoice |
| `CommitFree` | the second look found a live period |
| `Decide`, `Refuse` | `charge_for_invoice` accepts or raises |
| `CommitCharge` | the flush and commit of invoice, journal entry and account |
| `OpenCommand`, `Command` | topup, refund and adjust, in the panel and on the command line |
| `OpenEdit`, `SaveCard` | the account card |
| `Rollback` | any session ended by an error, a lost connection, a restart |
| `Tick` | time, and local midnight |

What `_generate` does after its commit (a 304, the bucket, the drawing, the headers) changes no
state of this module and is no action of it: `admitted` counts the requests committed, whether
or not an answer reached anyone.

### Access and web sessions

The state of `CabinetAccess` is the part of the account row that access works on, the rows
of `account_invites` in the order of their commits, the sessions with the password that was
proved for each, and the handlers. A password is known by the number of its setting, which
is what a salted hash distinguishes. With `autoflush` off a handler shows nothing before its
commit, so a handler is a read of what it decides on and one or two commits:

| action of `CabinetAccess` | code |
|---|---|
| `StartLogin`, `LoginFails`, `SignIn` | `authenticate` up to the lock check; the failure and its commit; `reset_failures`, a renewed hash and `open_session` in one commit |
| `StartForgot`, `StartInvite`, `StartResend` | `prepare_password_reset` with its hourly limit, the operator's invite, the letter asked for again |
| `RevokePending`, `CommitLink` | `issue`: the pending links are read, then they and the new link are committed |
| `StartSetPassword`, `ListSessions`, `SetPassword`, `OpenAfterReset` | `set_password`: `find_account`; the second check and the list of `close_all`; the one commit of both; `_sign_in` |
| `StartConfirm`, `ConfirmEmail` | `confirm_email` |
| `StartChange`, `ChangePassword`, `ListSessions`, `CloseAll` | the change of password with its two commits |
| `CloseSession`, `SetActive`, `Abandon`, `Tick` | logout or expiry, the operator's switch, an error or restart, time |

`InitCreated` and `InitRegistered` are the two ways an account comes into being. A refused
request changes nothing and is `Abandon` or no step at all.

`WebSessions` keeps the administrator's row (`admin`), the session rows with their three
times and flag (`rows`), and handlers with the copies they read.

| action of `WebSessions` | code |
|---|---|
| `StartLogin`, `LoginFails`, `SignIn` | `AdminService.authenticate` up to the lock check; `register_failure` committed; `reset_failures`, rehash, `_purge_stale` and `open` in one commit |
| `LoadSession`, `CommitExpired`, `CommitRenewal` | `SessionStore.load`: the read, the verdict, and the commit that revokes or renews |
| `FindOwner`, `Serve`, `Logout` | `current_admin`, the page, `close` |
| `AdminPassword`, `AdminResetTotp`, `AdminDisable`, `AdminUnlock`, `CommitCommand` | `nosbp admin ...`: the read, then the first commit |
| `ListSessions`, `CloseAll` | `close_all`: the list, then its commit |
| `Abandon`, `Tick` | an error, a lost connection, a stopped command; time |

### Organisations, keys, logos

Rows are model values with columns (`orgs`, `tokens`), `tokenLock` is the session whose mark
holds a key's row, `files` the bucket, `cache` the entries of `LogoCache` in the order of
its `OrderedDict`. The key of a logo is the number of its upload, which also names its bytes.

| action of `Organizations` | code |
|---|---|
| `PanelCreate`, `CabinetCreate`, `OrgAdd` | `create_organization` up to its flush, from the three places that reach it |
| `PanelEdit`, `CabinetEdit`, `UpdateOrganization` | the row loaded; `update_organization` with the check of the alias and `clear_default_organization` |
| `AttachLogo` | `attach_logo`: `store_logo`, and the replaced key leaves the cache |
| `CommitSave` | flush and commit: changed columns only, unique alias, the row of a lone UPDATE still there |
| `PanelDelete`, `CabinetDelete`, `DeleteOrganization` | deletion with the invoices |
| `IssueToken`, `PanelRevoke`, `CabinetRevoke`, `CommandRevoke`, `CommitRevoke` | keys; the command stamps again what is revoked |
| `Authenticate`, `MarkTokenUsed` | `authenticate` and the conditional UPDATE of `_mark_token_used`, whose row lock lasts to the commit |
| `ResolveOrganization`, `ResolveInvoice` | the receiver is read; the invoice is committed |
| `NotModified`, `DrawPlain`, `CacheHit`, `CacheMiss`, `StorageAnswers`, `Receive` | the ETag, `LogoCache.get` split at its await, `_put`, the answer |
| `PaymentQr` | the image of `/pay/{token}` |
| `Rollback`, `Restart`, `Tick` | an error; the server starts over; time |

### Documents

A character of a number is one that `str.isdigit` accepts: a digit, a digit of another script
(`Foreign`), which `int` reads as the same figure (`Value`), or one that `int` refuses (`Odd`).
`PaymentDocument` types a form (`Mistype`, `Transpose`), sends it (`SaveForm`, which accepts
by the same control digits as `requisites.py` and passes rate and check through the texts of
the form), and lets a template fill in a request (`FillIn`, `SetSum`) that may be charged
(`Charge`). Control sums, figures and numbers are recursive functions, one step per turn of
the loop in the code or per digit in the library's conversion; so are key and payload, one step
per field, and the collapsing of white space, one step per character (`Collapsed`). The hash of
the key is left out: it keeps different keys apart. `Figures` writes and `NumberOf`
reads whole numbers of any size, as `str`, `divmod` and `Decimal` do for every number the
columns can hold (a BIGINT is far below the 28 digits of `Decimal`).

### Row locks

`RowLocks` gives each kind of transaction the set of lock sequences it may take
(`Programs`): one per handler, from its statements, the order in which the ORM flushes, and
the locks foreign keys imply. A session takes them one after another (`Acquire`), ends by
`Commit`, `Fail` or as the victim of `DeadlockDetected`. The rows are those of one account: its
keys, organisations, links, invoices and its sessions in the cabinet. A new or changed alias
also takes its entry of `uq_organizations_account_alias` (`TakeName`), of a name nobody has
(`Names`) or of one a row has by now: it waits for whoever is putting the same one in, and for
whoever writes the row that has it.

| programs | code |
|---|---|
| `Request` with `Hit`, `NewInvoice`, `RenewInvoice` | `_mark_token_used`, then the fast or the slow path |
| `BalanceCommand`, `SaveAccount` | `lock_account`; an UPDATE of the account |
| `CreateOrganization`, `EditOrganization`, `RenameOrganization`, `DeleteOrganization` | `admin/crud.py`, from the panel, the cabinet and the command line |
| `IssueToken`, `RevokeToken` | keys |
| `IssueInvite`, `ConfirmEmail`, `SetPassword` | `cabinet/invites.py`, the last with `close_all` in its commit |
| `OpenSession`, `MarkSession`, `CloseAll` | `core/sessions.py`: a login with `_purge_stale`, a page or a logout, `close_all` |
| `DeleteAccount` | `admin/routes/accounts.py`, with all that belongs to the account |

### Facts about libraries

`expire_on_commit` is off and `lock_account` does not ask for `populate_existing`, so a
`SELECT ... FOR UPDATE` of a row that is already in the identity map takes the lock and keeps
the old attribute values: `LockAccount` leaves `loaded` alone. SQLAlchemy writes only the
columns that differ from the loaded ones: `WriteBack`, `Flushed`. An UPDATE or DELETE of one
row that is gone raises StaleDataError; in a batch of several the asyncpg driver gives no
count and the loss passes: the guards on `Cardinality(...) = 1` of `CommitSave` and
`CloseAll`. The unit of work flushes parents before children and the rows of a table by
primary key; PostgreSQL's lock modes conflict as in `Conflict`.

History variables (`bought`, `paid`, `admitted`, `overtaken`, `staleWrite` and others, declared apart with
a comment in each module) record what the properties speak of. No guard and no update of the
program reads them.

## 3. Runs

| run | question | result | states |
|---|---|---|---|
| `billing` | the serialised account: charges decided up to `Lag` ticks before their commit, commands, extensions, edits between cards, three calendar days | an overdraft episode has one deadline, moved only by its extensions; no charge into debt after it; the limit of the day holds across midnight and edits | 61,542 |
| `flow` | two sessions among requests, top-ups and the account card, two keys | free periods are disjoint; every period has its entry and counter; the limit holds; the hit counter misses a request only in a named race; drift needs a stale copy; edits keep money | 471,217 |
| `flow_serial` | one session at a time, cards that lift a limit and give unlimited service | the flow implements `Billing` (refinement); balance and hit count are exact | 121,572 |
| `flow_live` | two sessions that meet at the lock, with fairness | every session that starts ends | 7,379 |
| `access` | two handlers of one customer | letters, uses of a link and usable links exceed their limits by at most the other handlers; old sessions survive a change of password only by a named race; a lock is lifted only by a link or an older login; failures are counted exactly when handlers do not overlap | 942 thousand |
| `sessions` | two handlers among logins, pages, logout and console commands of an administrator | a closed session stays closed; sessions end with the credentials they were opened with; a session is given up only when idle | 1,563,754 |
| `organizations` | two sessions that edit, delete, revoke, request and open payment pages, with restarts | one default but for a named race; no logo is missing; an image shows one state of the row; the mark of a key follows its use | 616,521 |
| `document` | every single slip in two valid forms, the texts of rate and check, every pair of requests over two text fields and a sum | a slip in a controlled number is refused but for the slips the control digits cannot see; equal keys mean equal documents; a form saved again changes nothing | 197,304 |
| `locks` | two transactions of any kind on one account, two rows of each table, with fairness | only the circles named in `DeadlocksNamed` form; everyone ends | 153,457 |
| `lost_update` | the promise of `lock_account` | violated: two requests for different keys, one change of the balance is lost | |
| `link_twice` | a link is for one use | violated: two requests read the link before either marks it | |
| `stale_image` | the image of an invoice never changes | violated: a reader with an ETag keeps the former requisites | |

Bounds. Two sessions or handlers make every pair of interleaving steps possible; nearly
every race of this code is between two. Two rows of each table let two transactions
of `locks` take them crosswise, and one more name serves for a new alias. That a third
transaction makes no other circle is `DeadlocksCorrect`, for any number; the invariant was
also checked with three transactions, under symmetry and with one key, link and invoice. What
each run needs besides:

* `flow`: four openings let two sessions overlap with the leftovers of two earlier ones. Two
  keys show that requests for different invoices share the account. The price is 1 and the
  daily limit 2: one charge below the limit, the next at it, the third over it. A free period
  of two ticks and four ticks of time let a period be bought, expire and be renewed; a day of
  three ticks puts midnight inside. `Lag` = 1 lets a charge be decided before midnight and
  committed after.
* `access`: three handlers are what each property needs to fail in a mutant, two that overlap
  and one before or after them; an hour and a lock of one tick with a clock of two let both
  run out between the steps of a handler.
* `sessions`: four handlers started, two sessions and one change of credentials: a login
  before the change, one across it, a page and the command. The life of a session (6), the
  idle time (4), the throttle (1) and a lag of at most 2 between the steps of a page, within
  a clock of 7, let each run out before the others.
* `organizations`: three sessions, two organisations of one account, one key, two uploads. A
  cache of one entry is always at its limit; a throttle of zero makes every request of a
  later tick due; a ttl of one within a clock of two lets an entry run out while the bucket
  is asked. The three forms move the default flag both ways, with and without a logo.
* `document`: valid numbers of a company and of an entrepreneur, one account with neighbours
  five apart among them, with one slip in any place: another digit, one of another script, or
  one that `int` refuses;
  texts of up to two symbols, separators and odd spaces among them, in two fields; rates of
  0, 5, 70, 105 and 10000 basis points and checks of 0, 7 and 12340 kopecks, which have no
  fraction, one digit, a trailing zero, or both; a payload limit that the longest documents exceed.
* `billing` runs over six ticks with a day of two and at most four entries.

`MaxTime`, `MaxRuns`, `MaxEntries`, `MaxFiles`, `MaxSessions`, `MaxChanges` and `MaxSlips` are
guards of the actions that would exceed them; nothing else is bounded. Symmetry (over
sessions, keys or organisations) is used in safety runs only. Deadlock is checked in every
run but `document`, where typing and requests may simply stop: elsewhere the bounded system
has a last state of its own, `Finished`, reached only when every session has ended.

Fairness. `flow_live` assumes weak fairness of each started session (`Proceed`): the server
runs its coroutines and the database grants a released lock to a waiter. `locks` assumes weak
fairness of each transaction's next statement and commit, and of PostgreSQL's deadlock
detection. Nothing is assumed of clients, of the operator, of the clock or of failures: nobody
must start, fail or be cut off. Weak fairness is enough because the sessions are finitely
many, so a waiter is in the end alone. The mutants show that the properties need it to be
so: a session that ends and keeps its row locked makes the other wait for ever.

Every property of a passing run has a mutant in `PROJECT.json`: a plausible bug in a mapped
definition under which the run finds it violated.

## 4. Proofs

The theorems hold for every set of sessions, keys, rows, amounts, cards and forms, every
price, period, throttle and size, and every bound; the assumptions are the ranges of the
settings (`RulesAssumption`, `BillingAssumption`, `FlowAssumption`, `AccessAssumption`,
`SessionsAssumption`, `OrganizationsAssumption`, `DocumentAssumption`, `RowsAssumption`), and
that typing starts from forms the validators accept (`StartsAssumption`); TLC also evaluates
them all. Words and sums are assumed to be no separators: a word is what stands between them,
and `str` of an integer holds none.

`BillingRulesProofs`: what each row computation returns. A charge moves the balance by its
entry's amount; a debt it leaves keeps the deadline it had or gets the new one.

`BillingProofs`: `BalanceCorrect` from `SerialInv`. The auditor's theorems need more:
`OverdraftEpisodeCorrect` ties the deadline of the row to the opening charge the auditor
remembers and is inductive only together with the types of the auditor's variables;
`DayCapCorrect` only together with `CapCoversLimit` (the limit in force never exceeds the cap
remembered), since the code compares with the limit in force. `DebtCorrect` is an action
property: a charge into debt is allowed either because it opens the episode, whose start is
then its own time, or because its time is at most the deadline.

`InvoiceFlowProofs`: all safety properties of run `flow`. `ChargedOnce` alone is not
inductive: the step that buys a period must know that the row it read under the lock is still
the row (`SeenHolds`), that the captured time is not before the row's expiry (`PeriodOver`)
and that the row's expiry covers every period bought (`PeriodsEnd`). These hold because only
the holder of the lock changes expiry and charge count (`OneHolder`, the theorem
`LockCorrect`), while the fast path, which takes no lock, only adds hits. The daily limit
needs `RoomLeft`: the room found at the decision is still there at the commit, because the
sum of the day grows only under the lock and time only lowers it. `HitsCorrect` compares three
counters, the charges, the hits and the requests let through: a session that has read an invoice
under the lock knows its hits (`HitSeen`) as long as no free hit was counted since, which is
what `overtaken` records, and the charges never outrun the hits because each adds one
(`HitsInv`). `EditsCorrect` needs the price to be positive at the commit,
which the journal's CHECK enforces. The balance has no theorem here: it is false, and
`DriftCorrect` says exactly when it may go wrong, which is when a session writes a balance
computed from an outdated copy.

Of requests that do not meet the balance is right: under `[]OneAtATime` (no two sessions open
at once) `SerialCorrect` gives exact balance and hit count, and `SerialImplemented` the
refinement of `Billing`, step by step: `CommitCharge` is its `Charge`, a command and a saved
card are its commands and edits, `Tick` is its `Tick`, everything else a stutter. Both need
`SerialInv`: the copy a session works on is the committed row (`CopyCurrent`), the hits it read
are those of the row (`HitsCurrent`), and what `charge_for_invoice` decided would be decided
again at the commit (`ChargeStands`), since only time has passed and the sum of the day only
falls with it. `OneSessionSerial` removes the condition where there is one session, which is
what run `flow_serial` checks; the finding `lost_update` shows that it is needed.

`CabinetAccessProofs`: all properties of run `access`. Every handler works on a copy of the row, so each invariant says what a
copy may be wrong about. A confirmed address stays confirmed, so a copy may be trusted on it
(`ConfirmedInv`). A login that reached the password check read no lock in force, and time
only grows (`LoginsUnlocked`). The acceptances of a link and the handlers that still hold it
together never exceed the handlers, since a used link cannot be opened (`LinkInv`); that the
bound is not one is the finding `link_twice`. A handler about to close sessions has listed all
but those created since, and outside a change every other session has the last password
(`ClosingInv`). The four bounds on concurrent use have one shape: what is counted plus what
handlers have in hand stays within the bound.

* failures and passwords: while no two handlers have overlapped, at most one is on its way
  (`Alone`), so its copy holds the counter as it is (`CountInv`) and a login read the last
  password (`PasswordInv`); afterwards `overlapped` stays true and the properties ask less;
* links: the unused links of a purpose belong to different handlers, for each handler that is
  about to commit another one has its earlier one on its list (`IssueInv`, an injection into
  the handlers); alone, a handler finds at most one, revokes it, and uses what nobody has used
  (`CalmInv`);
* letters: a handler that has passed the hourly limit keeps a place for its letter: letters of
  the hour and such handlers together never exceed the limit and the other handlers
  (`LettersInv`). The bound needs one handler at least, hence `Handlers # {}` in
  `AccessAssumption`.

`WebSessionsProofs`: all four properties of run `sessions`. `ClosedCorrect` needs only that a
row is written by what the ORM saw change: a renewal names the mark and the expiry, never the
revocation. `IdleCorrect` follows the age of a mark: `MarksInv` bounds the distance between
the mark of a row, the marks pages have in hand and the last page by `Slack`, the throttle or
the lag, and ids are never reused (`OpenedInOrder`). `FollowCorrect` needs four facts
together (`FollowInv`): only the first password may have an outdated hash, so a login that
renews it brings no other back; a command that closes nothing leaves the credentials alone; a
command about to close has listed every open session but the late ones; and the property
itself.

`OrganizationsProofs`: all five invariants of run `organizations`. `TypeInv` adds to the types
what a session has in hand at each place (`GoodCopy`) and that keys stay and an invoice has its
organisation (`RowsStay`). `StepKinds` then reduces every step to a start, whose copy is the row
as it is, or a step of one session. On it stand four small inductions:

* the default: without a race a session that will set it is going to unmark every other
  default (`ClearedInv`), because no save that does not set it adds one (`SaveMarks`), and a
  row that exists was loaded by whoever saves it (`OwnRows`);
* logos: row, copies and cache name only keys in the bucket, where nothing is deleted
  (`LogoInv`); the cache keeps one entry per key because `Invalidate` precedes every
  append (`InvalidateGood`, `AppendGood`, `CachePutGood`);
* answers: with those two facts the image sent is `ImageOf` the copy, which has been in the
  request's window since the row was read;
* marks: a request that is to mark its key holds the key's row, whose mark is still due, and
  one that is not has found a recent mark (`MarkerInv`, `OthersInv`); so a mark never goes
  back.

`RowLocksProofs`: `DeadlocksCorrect`, for any number of transactions, rows, aliases and links,
where the run has two. Whoever keeps somebody waiting in a circle waits himself, so the
members that keep somebody waiting are a circle too (`InTheWay`, `WayStuck`): members that are
in nobody's way may be taken out of a circle again and again. Without the named pairs that
removes the renames, the new organisations, the pages and the logins (`WhoWaits`). Those that
are left (`Ordered`: requests, the panel, edits, the end of all sessions) take their locks along
ranks (`Rank`): keys, the account when it is written, links, organisations by primary key, the
account and an organisation when they are only referred to, invoices, sessions of the cabinet.
Whoever collides with a lock held waits for a lower rank than those its holder still takes
(`Upward`), so a waiter of the greatest rank would have to wait for a higher one
(`NoOrderedCircle`). The invoices that go with an organisation are locked in no order, but under
its lock, which only one transaction holds (`UnderOrg`, `OneDeletes`). The inductive invariant
(`LockInv`) says that what a transaction holds and what it still takes are in order (`InOrder`)
and what its kind takes (`OfItsKind`), and what the lock table and the index promise
(`Exclusion`, by itself `ExclusionCorrect`): two transactions never hold a row in conflicting
modes, nor the same entry of the index.

`PaymentDocumentProofs`: `SlipsCorrect`, for every valid form and every slip. The invariant
(`DocInv`) says that the saved form is valid and the typed one differs from it by one slip in
one field. The slip is one of characters, the control sums are of figures: what `int` reads of a
digit of any script is a figure (`IntsTable`), and a slip of characters either leaves the
figures as they are, in another script, or is the same slip of figures (`MistypedReads`,
`TransposedReads`). A mistyped figure then moves a control sum by weight times difference, two
transposed neighbours by the difference of their weights times that of the digits
(`OneChanged`, `TwoSwapped`); the weights 7, 1, 3 are prime to ten and their differences are
even, so ten divides the change only for digits that differ by five (`Tens`, `EvenTens`); no
weight of an INN and no difference of neighbouring ones is a multiple of eleven (`Elevens`), so
the remainder changes, and the control digit with it but for the pair of nought and ten. The
sums are recursive functions: what they compute is proved by their least counterexample, for
which the library's theorem on minimal elements (`WFMin`) does not need the induction rule.
`FieldsKept` by the same means: the figures of a number are read as this number
(`FiguresRight`), a text with a point splits into what was joined (`SplitRead`), and so the rate
and the average check survive every save of the form, for all values and not the eight
of the run.

`DocumentsCorrect` is `KeyMeansDocument` for texts of any length, any words, sums and edited
fields; its invariant (`SaleInv`) only says that both requests are well-formed and have no text
outside the edited fields, the rest is about the operators. What holds of the empty text and
stays true when a character is added holds of all texts; said of a set of texts
(`AppendInduction`), it needs no operator as a parameter, and shows that it makes no difference
whether bars become white space before or after the rest is collapsed (`SpaceTwice`). Hence the
value in the payload is a function of the one in the key (`CleanNormalized`) and, without bars,
the same (`NoBars`). No normalised value holds a separator, so the last separator of a key tells
its last part (`LastPart`), five times, and equal keys have equal parts (`KeysApart`). A field
appended behind a bar adds just itself to what the bank reads, or nothing when it is blank
(`ReadMore`); so the bank reads the sum and every text that is not blank, each under its name
(`ReadPayload`), and equal documents have equal fields (`ReadTellsAll`).

Only model-checked: the liveness of `flow_live` and `locks`, since fairness is out of the
prover's reach, and the three violations.

## 5. Findings

Each is a violation run and an entry of `PROJECT.json`.

* `lost_update` is the one that costs money: `get_qr` loads the account before it waits for
  the lock, and the lock does not refresh it. The journal stays right and `cmd_balance` of
  `scripts/manage.py` shows the difference, but later charges are decided on the wrong
  balance.
* `link_twice` is the same pattern in the cabinet: the link is read unlocked and marked used
  only in the commit at the end.
* `stale_image`: the ETag is the invoice's key, which knows the organisation by its
  identifier only, so an image with former requisites is confirmed as current.

Other differences between words and code met on the way have no run of their own; where a property
is about them, it names them as its exception.

* A slip in an account number may pass, against `README.md:582-583` of the repository ("опечатка в
  номере счёта не пройдёт"): the control digit of an account depends on its type, which its
  first digits tell, does not see neighbours that differ by five, and is computed from figures,
  so a digit of another script is as good. `SlipsShow` names every slip that is accepted.
* The hit counter does not hold every request, against `db/models/invoices.py:99` ("Сколько всего
  было обращений, включая бесплатные"): the slow path adds one to the hits it read and takes a
  free hit counted meanwhile out again. `HitsKept` bounds the loss, `SerialExact` says when
  there is none.
* An answer is not cached "ровно на срок бесплатного периода" (`payments/routes.py:266-267`): one
  given for free in the middle of a period is cached for the length of a whole one, counted
  from the sending.
* Not every wrong password counts, against `core/lockout.py:46`: those tried at the same time are
  counted on copies of one row. `FailuresCounted` is about handlers that do not overlap.
* An account disabled while a request waits is charged, because the flag comes from the same stale
  copy. No property is about it.
* A login that renews the hash of a password may write a former one back over a change: the
  exceptions of `PasswordKept` and `SessionsFollowCredentials`.
* A correction may leave a negative balance without a deadline (`OverdraftEpisode` speaks of
  charges), and two simultaneous saves two default organisations (`raced`).

## 6. Not modelled

* What `_generate` sends after the commit of a request: the header that tells a charge, which an
  answer 304 does not carry and an unlimited account gets as well; the age of a cached copy from
  the moment it is really sent; an error of the bucket or of the drawing after the charge, which
  leaves a request paid for and not answered. The charge itself is repeated free of cost within
  its period, which `ChargedOnce` shows.
* In `RowLocks`: the rows of administrators and their sessions, the unique index of e-mail
  addresses at a registration, and the entries of other indexes: an invoice's key is put into
  its index under the lock of the account, the rest are random identifiers and hashes.
* Notifications: one message to Telegram or MAX after the answer, failures logged, no retry
  and no memory; a property could only restate the call. Letters the same.
* Drawing of codes and error images, pages, texts, headers, colours, limits on lengths.
* The monthly report and the statistics: they only read. Of `admin/stats.py` only the text of
  the acquiring rate is modelled.
* Loading of the configuration; the ranges of its values are the assumptions on constants.
* Deletion of an account, other than by the row locks it takes; two registrations of one
  address, which the unique index decides.
* Rate limits in front of the service; errors of S3, SMTP and the network are `Rollback`.
* `solo` (a server without accounts or database) and the migrations.
* Two servers with clocks of their own: the clock is one, with `Lag` between reading it and
  committing.

## 7. Plan

Deletion of an account while its requests are under way, in `InvoiceFlow`: the handler of
`admin/routes/accounts.py` removes the account with everything that belongs to it, and a request
that waits for the lock meanwhile finds no row.
